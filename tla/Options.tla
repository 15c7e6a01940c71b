------------------------------ MODULE Options ------------------------------
(***************************************************************************)
(* src/cmd/errmark.c up to the call of errmark_run_program: the loop over  *)
(* the options, --mark and --color, the checks, and the file of --copy;    *)
(* with parse_mark_specs and setmark of mark-write.c, lookup_color,        *)
(* set_eprint_fh, sname and the functions that show a string.  One step is *)
(* one turn of the getopt_long loop.                                       *)
(*                                                                         *)
(* Strings are sequences of characters; a char pointer is a set, empty for *)
(* NULL.  A color name is <<base>> or <<"bright-", base>>.  "control" is a *)
(* character that isprint() refuses, "high" a char of 0x80 or more.        *)
(***************************************************************************)
EXTENDS Integers, Sequences, FiniteSetsExt, SequencesExt

CONSTANTS
  CommandLines,  \* the sequences of options that are given
  Commands,      \* the command and its arguments after them, perhaps none
  MaxErrors      \* 10 in the code: the loop ends after more errors

OptionNames == {"mark", "color", "copy", "h", "V", "v", "d", "unknown"}

ASSUME LinesAssumption ==
  CommandLines \subseteq Seq([opt : OptionNames, arg : Seq(STRING)])
ASSUME CommandsAssumption == Commands \subseteq Seq(Seq(STRING))
ASSUME ErrorsAssumption == MaxErrors \in Nat

VARIABLES
  pc,            \* "options", "checks", "run", "exit" or "crash"
  cmdline,       \* the options of this call
  optind,        \* the next one
  command,       \* argv + optind, once the options are read
  cmd_path, cmd_name,
  verbose, debug,
  start, end,    \* start1, start2 and end1, end2
  copy_fname,
  copy_fh,       \* cmd->copy_fh # NULL
  err_count,
  exit_code,
  errprint_fh,   \* where errors are printed
  dbuf           \* the most bytes that fshow_str needed of its buffer

commandVars == <<command, cmd_path, cmd_name>>
vars == <<pc, cmdline, optind, commandVars, verbose, debug, start, end, copy_fname,
          copy_fh, err_count, exit_code, errprint_fh, dbuf>>

Fds  == {1, 2}
NULL == {}
NoCode == -1

(* stderr_redirected: 0 when both descriptors are the same file, 1 when    *)
(* they are not, -1 when fstat fails; only 0 makes stdout the stream.      *)
EprintFh(redirected) == IF redirected = 0 THEN "stdout" ELSE "stderr"

Init ==
  /\ pc = "options" /\ cmdline \in CommandLines /\ optind = 1
  /\ verbose = FALSE /\ debug = FALSE
  /\ start = [fd \in Fds |-> NULL] /\ end = [fd \in Fds |-> NULL]
  /\ copy_fname = NULL /\ copy_fh = FALSE
  /\ err_count = 0 /\ exit_code = NoCode
  /\ \E redirected \in {-1, 0, 1} : errprint_fh = EprintFh(redirected)
  /\ command \in Commands /\ cmd_path = NULL /\ cmd_name = NULL
  /\ dbuf = 0

-----------------------------------------------------------------------------
(* lookup_color: the table is chosen by the prefix, the entry by the rest. *)
Colors   == {"black", "red", "green", "yellow", "blue", "magenta", "cyan", "white"}
IsBright(name) == Len(name) > 0 /\ name[1] = "bright-"
Base(name)     == IF IsBright(name) THEN SubSeq(name, 2, Len(name)) ELSE name
lookup_color(name) ==
  {[esc_start |-> <<IF IsBright(name) THEN "ESC[1;" ELSE "ESC[0;", c>>,
    esc_end   |-> <<"ESC[m">>] : c \in {b \in Colors : Base(name) = <<b>>}}

(* parse_mark_specs: a descriptor, a separator, the start string up to the *)
(* next separator, and all that follows that as the end string.            *)
MarkOk(spec)   == Len(spec) > 0 /\ spec[1] \in {"1", "2"}
MarkFd(spec)   == IF spec[1] = "1" THEN 1 ELSE 2
MarkBody(spec) == SubSeq(spec, 3, Len(spec))
Seps(spec)     == {i \in 1 .. Len(MarkBody(spec)) : MarkBody(spec)[i] = spec[2]}
LastCut(spec) == IF Seps(spec) = {} THEN Len(MarkBody(spec)) + 1
                 ELSE CHOOSE i \in Seps(spec) : \A j \in Seps(spec) : i >= j
Cut(spec) == IF Seps(spec) = {} THEN Len(MarkBody(spec)) + 1
             ELSE CHOOSE i \in Seps(spec) : \A j \in Seps(spec) : i <= j
MarkStart(spec) == SubSeq(MarkBody(spec), 1, Cut(spec) - 1)
MarkEnd(spec)   == SubSeq(MarkBody(spec), Cut(spec) + 1, Len(MarkBody(spec)))

(* strndup of an empty part, NULL or not, is an empty string, not NULL.    *)
SetMarksNonEmpty(fd, s, e) ==
  /\ start' = [start EXCEPT ![fd] = {s}]
  /\ end' = [end EXCEPT ![fd] = IF e = << >> THEN NULL ELSE {e}]
SetMarks(fd, s, e) ==
  start' = [start EXCEPT ![fd] = {s}] /\ end' = [end EXCEPT ![fd] = {e}]

-----------------------------------------------------------------------------
(* sname: s after n characters, found in one pass.  The character before   *)
(* is prevc, so that a slash at the end starts no component.               *)
SnameAfterSlash(path) ==
  LET s[n \in 0 .. Len(path)] ==
        IF n = 0 THEN 1 ELSE IF path[n] = "/" THEN n + 1 ELSE s[n - 1]
  IN  s[Len(path)]
SnameStart(path) ==
  LET s[n \in 0 .. Len(path)] ==
        IF n = 0 THEN 1 ELSE IF n > 1 /\ path[n - 1] = "/" THEN n ELSE s[n - 1]
  IN  s[Len(path)]
sname(path) == {SubSeq(q, SnameStart(q), Len(q)) : q \in path}

(* show_char_r: a graphic character stands for itself, any other is \x and *)
(* the digits %02x gives: two, or eight when the char is negative.         *)
ReprLen(c) == CASE c = "control" -> 4
                [] c = "high"    -> 10
                [] c \notin {"control", "high"} -> 1

(* Both put one character at a time into the dbuf of fshow_str, with its   *)
(* NUL.  What a longer one overwrites is not modelled.                     *)
ReprSizes(str) == {ReprLen(c) + 1 : c \in Range(str)}
fshow_str(str) == dbuf' = Max({dbuf} \cup ReprSizes(str))
fshow_str_array(strings) ==
  dbuf' = Max({dbuf} \cup UNION {ReprSizes(str) : str \in strings})

-----------------------------------------------------------------------------
Exit(code) == pc' = "exit" /\ exit_code' = code
GoOn       == UNCHANGED <<pc, exit_code>>

opt_mark(spec) ==
  /\ IF verbose \/ ~MarkOk(spec) THEN fshow_str(spec) ELSE UNCHANGED dbuf
  /\ \/ ~MarkOk(spec) /\ Exit(2) /\ UNCHANGED <<start, end>>
     \/ /\ MarkOk(spec) /\ GoOn
        /\ IF Len(spec) = 1 THEN UNCHANGED <<start, end>>
           ELSE SetMarks(MarkFd(spec), MarkStart(spec), MarkEnd(spec))

opt_color(name) ==
  /\ UNCHANGED dbuf
  /\ \/ lookup_color(name) = {} /\ Exit(2) /\ UNCHANGED <<start, end>>
     \/ \E ent \in lookup_color(name) : SetMarks(2, ent.esc_start, ent.esc_end) /\ GoOn

InLoop == pc = "options" /\ err_count <= MaxErrors

ErrorsTwice(o) == IF o.opt = "unknown" THEN err_count + 2 ELSE err_count
Errors(o)      == IF o.opt = "unknown" THEN err_count + 1 ELSE err_count

Option ==
  LET o == cmdline[optind]
  IN  /\ InLoop /\ optind <= Len(cmdline) /\ ~debug
      /\ optind' = optind + 1
      /\ verbose' = (verbose \/ o.opt = "v")
      /\ debug' = (debug \/ o.opt = "d")
      /\ err_count' = Errors(o)
      /\ copy_fname' = IF o.opt = "copy" THEN {o.arg} ELSE copy_fname
      /\ CASE o.opt = "mark"       -> opt_mark(o.arg)
           [] o.opt = "color"      -> opt_color(o.arg)
           [] o.opt \in {"h", "V"} -> Exit(0) /\ UNCHANGED <<start, end, dbuf>>
           [] OTHER                -> GoOn /\ UNCHANGED <<start, end, dbuf>>
      /\ UNCHANGED <<cmdline, commandVars, copy_fh, errprint_fh>>

(* With debug set, each further option is first printed to dbgprint_fh,    *)
(* which nothing in the program ever sets: fprintf to NULL.                *)
DebugPrint ==
  /\ InLoop /\ optind <= Len(cmdline) /\ debug
  /\ pc' = "crash"
  /\ UNCHANGED <<cmdline, optind, commandVars, verbose, debug, start, end, copy_fname,
                 copy_fh, err_count, exit_code, errprint_fh, dbuf>>

(* getopt_long returns -1, or there were too many errors.                  *)
EndOfOptions ==
  /\ pc = "options"
  /\ optind > Len(cmdline) \/ err_count > MaxErrors
  /\ pc' = "checks"
  /\ UNCHANGED <<cmdline, optind, commandVars, verbose, debug, start, end, copy_fname,
                 copy_fh, err_count, exit_code, errprint_fh, dbuf>>

(* After the loop.  argc is never 0 there, so a command that is missing is *)
(* not noticed: its path is the NULL at the end of argv, and execvp will   *)
(* fail in the child.  Opening the copy file may fail.                     *)
SetCommand ==
  /\ verbose' = (verbose \/ debug)
  /\ cmd_path' = IF command = << >> THEN NULL ELSE {command[1]}
  /\ cmd_name' = sname(cmd_path')
  /\ IF verbose' THEN fshow_str_array(Range(command)) ELSE UNCHANGED dbuf
  /\ \/ copy_fname # NULL /\ Exit(2) /\ UNCHANGED copy_fh
     \/ pc' = "run" /\ copy_fh' = (copy_fname # NULL) /\ UNCHANGED exit_code

ChecksIgnoreErrors ==
  /\ pc = "checks" /\ SetCommand
  /\ UNCHANGED <<cmdline, optind, command, debug, start, end, copy_fname, err_count,
                 errprint_fh>>

Checks ==
  /\ pc = "checks"
  /\ \/ err_count # 0 /\ Exit(1) /\ UNCHANGED <<verbose, cmd_path, cmd_name, copy_fh, dbuf>>
     \/ err_count = 0 /\ SetCommand
  /\ UNCHANGED <<cmdline, optind, command, debug, start, end, copy_fname, err_count,
                 errprint_fh>>

(* errmark_run_program takes over, or the process is gone.                 *)
Over == pc \in {"run", "exit", "crash"} /\ UNCHANGED vars

Next == Option \/ DebugPrint \/ EndOfOptions \/ Checks \/ Over
Spec == Init /\ [][Next]_vars
=============================================================================
