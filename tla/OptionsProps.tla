--------------------------- MODULE OptionsProps ---------------------------
(***************************************************************************)
(* What the options of errmark are to mean, and what errmark promises      *)
(* about its command line.                                                 *)
(***************************************************************************)
EXTENDS Options

(* The state of main() while it reads the options.                         *)
TypeOK ==
  /\ pc \in {"options", "checks", "run", "exit", "crash"}
  /\ optind \in 1 .. Len(cmdline) + 1
  /\ verbose \in BOOLEAN /\ debug \in BOOLEAN /\ copy_fh \in BOOLEAN
  /\ err_count \in 0 .. Len(cmdline) /\ exit_code \in {NoCode, 0, 1, 2}
  /\ \A fd \in Fds : Cardinality(start[fd]) <= 1 /\ Cardinality(end[fd]) <= 1
  /\ errprint_fh \in {"stdout", "stderr"}
  /\ command \in Commands /\ cmd_path \subseteq Range(command)
  /\ Cardinality(cmd_name) <= 1 /\ dbuf \in Nat

Done(i) == i \in 1 .. optind - 1

(* Option o gives descriptor fd its marks: --color is for stderr only.     *)
Digits == <<"1", "2">>
Sets(o, fd) ==
  \/ o.opt = "mark" /\ Len(o.arg) > 1 /\ o.arg[1] = Digits[fd]
  \/ o.opt = "color" /\ fd = 2 /\ lookup_color(o.arg) # {}

(* spec is fd, separator, s, separator, e (the second separator may be     *)
(* missing with an empty e), where s does not contain the separator: the   *)
(* words of the comment at mark-write.c:29-33.                             *)
Describes(spec, s, e) ==
  /\ \A k \in 1 .. Len(s) : s[k] # spec[2]
  /\ \/ spec = SubSeq(spec, 1, 2) \o s \o <<spec[2]>> \o e
     \/ spec = SubSeq(spec, 1, 2) \o s /\ e = << >>

(* The example in that comment, '1:[[:]]:', has a third separator at its   *)
(* end, which closes the end string.                                       *)
Closed(spec) ==
  /\ Len(spec) > 1 /\ spec[Len(spec)] = spec[2]
  /\ Cardinality({i \in 2 .. Len(spec) : spec[i] = spec[2]}) >= 3
DescribesClosed(spec, s, e) == Closed(spec) /\ Describes(spec, s, Append(e, spec[2]))

(* The marks that option o asks for, to the letter; and with either of the *)
(* two readings of a specification that is closed, because the words and   *)
(* the example disagree on it: EndsAsExample says which one the code takes.*)
AsksToTheLetter(o, s, e) ==
  IF o.opt = "mark" THEN Describes(o.arg, s, e)
  ELSE \E ent \in lookup_color(o.arg) : s = ent.esc_start /\ e = ent.esc_end
AsksFor(o, s, e) ==
  AsksToTheLetter(o, s, e) \/ (o.opt = "mark" /\ DescribesClosed(o.arg, s, e))

(* The last option that says something about a descriptor decides on its   *)
(* marks, and a mark specification is cut at the first separator after the *)
(* one that it chose; without such an option there are no marks.           *)
MarksAreLast ==
  \A fd \in Fds :
    LET setters == {i \in 1 .. Len(cmdline) : Done(i) /\ Sets(cmdline[i], fd)}
    IN  IF setters = {} THEN start[fd] = NULL /\ end[fd] = NULL
        ELSE LET last == CHOOSE i \in setters : \A j \in setters : j <= i
             IN  \E s \in start[fd], e \in end[fd] : AsksFor(cmdline[last], s, e)

(* Start and end strings are both NULL or both set, so that every marking  *)
(* that begins can end: write_start_* and write_end_* test them apart.     *)
StartsHaveEnds == \A fd \in Fds : start[fd] = NULL <=> end[fd] = NULL

(* The program is run only when every option was understood, and with the  *)
(* copy file of the last --copy.                                           *)
OnlyCleanRuns ==
  pc = "run" =>
    /\ \A i \in 1 .. Len(cmdline) : Done(i) /\ cmdline[i].opt \notin {"unknown", "h", "V"}
    /\ copy_fh <=> \E i \in 1 .. Len(cmdline) : cmdline[i].opt = "copy"
    /\ \A f \in copy_fname : \E i \in 1 .. Len(cmdline) :
         /\ cmdline[i] = [opt |-> "copy", arg |-> f]
         /\ \A j \in i + 1 .. Len(cmdline) : cmdline[j].opt # "copy"

(* The command is known by the last component of its path (sname.c:6-11):  *)
(* all that follows the last slash that is followed by anything, and never *)
(* nothing; and there is a name if and only if there is a path.  A missing *)
(* command has neither and gets this far: the test that is to refuse it    *)
(* (errmark.c:271) is never true.                                          *)
CommandNamed ==
  pc = "run" =>
    /\ cmd_name = NULL <=> command = << >>
    /\ \A path \in cmd_path, name \in cmd_name :
         /\ IsSuffix(name, path)
         /\ name = << >> => path = << >>
         /\ Len(name) < Len(path) => path[Len(path) - Len(name)] = "/"
         /\ \A i \in 1 .. Len(name) - 1 : name[i] # "/"

(* mark-write.c:35: "Example: --mark '1:[[:]]:'", and the code after the   *)
(* scan for the end of the specification (79-81) means to take a separator *)
(* there off the end string, so that this one ends a marking with "]]".    *)
EndsAsExample ==
  \A fd \in Fds, i \in 1 .. Len(cmdline) :
    LET o == cmdline[i]
    IN  /\ Done(i) /\ o.opt = "mark" /\ Sets(o, fd) /\ Closed(o.arg)
        /\ \A j \in i + 1 .. Len(cmdline) : ~(Done(j) /\ Sets(cmdline[j], fd))
        => \E s \in start[fd], e \in end[fd] : DescribesClosed(o.arg, s, e)

(* show-char.c:45-46: the buffer is "large enough to hold the largest      *)
(* possible escape sequence"; fshow_str passes one of 8 bytes.             *)
ReprFits == dbuf <= 8

(* set-print-fh.c:7-12: by default both errprint_fh and dbgprint_fh are    *)
(* set to stdout or stderr, so a debug message has somewhere to go.        *)
DebugHasStream == pc # "crash"
=============================================================================
