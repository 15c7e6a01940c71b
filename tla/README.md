# A TLA+ model of errmark

errmark runs a program under `ptrace(2)` and marks what it writes to
descriptor 2. It intercepts every `write`, makes it a write of 0 bytes, copies
the bytes out of the program's memory and prints them itself, with start and
end strings at each change between descriptors 1 and 2. This directory models
that program, checks it with TLC and proves every safety property of it with TLAPS. Everything
is translated from the sources under `src/src`; file names below are relative
to `src/src/liberrmark` unless they say otherwise.

## The system

| component | state | operations | interacts with |
|---|---|---|---|
| tracing loop, `run-program.c` | `toggle`, `wfd`/`waddr`/`wlen`, `regs`, `exit_status`, `cmd->mark_state`, `cmd->child_exited` | `errmark_run_program` (fork, exec), `ptrace_cmd` (wait, GETREGS, SETREGS, SYSCALL) | the program through the kernel; marking; memory reads; `exit` of `main` |
| `guard-ptrace.c` | sets `cmd->child_exited` | one guarded request | aborts errmark on an unexpected error |
| marking, `mark-write.c` | `start1`, `end1`, `start2`, `end2`, `cur_fd` | `before_write`, `after_write`, `mark_open`, `mark_close`, `setmark`, `parse_mark_specs` | writes past stdio to the terminal |
| memory reads, `pmem-copy.c`, `pmem-fwrite.c` | locals | head, whole words, tail | PTRACE_PEEKDATA; stdio |
| command line, `cmd/errmark.c` | `verbose`, `debug`, the marks, `copy_fname`, `err_count`, `cmd_path`, `cmd_name` | the option loop and the checks after it | `lookup-color-name.c`, `set-print-fh.c`, `mark-write.c`, `sname.c`, `fshow-str.c` |
| `libcscript/guard-malloc.c` | none | malloc or `exit(8)` | the --copy branch |
| names, `sname.c`, `show-char.c`, `fshow-str.c`, `fshow-str-array.c` | the buffer of `fshow_str` | the last component of a path; strings shown with graphic characters | the command line |
| wait statuses, `fshow-wait-status.c`, `decode-signal.c` | none | what became of the program, and the name of a signal | the loop, with `--verbose` |
| errno messages, `fshow-errno.c`, `explain-err.c`, `decode-*` | none | wording | stderr |
| the program, the kernel (external) | where it runs or is stopped, registers, signals | system calls, stops, signals, death | errmark's wait and ptrace |
| the terminal, stdio (external) | what has appeared and what is buffered | write, fwrite, fflush | all of the above |

errmark has one thread, but it is one of two processes that move each other:
the program runs, is stopped and resumed, receives signals from elsewhere and
may be killed at any moment, between any two system calls of errmark. That is
where the hard behaviour is:

* `toggle` is the loop's only knowledge of whether a stop is the entry or the
  exit of a write; a stop of another kind that looks like one turns it over;
* registers and arguments read at one stop are used at a later one;
* the length is set to 0 before the bytes are copied, and the return value is
  forged afterwards, so a death in between must neither lose nor double output;
* marks go past the stdio buffer, so every mark needs a flush before it;
* wait statuses, ESRCH and `child_exited` together decide when the loop ends;
* errmark may itself be killed between any two of its system calls, ^C reaching
  both processes, and the program then goes on with the registers it has;
* a signal that the loop takes for a stop of its own is never delivered;
* a range of memory is read in words, may be partly unmapped, and its reader may
  lose the program half way.

`PROJECT.json` lists each hazard at its line with the properties that cover it.

What makes each part correct:

* loop: in step with the program; entry and exit told apart; no register changed
  but the documented ones; every write once, in order, complete, before the
  program goes on; ends when the program ends, with its exit code and a report
  of what happened to it; no signal lost but the two it looks for;
* marking: bytes appear under the mark of their descriptor; no marking is left on when
  the loop ends, and a known one at most at any other end;
* memory reads: the bytes of the range in order, the count true, a flush when
  complete, and no readable byte missed;
* command line: the last option about a descriptor decides; a start string never
  without an end string; the program is run only if all options were understood;
  the name it is reported under is the last component of its path.

## The modules

| module | models | notes |
|---|---|---|
| `Terminal` | the terminal and errmark's stdout buffer (external) | `out` is one record, so that C functions are operators on it |
| `MarkWrite` | `mark-write.c` while the program runs | extends `Terminal`; one operator per function |
| `WaitStatus` | the layout of a wait status (external), `fshow-wait-status.c`, `decode-signal.c` | pure operators |
| `Tracee` | the program and the kernel (external) | extends `MarkWrite`, because the kernel writes to the same terminal, and `WaitStatus` |
| `CopyOutcomes` | what a call of `pmem_fwrite` can come to | the contract between the next one and `PmemTransfer` |
| `RunProgram` | `run-program.c`, `guard-ptrace.c`, the failing `guard_malloc`, the exit code of `main`, the death of errmark | composes all of the above |
| `RunProgramProps` | its properties | |
| `MarkedLog` | the abstract specification: what errmark promises the person at the terminal | knows nothing of tracing or buffers |
| `RunProgramRefines` | the refinement mapping from `RunProgram` to `MarkedLog` | |
| `MCRunProgram` | the writes TLC tries | |
| `PmemTransfer`, `PmemTransferProps` | `pmem-copy.c` and `pmem-fwrite.c`, word by word | |
| `Options`, `OptionsProps` | `cmd/errmark.c` up to the call of `errmark_run_program`, with `parse_mark_specs`, `setmark`, `lookup_color`, `set_eprint_fh`, `sname`, `show_char_r`, `fshow_str`, `fshow_str_array` | |
| `MCOptions` | the command lines and paths TLC tries | |
| `TerminalProofs`, `RunProgramProofs`, `MarkProofs`, `StatusProofs`, `DeliveryProofs`, `RefinementProofs` | theorems about `RunProgram` | see Proofs |
| `PmemProofs` | theorems about `PmemTransfer` | see Proofs |
| `OptionsProofs` | theorems about `Options` | see Proofs |

**The loop.** The variable `pc` names the next system call of errmark that the
program can tell, and an action is all the code from one to the next:
`Wait` (lines 109-120), `GetRegs` (122-132, with the choice of the branch),
`MarkEntry` (132-163: `toggle`, the arguments, `mark_open` the first time,
`before_write`), `Nullify` (163-165), `CopyToStdout` and `CopyBoth` (170-180),
`ExitStop` (183-199), `Resume` (208), `Finish` (211-221, 247-250 and the end of
`main`), `PtraceFails` (guard-ptrace.c:31-37, at any of the requests),
`MallocFails`, and `ChildTraceMe`, `ChildExec` for the child before it is the
program. `lregs` is the local `regs`, `wcall` the three locals `wfd`, `waddr`,
`wlen`. `cmd->nullify` is always true when the program runs, and is left out
with the debugging output, `trace_fbt` (always NULL) and `sleep`.

**The program.** `phase` is where it is: computing (`user`), stopped at the entry
or exit of a system call, in the kernel, on the way back (`return`), stopped for
a signal (`sigstop`), dead. `regs` are its registers in the kernel, which errmark
reads and changes; `call` is what the program itself last loaded, which only
properties read. A signal taken on the way back leaves the number of the system
call in the registers; one taken in a computation does not. A write with length
0 writes nothing; a program that errmark has let go of writes for itself.

**Data.** A stretch of bytes is an item: which system call it belongs to, which
descriptor, whether it is all of the write (`data`), its beginning (`part`), a
dump of memory, uninitialised bytes (`junk`), or written by the kernel (`raw`).
An item on the screen carries the set of marks that were on when it arrived. A
buffer is `good` (every word that holds a byte of it can be read), `short` or
`null`; a length is 0, 2, or `HugeLen` for `(size_t)(-1)`.

**Memory reads.** `RunProgram` makes the copy one step, with the outcomes that
`CopyOutcomes` gives (none, some or all of the bytes; flushed or not).
`PmemTransfer` does it word by word with a program that may be killed at each
word, and `OutcomeKnown` says that whatever it ends with is among those
outcomes: the one step of the loop leaves nothing out. A kill in the middle of
the range counts as one before it or after it.

**Death of errmark.** `ErrmarkKilled` may happen in every state from
PTRACE_TRACEME on, before or after any system call of errmark. It loses the
stdio buffer, leaves the marks as they are, and lets the program go on with its
registers. Before PTRACE_TRACEME the child would trace itself to whatever
process inherits it, which is left out.

**The promise.** `MarkedLog` is a log of marked writes. The program issues a
write, an entry for it is printed while the program is in it, and the write
returns; a write of bytes that can be read has its entry, whole and under the
mark of its descriptor, before it returns. `RunProgramRefines` maps the write
the program is in (from the trap to the resumption after the exit stop) to
`current`, and the screen followed by what a flush would now put there to `log`:
a byte that stdio holds counts as printed under the marks that are on, so a mark
that overtook the buffer would change an entry of the log, which no step of
`MarkedLog` does. `over` becomes true, and the promise with it void, when the
program is dead, errmark has let go of it, or a signal stop was taken for a
write. Two of these are the findings `unmarked_after_signal` and `signal_as_write`.

**Options.** Strings are sequences of characters and a `char *` is a set, empty
for NULL. Each step is one turn of the `getopt_long` loop. `dbuf` is the most
bytes that were put into the buffer of `fshow_str`.

**History variables.** `sent` lists the signals that were sent to the program.
`flips` counts the signal stops that were taken for write
stops. Properties with `flips = 0` speak of the time before the first one; what
goes wrong then is the finding `EntryIsEntry`. `ncall` numbers the system calls.

## The runs

| run | question | bounds | states |
|---|---|---|---|
| `run_program` | all safety of the loop, and does it implement the promise? | 3 system calls and an exit, 1 signal (17 or 40), 7 kinds of write, all accidents, errmark killed | 9.0 million |
| `run_program_live` | does every stop, every write and errmark itself end? | 2 system calls and an exit, 2 signals (10, 17), 3 writes, a redirection | 500 000 |
| `pmem` | the word loop | words of 4, pages of 8, starts 0..9, lengths 0..12, all sets of mapped pages | 30 000 |
| `options` | the command line | all sequences of up to 3 of 19 options, 8 commands, error limit 1 | 430 000 |
| `stray_end`, `signal_as_write`, `trailing_separator`, `unmarked_after_signal`, `redirected`, `pmem_page_end`, `debug_option`, `wide_char` | one disagreement between the code and its documents each | small | small |

Why the bounds are enough: three system calls allow a change from one
descriptor to the other and back, a write after each kind of failed one, and a
write after a mistaken stop; one signal is what it takes to desynchronise
`toggle`, and the liveness run has two, so that it is turned back. Of the two
signals of `run_program` the loop takes 17 (SIGCHLD) for its own, and 40 is a
real-time signal, which ends the loop and has no entry in the table of names;
the liveness run has 10 (SIGUSR1), which has one. Further calls
repeat these situations, because the loop keeps nothing of earlier writes but
`cur_fd`, `mark_state`, `toggle` and the last arguments. Words of 4 with lengths
up to 12 give an empty, a partial and a full head, none to three whole words and
every tail, and starts up to 9 put each of these at, before and across a page
boundary. Three options are enough for two that set the same descriptor and a
third that interferes. The paths have a slash in front, doubled in the middle,
at the end and alone, and one is empty. With `MaxErrors = 1` two unknown options reach the limit
(10 in the code).

What the runs show, property by property, is said in the comments of
`RunProgramProps`, `PmemTransferProps` and `OptionsProps`. Deadlock is checked in
all runs; `Terminated`, `Returned` and `Over` are the states where the system
has stopped for good.

**Fairness.** `WF(Tracer)`: errmark is a single thread that only blocks in
`wait()`, so a step of it that stays possible is taken. `WF(OfKernel)`: the
kernel finishes a system call, a stop or a return to user mode it has begun.
`WF` of the child before exec, which runs two system calls of errmark's own
code. There is no fairness for the program (it may compute for ever), for
signals, for SIGKILL, for a failing ptrace or for the death of errmark. The
liveness run leaves the last two out, to keep it small: each ends errmark and
resumes the program in one step. It also leaves out the failed `fork()`:
`child_exited` then stays false and the loop really never ends (hazard at
guard-ptrace.c:27).

**What is not promised.** Three properties say less than a reader may hope, because
the code does less, and no document of the repository speaks of it:

* With `--copy` the bytes of stderr are written to the buffer of stdout and not
  flushed (run-program.c:175), so a prompt may be invisible while the program
  waits for the answer, until the next mark, the next write to 1 or the end of
  errmark; and they are lost when errmark aborts or is killed. `Delivered` leaves
  this case out, and `CopyHeld` says where the bytes are.
* `exit(8)` of `guard_malloc` ends no marking while the program goes on, and a
  death of errmark leaves one on as well. `MarkingAtExit` says which.
* The length register of a write is not restored (`RegsAfterWrite`).

And on one question the repository contradicts itself: `MarksAreLast` accepts the
closing separator of a mark specification both kept, as the words of the comment
at mark-write.c:29-33 have it, and dropped, as its example and the code at 79-81
mean it. The finding `trailing_separator` shows that it is kept.

**Slips that were not made.** A definition that differs from the next one in one
respect and is used nowhere is a plausible mistake; replacing the definition by
it breaks the property named here, which shows that the property can fail.

| slip | instead of | breaks |
|---|---|---|
| `ExitStopCounts`: toggle counts up | `ExitStop` | `TypeOK` |
| `ExitStopContinues`: back to wait() without resuming | `ExitStop` | `Lockstep`, `StopsEnd`, `WritesReturn` |
| `MarkEntryStdOnly`: toggle set only for 1 and 2 | `MarkEntry` | `ToggleParity` |
| `MarkEntryNoToggle`: toggle not set | `MarkEntry` | `EntryMeansEntry` |
| `LengthReturnedNow`: the current length register | `LengthReturned` | `FakeReturn` |
| `LengthReturnedAlways`: for every descriptor | `LengthReturned` | `RegsTouched` |
| `ReceivedUnflushed`: no fflush | `Received` | `Delivered` |
| `ReadableNoTail`: less than a word is not read with --copy | `Readable` | `CopyHeld` |
| `OurStopAny`: the loop goes on after every stop | `OurStop` | `SignalsKept` |
| `WIFSIGNALEDAny`: 127 is a signal | `WIFSIGNALED` | `ReportAgrees` |
| `BeforeWriteEndsNew`: the end string of the new descriptor, not of the old | `BeforeWrite` | `Implements` |
| `NoBytesNot`: the length is not cleared | `NoBytes` | `OrderPreserved` |
| `SwitchFromUnflushed`: a mark without a flush | `SwitchFrom` | `WellMarked` |
| `CopiedIfRead`: only what was read goes to the file | `Copied` | `CopyMatches` |
| `MarkCloseNever`: nothing closed | `MarkClose` | `MarkingAtExit` |
| `ExitCodeLow`: the low byte of the status | `ExitCode` | `ExitCodePassed` |
| `GoneNever`: ESRCH ignored | `Gone` | `ErrmarkEnds` |
| `HeadSizeUnclipped`, `TailSizeWord`, `phaseIgnored`: a size or the alignment forgotten | `HeadSize`, `TailSize`, `phase` | `TypeOK`, `CopiedInOrder`, `LongestPrefix` |
| `PeekErrorOnly`: bytes before an error not counted | `PeekError` | `ReturnCounts` |
| `FlushesNever` | `Flushes` | `OutcomeKnown` |
| `SnameAfterSlash`: a slash at the end starts a component | `SnameStart` | `CommandNamed` |
| `ErrorsTwice`, `LastCut`, `SetMarksNonEmpty`, `ChecksIgnoreErrors` | `Errors`, `Cut`, `SetMarks`, `Checks` | `TypeOK`, `MarksAreLast`, `StartsHaveEnds`, `OnlyCleanRuns` |

## Findings

Eight runs expect a violation, each of a sentence in the repository; the quotes
are in `PROJECT.json`.

* `stray_end`: `mark_close` runs two or three times at exit and repeats the end string.
* `signal_as_write`: a SIGCHLD that stops the program on its way out of a write is
  taken for a write, and entry and exit stay swapped afterwards.
* `trailing_separator`: the test that is to drop a separator at the end of a mark
  specification is never true, so the example in the comment, `1:[[:]]:`, ends a
  marking with `]]:`.
* `unmarked_after_signal`: any other signal ends errmark and the marking while the program goes on.
* `redirected`: writes to a redirected descriptor 1 or 2 come out at errmark's stdout.
* `pmem_page_end`: unaligned bytes just before an unmapped page are lost.
* `debug_option`: `--debug` with another option after it prints to a NULL stream.
* `wide_char`: a character of 0x80 or more overflows the 8 bytes of `fshow_str`,
  as soon as `--verbose` or a wrong `--mark` shows it.

## Proofs

The theorems state every safety property that the passing runs check, the refinement,
and how far most of the findings reach. They hold for every value of the constants
that the named assumptions of these modules allow: any number of system calls and
signals, any set of writes, signals, exit codes and accidents (`Tracee`); any word
size, any page size that is a multiple of it, any range (`PmemTransfer`); any set of
command lines and commands, which are finite sequences of options and of strings,
and any error limit (`Options`).

* `TerminalProofs`: lemmas on what the operators of `Terminal` and `MarkWrite` do
  to the output side: to its type, and to what has been put out. Each of them
  leaves the items on the screen and in the buffer as they are (`Moved`: only
  their place and marks may change) or adds one item at the end (`OneMore`);
  the death of errmark drops items from the end (`DropWithin`).
* `RunProgramProofs`: `TypeCorrect`, `Spec => []TypeOK`; one lemma per action.
  The type includes that only writes to 1 and 2 reach the copy. `PmemFwriteCases`
  is what the proofs need to know of `CopyOutcomes`.
  Then `LoopInvariant`, `LockstepHolds`, `ToggleParityHolds`,
  `EntryMeansEntryHolds`, `RegsTouchedHolds`. `Lockstep` and `ToggleParity` are
  not inductive by themselves: that a write stop turns `InWrite` over needs to
  know that what errmark read is what the program loaded. The invariant adds
  `StopView` (the registers in the kernel against those the program loaded),
  `LocalView` (errmark's copy against the kernel's, and which branch it took),
  `CallView` (`wcall` is the write the program is in) and `HeldUntilEnd` (errmark
  holds the program until it exits). From it `EntryMeansEntry` and `RegsTouched` follow:
  with `flips = 0`, `toggle = 1` means the program is inside a write, and a
  program that is held inside a write is at its entry or its exit.
* `MarkProofs`: `MarkInvariant`, `WellMarkedHolds`, `MarkingAtExitHolds`. The
  invariant says what the code relies on without a word: every item in the stdio
  buffer was put there under the marks that are still on (`BufferOk`), the mark
  that is on is that of `cur_fd` (`LitView`), and `before_write` has switched to the
  descriptor whose bytes are copied next (`OpenView`). Each switch flushes before
  it writes a mark, which is the step that keeps `BufferOk`. A death of errmark
  empties the buffer and leaves the mark of `cur_fd` on, so it keeps all three.
* `StatusProofs`: `SignalsKeptHolds`, `ExitCodePassedHolds`, `ReportAgreesHolds`,
  from `StatusInv`: nobody but the program changes its arguments (`CallArgs`), a
  wait status is that of a signal the program was sent, of a trap or of its end
  (`StatusView`), errmark holds the program only in a stop it takes for its own
  (`HeldView`), and the status that ended the loop is the last one (`EndView`).
  The layout of the statuses is arithmetic that SMT does: a stop code is no exit
  code, and a report of it names the signal that was in it (`ReportStop`,
  `ReportExited`, `ReportKilled`), by the table of `decode-signal.c`.
* `DeliveryProofs`: what the program is told against what came out, in four steps.
  `AnswerInv`: from PTRACE_SETREGS at the entry on the length is 0, and from
  the one at the exit on the return value is the length (`FakeReturnHolds`).
  `OrderInv`: as long as something may still come out of the current write
  (`ToCome`) nothing of it has, and all that came out is of earlier calls in their
  order (`OrderPreservedHolds`); this is where clearing the length before the copy
  matters. `SeenView`: a write of bytes that can be read is on the terminal by
  the time the length is cleared and the program resumed, or, when errmark has
  died before that, when the kernel has done it (`DeliveredHolds`); with `--copy`
  it may be in the stdio buffer instead, which is empty once errmark has exited
  (`CopyHeldHolds`). `RegsAfterWrite` says what errmark leaves in the registers: the
  length is always 0 after a write and not restored. `CopyMatches`
  is inductive as it stands (`CopyMatchesHolds`); the work is in `CopyEmbeds` and
  `CopyExtends`, which carry the correspondence between the file and what was put
  out over a flush, over items that are not errmark's stderr (the kernel may put
  one in front of the buffer) and over an item written to both.
* `RefinementProofs`: `ImplementsHolds`, `Spec => Implements`, by a simulation over the
  invariants above (`KnownInv`). As long as the promise is not over, a trap into a
  write to 1 or 2 is `Issue`, a copy is `Print`, the resumption from the exit is
  `Return` and any other step leaves the log as it is: that the mapped log does
  not change when a mark is written is `BufferOk` of `MarkInv`.
* `PmemProofs`: `PmemTypeCorrect`, `CopiedInOrderHolds`, `ReturnCountsHolds`,
  `OutcomeKnownHolds`, `LongestPrefixHolds`, for every `Word`, every `PageSize` that is a
  multiple of it, every range and every set of mapped pages. The invariant
  `PmemInv` says that past the head the address is aligned or the range is at its
  end, that all words asked for so far could be read (`ReadSoFar`), and that the
  function came to the end of the range (`AllRead`) or broke off at a word of it
  that could not be read (`BrokenOff`). It rests on three lemmas on `\div` and `%`:
  the quotient is unique, there is no aligned address within a word, and an
  aligned word does not reach into the next page.

* `OptionsProofs`: `OptionsTypeCorrect`, `StartsHaveEndsHolds`, `OnlyCleanRunsHolds`,
  `LetterHolds`, from which `MarksAreLastHolds` follows, `CommandNamedHolds`. `OptionsInv` says of the options read so far that
  errors were counted for all that are unknown (`ReadView`), that `copy_fname` is
  the file of the last `--copy` (`CopyView`), that the marks of a descriptor are those
  of the last option about it (`MarksView`), and that the command and its name go
  together (`NameView`). `OptionEffect` sums up a turn of the loop; `CutDescribes`, that
  `parse_mark_specs` cuts where the separator is, and `NameOfPath`, that `sname` finds
  the last component, are lemmas on the operators.

What a recursive function computes for every sequence is an induction over data,
and the induction theorems of the library cannot be used (their parameter is an
operator). `NameOfPath` needs one nevertheless, because `sname` goes through the path in one
pass. `ScanExists` and `SnameStartFacts` do it by a least counterexample, a set and not an
operator: `FirstOf` says that a set of natural numbers that is not empty has a least
element, from the well-foundedness of `<`. `CopyMatches` and `OnlyCleanRuns` avoid the
question: they say where the items are by a function or a quantifier, and not with
`SelectSeq`.

**How far the findings reach.** A violation shows one way in which a sentence of the
repository is false; these theorems say when it is true, or what is true instead.

| finding | theorem | what it says |
|---|---|---|
| `signal_as_write` | `HarmlessEntryIsEntry` (`StatusProofs`) | with neither SIGTRAP nor SIGCHLD among the signals sent, no stop is mistaken: `EntryIsEntry` holds and `flips` stays 0, so that the properties that speak of `flips = 0` hold for ever. `MistakenInvariant` adds that the stop after `execve` is never the mistaken one |
| `stray_end` | `StrayOnlyAtEnd` (`MarkProofs`) | an end string too many is written exactly at the end, when the descriptor marked last has marks, and never before |
| `trailing_separator` | `LetterHolds` (`OptionsProofs`) | the end string is always all that follows the second separator |
| `pmem_page_end` | `ReadableIsReadWhen` (`PmemProofs`) | a readable range is read whole exactly when its start is aligned or the word there can be read |
| `wide_char` | `NarrowReprFits` (`OptionsProofs`) | the buffer is large enough as long as there is no char of 0x80 or more |
| `debug_option` | `LastDebugHasStream` (`OptionsProofs`) | `--debug` as the last option prints to no NULL stream |

`unmarked_after_signal` and `redirected` have none: they need a signal or a
redirection, and one is enough.

Each of the invariants was run through TLC, as an invariant of `run_program`, `pmem` or
`options`, before it was proved, and so was each statement of the table.

Only model-checked: the liveness properties `StopsEnd`, `ErrmarkEnds` and
`WritesReturn`, which are beyond the prover. The fairness conjuncts of `FairSpec`
are not used by any theorem.

## Not modelled

* The text of messages, the usage text, the output of `--debug`, and the functions
  of `libcscript` that word an errno (`fshow_errno`, `explain_err`,
  `decode_emsg_r`, `decode_esym_r`): tables, without state, whose result is
  printed and not used.
* `vischar_r`, which shows an unknown short option in a buffer of its own size, and
  what a representation too long for `fshow_str` overwrites: the run `wide_char`
  ends where the bytes leave the buffer.
* `set_debug_fh`, which nothing calls.
* A death of errmark in the middle of one copy: it counts as one before or after
  it. stdio may have put out the beginning of the bytes by then, of a write whose
  length is already 0.
* That the loop never ends after a failed `fork()`: the safety properties are
  checked there, and no document speaks of it.
* Threads and children of the program: errmark sets no ptrace options, so it
  traces the one process it forked. Other system calls that write (`writev`,
  `sendfile`, ...) are `other`: errmark passes them over.
* Different terminals for descriptors 1 and 2: the README of errmark is about
  the case in which they are the same.
* A write that the kernel cuts short, or a stdout of errmark that fails.

## Plan

Done: the loop with the marking, the program, the terminal and the death of
errmark; the promise and the refinement; the memory reads and their contract with
the loop; the command line with names; wait statuses; a theorem for every safety
property of the passing runs and for the refinement. What is left stays with TLC:
the three liveness properties. Should errmark come to pass signals on, follow
`fork`, or trace other system calls that write, the modules to extend are `Tracee`
(what stops the program) and `RunProgram` (what errmark makes of a stop), and the
invariants to look at first are `LoopInv` and `StatusInv`.
