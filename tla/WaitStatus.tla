----------------------------- MODULE WaitStatus -----------------------------
(***************************************************************************)
(* Wait statuses, as wait() returns them and as errmark --verbose explains *)
(* them: src/libcscript/fshow-wait-status.c and decode-signal.c.  The      *)
(* layout of a status is external (sys/wait.h).                            *)
(***************************************************************************)
EXTENDS Integers

SIGTRAP == 5
SIGABRT == 6
SIGKILL == 9
SIGCHLD == 17
NSIG     == 65   \* signals are 1 .. NSIG - 1
SIGRTMIN == 34   \* the first two of 32 .. 64 belong to the thread library

W_STOPCODE(sig)       == sig * 256 + 127
W_EXITCODE(code, sig) == code * 256 + sig
WTERMSIG(status)      == status % 128
WSTOPSIG(status)      == (status \div 256) % 256
WEXITSTATUS(status)   == (status \div 256) % 256
WIFEXITED(status)     == WTERMSIG(status) = 0
WIFSTOPPED(status)    == status % 256 = 127
WCOREDUMP(status)     == (status \div 128) % 2 = 1
WIFCONTINUED(status)  == status = 65535

(* 127 in the low bits is no signal number: it means stopped or continued. *)
WIFSIGNALEDAny(status) == WTERMSIG(status) # 0
WIFSIGNALED(status)    == WTERMSIG(status) \in 1 .. 126

(* decode_signal_r: the table names the classic signals and holds NULL for *)
(* the rest; real-time signals are counted from SIGRTMIN.                  *)
SignalName(sig) ==
  CASE sig \in 1 .. 31             -> <<"sys_siglist", sig>>
    [] sig \in SIGRTMIN .. NSIG - 1 -> <<"real_time_signal", sig - SIGRTMIN>>
    [] OTHER                       -> <<"unknown_signal", sig>>

(* fshow_wait_status.  core is printed for a killed program only.          *)
Report(status) ==
  LET Line(kind, num, name, core) == [kind |-> kind, num |-> num, name |-> name, core |-> core]
      BySignal(kind, sig, core)   == Line(kind, sig, SignalName(sig), core)
  IN  CASE WIFEXITED(status)   -> Line("exited", WEXITSTATUS(status), << >>, FALSE)
        [] ~WIFEXITED(status) /\ WIFSIGNALED(status) ->
             BySignal("killed", WTERMSIG(status), WCOREDUMP(status))
        [] ~WIFEXITED(status) /\ ~WIFSIGNALED(status) /\ WIFSTOPPED(status) ->
             BySignal("stopped", WSTOPSIG(status), FALSE)
        [] WIFCONTINUED(status) -> Line("continued", 0, << >>, FALSE)
        [] OTHER                -> Line("internal_error", status, << >>, FALSE)
=============================================================================
