------------------------------ MODULE Watchdog ------------------------------
(***************************************************************************)
(* run_with_watchdog (apps/desktop/src-tauri/src/deploy/watchdog.rs): a    *)
(* shell command under a task that kills it when it has been silent for    *)
(* stall_timeout.  Four parties run at once: the command with the          *)
(* processes it starts, the readers of its output, the watchdog task and   *)
(* the caller that waits.                                                  *)
(*                                                                         *)
(* stdout and stderr are alike and are one pipe here.  The Unix build is   *)
(* modelled: `kill -9` of the shell alone.                                 *)
(***************************************************************************)
EXTENDS Naturals

CONSTANTS Kin,       \* the processes the shell may start
          Stall,     \* stall_timeout, in ticks
          MaxLine    \* bound: lines of output

ASSUME StallAssumption == Stall \in Nat \ {0} /\ MaxLine \in Nat

VARIABLES shell,     \* running, zombie (not waited for yet) or reaped
          exit,      \* how it ended: none, code or signal
          kin,       \* none, child (of the shell), orphan, gone
          written,   \* lines written
          unread,    \* lines in the pipe; "garbled" is a line that is not UTF-8
          lines,     \* lines in stdout_buf and stderr_buf
          reader,    \* the reader tasks: on, or off after a line they cannot decode
          quiet,     \* age of last_activity, up to Stall
          dog,       \* the watchdog task
          killed,    \* the AtomicBool
          main,      \* the caller: wait, drain, done
          verdict     \* none, completed, stalled

procVars == <<shell, exit, kin>>
pipeVars == <<written, unread, lines, reader>>
watchvars == <<procVars, pipeVars, quiet, dog, killed, main, verdict>>

Children == {k \in Kin : kin[k] = "child"}
Holders == {k \in Kin : kin[k] \in {"child", "orphan"}}

WatchInit == /\ shell = "running" /\ exit = "none" /\ kin = [k \in Kin |-> "none"]
             /\ written = 0 /\ unread = <<0, FALSE>> /\ lines = 0 /\ reader = "on"
             /\ quiet = 0
             /\ dog = "sleep" /\ killed = FALSE
             /\ main = "wait" /\ verdict = "none"

-----------------------------------------------------------------------------
(* The command. *)

Orphaned == [k \in Kin |-> IF kin[k] = "child" THEN "orphan" ELSE kin[k]]

Fork(k) == /\ shell = "running" /\ kin[k] = "none"
           /\ kin' = [kin EXCEPT ![k] = "child"]
           /\ UNCHANGED <<shell, exit, pipeVars, quiet, dog, killed, main, verdict>>

KinEnds(k) == /\ kin[k] \in {"child", "orphan"}
              /\ kin' = [kin EXCEPT ![k] = "gone"]
              /\ UNCHANGED <<shell, exit, pipeVars, quiet, dog, killed, main, verdict>>

Exit == /\ shell = "running"
        /\ shell' = "zombie" /\ exit' = "code" /\ kin' = Orphaned
        /\ UNCHANGED <<pipeVars, quiet, dog, killed, main, verdict>>

(* unread is the number of lines in the pipe and whether a garbled one, after *)
(* which nothing is read, comes behind them.                                 *)
Write == /\ shell = "running" \/ Holders # {}
         /\ written < MaxLine
         /\ written' = written + 1
         /\ \/ unread' = IF unread[2] THEN unread ELSE <<unread[1] + 1, FALSE>>
            \/ unread' = <<unread[1], TRUE>>
         /\ UNCHANGED <<procVars, lines, reader, quiet, dog, killed, main, verdict>>

-----------------------------------------------------------------------------
(* The readers: each line counts as activity; `while let Ok(Some(line))` ends *)
(* at the first one that is not UTF-8.                                       *)
ReadLine == /\ reader = "on"
            /\ \/ /\ unread[1] > 0
                  /\ unread' = [unread EXCEPT ![1] = @ - 1]
                  /\ lines' = lines + 1 /\ quiet' = 0
                  /\ UNCHANGED reader
               \/ /\ unread = <<0, TRUE>>
                  /\ reader' = "off"
                  /\ UNCHANGED <<unread, lines, quiet>>
            /\ UNCHANGED <<procVars, written, dog, killed, main, verdict>>

(* End of file: nobody holds the pipe's other end any more. *)
ReadersDone == \/ reader = "off"
               \/ unread = <<0, FALSE>> /\ shell # "running" /\ Holders = {}

AtMost(n) == IF n < Stall THEN n + 1 ELSE n
Seconds == /\ quiet < Stall
           /\ quiet' = AtMost(quiet)
           /\ UNCHANGED <<procVars, pipeVars, dog, killed, main, verdict>>

-----------------------------------------------------------------------------
(* The watchdog task: abort() reaches it in its sleep only; what follows a    *)
(* look at the clock runs to its end, `pgrep` and `kill` included.           *)
Look == /\ dog = "sleep" /\ main = "wait"
        /\ quiet >= Stall
        /\ dog' = "children"
        /\ UNCHANGED <<procVars, pipeVars, quiet, killed, main, verdict>>

Resumes == dog' = "sleep"

CheckChildren == /\ dog = "children"
                 /\ \/ /\ Children # {}
                       /\ quiet' = 0
                       /\ Resumes
                    \/ /\ Children = {}
                       /\ dog' = "flag"
                       /\ UNCHANGED quiet
                 /\ UNCHANGED <<procVars, pipeVars, killed, main, verdict>>

KillOnly == /\ dog = "flag"   \* mutant: kills without raising the flag
            /\ dog' = "kill"
            /\ IF shell = "running"
               THEN shell' = "zombie" /\ exit' = "signal" /\ kin' = Orphaned
               ELSE UNCHANGED procVars
            /\ UNCHANGED <<pipeVars, quiet, killed, main, verdict>>
Flag == /\ dog = "flag"
        /\ dog' = "kill" /\ killed' = TRUE
        /\ UNCHANGED <<procVars, pipeVars, quiet, main, verdict>>

Kill == /\ dog = "kill"
        /\ dog' = "over"
        /\ IF shell = "running"
           THEN shell' = "zombie" /\ exit' = "signal" /\ kin' = Orphaned
           ELSE UNCHANGED procVars
        /\ UNCHANGED <<pipeVars, quiet, killed, main, verdict>>

-----------------------------------------------------------------------------
(* The caller. *)

Wait == /\ main = "wait" /\ shell = "zombie"
        /\ shell' = "reaped" /\ main' = "drain"
        /\ UNCHANGED <<exit, kin, pipeVars, quiet, dog, killed, verdict>>

DrainNot == /\ main = "drain"   \* mutant: the reader tasks are not awaited
            /\ main' = "done"
            /\ verdict' = IF killed THEN "stalled" ELSE "completed"
            /\ UNCHANGED <<procVars, pipeVars, quiet, dog, killed>>
Drain == /\ main = "drain" /\ ReadersDone
         /\ main' = "done"
         /\ verdict' = IF killed THEN "stalled" ELSE "completed"
         /\ UNCHANGED <<procVars, pipeVars, quiet, dog, killed>>

Returned == main = "done" /\ UNCHANGED watchvars

DogStep == Look \/ CheckChildren \/ Flag \/ Kill

WatchNext == \/ Exit \/ Write \/ ReadLine \/ Seconds \/ DogStep \/ Wait \/ Drain \/ Returned
             \/ \E k \in Kin : Fork(k) \/ KinEnds(k)

(* Tasks are polled and time passes; nothing is assumed of the command. *)
WatchFair == /\ WF_watchvars(ReadLine) /\ WF_watchvars(Seconds) /\ WF_watchvars(DogStep)
             /\ WF_watchvars(Wait) /\ WF_watchvars(Drain)
WatchSpec == WatchInit /\ [][WatchNext]_watchvars /\ WatchFair

-----------------------------------------------------------------------------
WatchTypeOK == /\ shell \in {"running", "zombie", "reaped"}
               /\ exit \in {"none", "code", "signal"}
               /\ kin \in [Kin -> {"none", "child", "orphan", "gone"}]
               /\ written \in 0..MaxLine /\ lines \in 0..MaxLine
               /\ unread \in (0..MaxLine) \X BOOLEAN
               /\ reader \in {"on", "off"}
               /\ quiet \in 0..Stall
               /\ dog \in {"sleep", "children", "flag", "kill", "over"}
               /\ killed \in BOOLEAN
               /\ main \in {"wait", "drain", "done"}
               /\ verdict \in {"none", "completed", "stalled"}

(* A command the watchdog killed is never reported as completed: the flag is *)
(* seen by the caller although wait() returns while the task still runs.     *)
KillIsReported == exit = "signal" /\ verdict # "none" => verdict = "stalled"

(* Whatever the command's processes wrote is in the result, as far as it can  *)
(* be decoded, also when it was killed.                                      *)
OutputIsComplete == verdict # "none" /\ reader = "on" => unread[1] = 0 /\ lines = written

(* A command that goes silent is ended, though looks at its children put it   *)
(* off: the caller gets a result unless some process it started never ends.  *)
SilentIsEnded == <>(verdict # "none") \/ <>[](Holders # {})

-----------------------------------------------------------------------------
(* What a comment of the source says and the code does not do. *)

(* watchdog.rs:17 "Process completed normally": a command that ended is       *)
(* reported, although processes it left behind may keep its output open.     *)
ExitIsReported == shell = "reaped" ~> verdict # "none"
=============================================================================
