----------------------------- MODULE ScriptCall -----------------------------
(***************************************************************************)
(* What the caller of a sandbox is promised, without scripts, queues,      *)
(* workers or the other callers: its code is run at most once for a call,  *)
(* and only if it may run; it hears of success only from its own code,     *)
(* after that has run; and a call that is over leaves nothing behind for   *)
(* the next one.  ScriptSandbox implements it, caller by caller.           *)
(***************************************************************************)

CONSTANTS
  Codes,
  Runnable,   \* codes that may be run
  Succeeding  \* codes that succeed

VARIABLES
  phase,    \* "idle", "asked", "running", "success" or "failed"
  code,     \* what the call is about, NoCode if there is none
  limited   \* may it be given up

vars == <<phase, code, limited>>

NoCode == "none"

Init == phase = "idle" /\ code = NoCode /\ limited = FALSE

Ask ==
  /\ phase = "idle" /\ phase' = "asked"
  /\ code' \in Codes /\ limited' \in BOOLEAN

Run ==
  /\ phase = "asked" /\ phase' = "running"
  /\ code \in Runnable
  /\ UNCHANGED <<code, limited>>

Succeed ==
  /\ phase = "running" /\ phase' = "success"
  /\ code \in Succeeding
  /\ UNCHANGED <<code, limited>>

\* Whatever becomes of it, run or not.
Fail ==
  /\ phase \in {"asked", "running"} /\ phase' = "failed"
  /\ UNCHANGED <<code, limited>>

Over == phase' = "idle" /\ code' = NoCode /\ limited' = FALSE

\* The answer has been taken.
Leave == phase \in {"success", "failed"} /\ Over

\* The caller does not wait for an answer; its code may still run, for nobody.
GiveUp == phase \in {"asked", "running"} /\ limited /\ Over

Next == Ask \/ Run \/ Succeed \/ Fail \/ Leave \/ GiveUp

=============================================================================
