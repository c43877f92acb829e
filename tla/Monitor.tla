------------------------------ MODULE Monitor ------------------------------
(***************************************************************************)
(* The abstract contract of core/kernel/mutex.c: a monitor that one writer *)
(* or several readers are in, with condition variables.  Mutex.tla is      *)
(* shown to implement it.                                                  *)
(***************************************************************************)
EXTENDS Integers, FiniteSets

CONSTANTS Threads, Condvars, NoCv

VARIABLES
  phase,   (* out, want, in, signal (in and signalling) or blocked         *)
  mode,    (* what a thread wants or holds the monitor for                 *)
  cond     (* the condvar a thread is blocked on or signals                *)

vars == << phase, mode, cond >>

Modes  == {"read", "write"}
Phases == {"out", "want", "in", "signal", "blocked"}

Inside == {t \in Threads : phase[t] \in {"in", "signal"}}

\* A writer is admitted alone, a reader with other readers.
Admits(md) ==
  IF md = "write" THEN Inside = {} ELSE \A t \in Inside : mode[t] = "read"

Init ==
  /\ phase = [t \in Threads |-> "out"]
  /\ mode \in [Threads -> Modes]
  /\ cond = [t \in Threads |-> NoCv]

Request(t, md) ==
  /\ phase[t] = "out"
  /\ phase' = [phase EXCEPT ![t] = "want"]
  /\ mode' = [mode EXCEPT ![t] = md]
  /\ UNCHANGED cond

Enter(t) ==
  /\ phase[t] = "want" /\ Admits(mode[t])
  /\ phase' = [phase EXCEPT ![t] = "in"]
  /\ UNCHANGED << mode, cond >>

TryEnter(t, md) ==
  /\ phase[t] = "out" /\ Admits(md)
  /\ phase' = [phase EXCEPT ![t] = "in"]
  /\ mode' = [mode EXCEPT ![t] = md]
  /\ UNCHANGED cond

Leave(t) ==
  /\ phase[t] = "in"
  /\ phase' = [phase EXCEPT ![t] = "out"]
  /\ UNCHANGED << mode, cond >>

Wait(t, c) ==
  /\ phase[t] = "in"
  /\ phase' = [phase EXCEPT ![t] = "blocked"]
  /\ cond' = [cond EXCEPT ![t] = c]
  /\ UNCHANGED mode

StartSignal(t, c) ==
  /\ phase[t] = "in"
  /\ phase' = [phase EXCEPT ![t] = "signal"]
  /\ cond' = [cond EXCEPT ![t] = c]
  /\ UNCHANGED mode

Blocked(c) == {t \in Threads : phase[t] = "blocked" /\ cond[t] = c}

\* A signal takes one of the blocked threads, a broadcast all of them, to
\* where they want the monitor again with the mode they gave it up with.
Signal(t) ==
  /\ phase[t] = "signal"
  /\ \E S \in SUBSET Blocked(cond[t]) :
       /\ S = Blocked(cond[t]) \/ \E u \in Threads : S = {u}
       /\ phase' = [u \in Threads |-> IF u = t THEN "in"
                                      ELSE IF u \in S THEN "want"
                                      ELSE phase[u]]
       /\ cond' = [u \in Threads |-> IF u = t \/ u \in S THEN NoCv
                                     ELSE cond[u]]
  /\ UNCHANGED mode

Next ==
  \E t \in Threads :
    \/ \E md \in Modes : Request(t, md) \/ TryEnter(t, md)
    \/ Enter(t) \/ Leave(t) \/ Signal(t)
    \/ \E c \in Condvars : Wait(t, c) \/ StartSignal(t, c)

Spec == Init /\ [][Next]_vars

=============================================================================
