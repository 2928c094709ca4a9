------------------------------- MODULE EmitOnce -------------------------------
(***************************************************************************)
(* What the dispatcher promises its sinks, whatever its coroutines do: the *)
(* rollouts of an opened group are owed; an owed rollout is put on the     *)
(* queue exactly once, as a result or as a Cancelled marker, or is given   *)
(* up; the queue is FIFO and hands every entry over once.                  *)
(***************************************************************************)
EXTENDS Integers, Sequences

CONSTANTS
    Member,         \* rollouts
    Kind,           \* "result" and "cancelled"
    Capacity        \* maxsize of the queue

VARIABLES
    fresh,          \* rollouts of groups not opened yet
    owed,           \* rollouts the sinks still have to hear of
    queue,          \* entries [member, kind] on their way
    taken,          \* rollouts handed over to a sink
    given           \* rollouts given up
vars == <<fresh, owed, queue, taken, given>>

Init ==
    /\ fresh = Member
    /\ owed = {} /\ queue = <<>> /\ taken = {} /\ given = {}

Open(S) ==
    /\ S \subseteq fresh
    /\ fresh' = fresh \ S /\ owed' = owed \cup S
    /\ UNCHANGED <<queue, taken, given>>

Emit(m, kind) ==
    /\ m \in owed /\ Len(queue) < Capacity
    /\ owed' = owed \ {m}
    /\ queue' = Append(queue, [member |-> m, kind |-> kind])
    /\ UNCHANGED <<fresh, taken, given>>

Take ==
    /\ queue # <<>> /\ Head(queue).member \notin taken
    /\ taken' = taken \cup {Head(queue).member}
    /\ queue' = Tail(queue)
    /\ UNCHANGED <<fresh, owed, given>>

\* A task that was cancelled from outside, a drain, or the shutdown.
GiveUp(S) ==
    /\ S \subseteq owed
    /\ owed' = owed \ S /\ given' = given \cup S
    /\ UNCHANGED <<fresh, queue, taken>>

Next ==
    \/ \E S \in SUBSET Member : Open(S) \/ GiveUp(S)
    \/ \E m \in Member, kind \in Kind : Emit(m, kind)
    \/ Take

Spec == Init /\ [][Next]_vars
=============================================================================
