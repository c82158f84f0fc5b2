------------------------------ MODULE FetchOnce ------------------------------
(***************************************************************************)
(* What a CacheSession (src/cache.go) promises to its callers, with no     *)
(* server, channel or worker in sight: a table that is filled on demand.   *)
(* A key is resolved at most once, only after somebody asked for it, and   *)
(* every Get of the key returns the result of that one resolution, be it a *)
(* value or an error.                                                      *)
(***************************************************************************)

CONSTANTS
  Keys,     \* the keys a caller may ask for
  Gets,     \* the invocations of Get
  KeyOf,    \* the key an invocation is about
  Results,  \* what resolving a key can yield: a value or an error
  Nil       \* not resolved, not answered

VARIABLES
  asked,    \* the keys some Get or Prepare was called with
  result,   \* result[k]: the outcome of the one resolution of k, or Nil
  state,    \* state[g]: "idle", "pending" or "done"
  answer    \* answer[g]: what Get returned

vars == <<asked, result, state, answer>>

Init ==
  /\ asked = {}
  /\ result = [k \in Keys |-> Nil]
  /\ state = [g \in Gets |-> "idle"]
  /\ answer = [g \in Gets |-> Nil]

\* Get is called.
Call(g) ==
  /\ state[g] = "idle"
  /\ state' = [state EXCEPT ![g] = "pending"]
  /\ asked' = asked \cup {KeyOf[g]}
  /\ UNCHANGED <<result, answer>>

\* Prepare is called: it announces a key and waits for nothing.
Announce(k) ==
  /\ asked' = asked \cup {k}
  /\ UNCHANGED <<result, state, answer>>

\* The outcome of a key that was asked for becomes known, once.
Resolve(k) ==
  /\ k \in asked
  /\ result[k] = Nil
  /\ \E r \in Results : result' = [result EXCEPT ![k] = r]
  /\ UNCHANGED <<asked, state, answer>>

\* Get returns the outcome of its key.
Return(g) ==
  /\ state[g] = "pending"
  /\ result[KeyOf[g]] # Nil
  /\ state' = [state EXCEPT ![g] = "done"]
  /\ answer' = [answer EXCEPT ![g] = result[KeyOf[g]]]
  /\ UNCHANGED <<asked, result>>

Next ==
  \/ \E g \in Gets : Call(g) \/ Return(g)
  \/ \E k \in Keys : Announce(k) \/ Resolve(k)

\* A key that was asked for is resolved and a Get whose key is resolved returns.
Fairness ==
  /\ \A k \in Keys : WF_vars(Resolve(k))
  /\ \A g \in Gets : WF_vars(Return(g))

SafeSpec == Init /\ [][Next]_vars

Spec == SafeSpec /\ Fairness
=============================================================================
