------------------------------ MODULE MCLedger ------------------------------
(***************************************************************************)
(* Instances of module Journal, and of the ledger over every content that  *)
(* its journals can have, in the two orders in which the stores list it.   *)
(***************************************************************************)
EXTENDS JournalLedger

CONSTANT MaxEntries   \* the users make at most this many entries

Pool == UNION {entries[n] : n \in Id}

Small == Cardinality(Pool) <= MaxEntries

\* The pool whose users alter what they see.
SmallSpec == Init /\ [][SeenNext /\ Small']_vars

(***************************************************************************)
(* One original and edits of it, by everyone who has received it: the      *)
(* editing conflicts of docs/data-conciliation-spec.md.                    *)
(***************************************************************************)
Original == {e.clock : e \in {f \in Pool : f.alters = EmptyClock}}

EditNext ==
  \E n \in Id :
    \/ \E value \in Amount : Pool = {} /\ AppendData(n, value, EmptyClock)
    \/ \E value \in Amount, alters \in Original \cap Alterable(n) : AppendData(n, value, alters)
    \/ \E m \in Id : \E e \in entries[m] : CausalReceive(n, e)

EditSpec == Init /\ [][EditNext /\ Small']_vars

=============================================================================
