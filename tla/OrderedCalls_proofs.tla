------------------------- MODULE OrderedCalls_proofs -------------------------
(***************************************************************************)
(* Facts about a run of handler calls that the scenes' proofs cite: which  *)
(* value an object ends with, and that the last call assigning it exists.  *)
(***************************************************************************)
EXTENDS OrderedCalls, WellFoundedInduction, TLAPS

(* Among calls at positions 1..n, the calls that assign s have a last one, *)
(* because the naturals are well ordered (WFMin applied to the distances   *)
(* n - i).                                                                 *)
LEMMA LastWriterIsLast ==
  ASSUME NEW n \in Nat, NEW ws, DOMAIN ws = 1..n, NEW s, Writers(ws, s) # {}
  PROVE  /\ LastWriter(ws, s) \in Writers(ws, s)
         /\ \A j \in Writers(ws, s) : j <= LastWriter(ws, s)
<1> DEFINE W == Writers(ws, s)
           T == {n - i : i \in W}
<1>1. W \subseteq 1..n
  BY DEF Writers
<1>2. T \subseteq Nat /\ T # {}
  BY <1>1
<1>3. PICK x \in T : \A y \in T : ~(<<y, x>> \in OpToRel(<, Nat))
  BY <1>2, WFMin, NatLessThanWellFounded
<1>4. \A y \in T : ~(y < x)
  BY <1>2, <1>3 DEF OpToRel
<1>5. \E i \in W : \A j \in W : j <= i
  <2>1. PICK i \in W : x = n - i
    OBVIOUS
  <2>2. ASSUME NEW j \in W PROVE j <= i
    <3>1. n - j \in T
      OBVIOUS
    <3>2. ~(n - j < x)
      BY <1>4, <3>1
    <3>3. i \in 1..n /\ j \in 1..n
      BY <1>1
    <3>. QED
      BY <2>1, <3>2, <3>3
  <2>. QED
    BY <2>2
<1>. QED
  BY <1>5 DEF LastWriter

(* An object that no call assigns keeps its old value.                    *)
LEMMA OverwriteNone ==
  ASSUME NEW old, NEW ws, NEW s \in DOMAIN old, Writers(ws, s) = {}
  PROVE  Overwrite(old, ws)[s] = old[s]
BY DEF Overwrite

(* An object that exactly one call assigns ends with that call's value.   *)
LEMMA OverwriteOne ==
  ASSUME NEW old, NEW ws, NEW s \in DOMAIN old, NEW k, Writers(ws, s) = {k}
  PROVE  Overwrite(old, ws)[s] = ws[k][s]
<1>1. LastWriter(ws, s) = k
  BY DEF LastWriter
<1>. QED
  BY <1>1 DEF Overwrite

(* An object whose value changes is assigned by some call.                *)
LEMMA OverwriteChanged ==
  ASSUME NEW old, NEW ws, NEW s \in DOMAIN old, Overwrite(old, ws)[s] # old[s]
  PROVE  Writers(ws, s) # {}
BY DEF Overwrite

(* When the old values and every value a call writes lie in V, so do the  *)
(* values after the calls.                                                 *)
LEMMA OverwriteType ==
  ASSUME NEW D, NEW V, NEW old \in [D -> V], NEW n \in Nat, NEW ws,
         DOMAIN ws = 1..n,
         \A i \in 1..n : \A s \in DOMAIN ws[i] : ws[i][s] \in V
  PROVE  Overwrite(old, ws) \in [D -> V]
<1> SUFFICES ASSUME NEW s \in D PROVE Overwrite(old, ws)[s] \in V
  BY DEF Overwrite
<1>1. CASE Writers(ws, s) = {}
  BY <1>1, OverwriteNone
<1>2. CASE Writers(ws, s) # {}
  <2>1. LastWriter(ws, s) \in Writers(ws, s)
    BY <1>2, LastWriterIsLast
  <2>2. LastWriter(ws, s) \in 1..n /\ s \in DOMAIN ws[LastWriter(ws, s)]
    BY <2>1 DEF Writers
  <2>. QED
    BY <1>2, <2>2 DEF Overwrite
<1>. QED
  BY <1>1, <1>2

(* An order of E is a sequence of the events of E.                       *)
LEMMA OrderingType ==
  ASSUME NEW E, NEW o \in Orderings(E)
  PROVE  o \in [1..Cardinality(E) -> E]
BY DEF Orderings

=============================================================================
