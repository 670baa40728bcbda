------------------------ MODULE MailSequencesProofs ------------------------
(***************************************************************************)
(* What MailSequences.tla promises, for every value of its constants:      *)
(* lemmas about the fold that is a batch's loop, the inductive invariant,  *)
(* and the properties.                                                     *)
(***************************************************************************)
EXTENDS MailSequences, FiniteSetTheorems, SequenceTheorems, WellFoundedInduction, TLAPS

-----------------------------------------------------------------------------
\* TypeOK, in two parts: what the program keeps, and the history of what was torn.
Typed ==
  /\ sequence \in {"on", "off", "gone"}
  /\ steps \in Seq(StepIds) /\ made \subseteq StepIds
  /\ blank \subseteq StepIds /\ consent \subseteq Contacts
  /\ enr \in [Enrolls -> Rows] /\ \A e \in Active : enr[e].index < Cardinality(StepIds)
  /\ batch \in [Batches -> [at: {"off", "mailing", "gap"}, todo: Seq(Copies),
                            copy: Copies, arrived: BOOLEAN]]
  /\ \A b \in Batches :
       batch[b].at = "mailing" => batch[b].copy.index < Len(batch[b].copy.steps)
  /\ mails \in [Enrolls \X StepIds -> Nat] /\ owed \in [Enrolls -> SUBSET StepIds]
TornOK == torn \subseteq Enrolls

-----------------------------------------------------------------------------
(* A fold over a sequence, as a function on the sets of its indices. *)

\* The least number of a set.
LEMMA LeastExists ==
  ASSUME NEW S \in SUBSET Nat, S # {}
  PROVE  \E x \in S : \A y \in S : x <= y
<1> DEFINE R == OpToRel(<, Nat)
<1>1. IsWellFoundedOn(R, Nat)
  BY NatLessThanWellFounded, Zenon
<1>2. \A x, y \in Nat : y < x => <<y, x>> \in R
  BY DEF OpToRel
<1> HIDE DEF R
<1>3. PICK x \in S : \A y \in S : ~ (<<y, x>> \in R)
  <2>1. S \subseteq Nat /\ S # {}
    OBVIOUS
  <2>2. QED
    BY <1>1, <2>1, WFMin, Zenon
<1>4. \A y \in S : ~(y < x)
  BY <1>2, <1>3
<1>5. QED
  BY <1>4

\* The greatest number of a set below a bound.
LEMMA GreatestExists ==
  ASSUME NEW n \in Nat, NEW S \in SUBSET (1 .. n), S # {}
  PROVE  \E x \in S : \A y \in S : y <= x
<1> DEFINE T == {n - x : x \in S}
<1>1. T \in SUBSET Nat /\ T # {}
  <2>1. \A x \in S : n - x \in Nat
    OBVIOUS
  <2>2. T \in SUBSET Nat
    BY <2>1
  <2>3. PICK x \in S : TRUE
    OBVIOUS
  <2>4. n - x \in T
    BY <2>3
  <2>5. QED
    BY <2>2, <2>4
<1>2. PICK t \in T : \A u \in T : t <= u
  BY <1>1, LeastExists
<1>3. PICK x \in S : t = n - x
  BY <1>2
<1>4. \A y \in S : n - x <= n - y
  BY <1>2, <1>3
<1>5. QED
  BY <1>3, <1>4

\* What the fold of a finite set computes, as a function on its subsets.
Unfolds(g, S, base, ch, F) ==
  \A s \in SUBSET S : g[s] = IF s = {} THEN base ELSE F[ch[s]][g[s \ {ch[s]}]]

\* ch chooses an element of every subset of S that has one.
Chooses(ch, S) == \A s \in SUBSET S : s # {} => ch[s] \in s

LEMMA FoldExists ==
  ASSUME NEW S, IsFiniteSet(S), NEW V, NEW base \in V,
         NEW ch, Chooses(ch, S),
         NEW F \in [S -> [V -> V]]
  PROVE  \E g \in [SUBSET S -> V] : Unfolds(g, S, base, ch, F)
<1> DEFINE Upto(n) == \E g \in [SUBSET S -> V] :
                        \A s \in SUBSET S : Cardinality(s) <= n =>
                          g[s] = IF s = {} THEN base ELSE F[ch[s]][g[s \ {ch[s]}]]
           Bad == {n \in Nat : ~Upto(n)}
<1>1. \A s \in SUBSET S : IsFiniteSet(s) /\ Cardinality(s) \in Nat /\ Cardinality(s) <= Cardinality(S)
  BY FS_Subset, FS_CardinalityType
<1>2. \A s \in SUBSET S : (Cardinality(s) = 0 <=> s = {}) /\ (s # {} => Cardinality(s \ {ch[s]}) = Cardinality(s) - 1)
  BY <1>1, FS_EmptySet, FS_RemoveElement DEF Chooses
<1>3. Upto(0)
  <2> DEFINE g == [s \in SUBSET S |-> base]
  <2>1. g \in [SUBSET S -> V]
    OBVIOUS
  <2>2. \A s \in SUBSET S : Cardinality(s) <= 0 =>
           g[s] = IF s = {} THEN base ELSE F[ch[s]][g[s \ {ch[s]}]]
    <3> SUFFICES ASSUME NEW s \in SUBSET S, Cardinality(s) <= 0
                 PROVE g[s] = IF s = {} THEN base ELSE F[ch[s]][g[s \ {ch[s]}]]
      OBVIOUS
    <3>1. Cardinality(s) = 0
      BY <1>1
    <3>2. s = {}
      BY <3>1, <1>2
    <3>3. QED
      BY <3>2
  <2> HIDE DEF g
  <2>3. QED
    BY <2>1, <2>2
<1>4. ASSUME NEW n \in Nat, Upto(n) PROVE Upto(n + 1)
  <2>1. PICK g \in [SUBSET S -> V] :
               \A s \in SUBSET S : Cardinality(s) <= n =>
                 g[s] = IF s = {} THEN base ELSE F[ch[s]][g[s \ {ch[s]}]]
    BY <1>4
  <2> DEFINE h == [s \in SUBSET S |-> IF Cardinality(s) = n + 1 THEN F[ch[s]][g[s \ {ch[s]}]] ELSE g[s]]
  <2>2. ASSUME NEW s \in SUBSET S, Cardinality(s) = n + 1
        PROVE  /\ s # {} /\ ch[s] \in S /\ s \ {ch[s]} \in SUBSET S
               /\ h[s] = F[ch[s]][g[s \ {ch[s]}]] /\ h[s \ {ch[s]}] = g[s \ {ch[s]}]
    <3>1. s # {}
      BY <2>2, <1>2
    <3>2. ch[s] \in S /\ s \ {ch[s]} \in SUBSET S
      BY <3>1 DEF Chooses
    <3>3. Cardinality(s \ {ch[s]}) = n
      BY <2>2, <3>1, <1>2
    <3>4. QED
      BY <2>2, <3>1, <3>2, <3>3
  <2>3. h \in [SUBSET S -> V]
    <3>1. ASSUME NEW s \in SUBSET S, Cardinality(s) = n + 1 PROVE h[s] \in V
      <4>1. F[ch[s]] \in [V -> V] /\ g[s \ {ch[s]}] \in V
        BY <3>1, <2>2
      <4>2. QED
        BY <3>1, <2>2, <4>1
    <3>2. ASSUME NEW s \in SUBSET S, Cardinality(s) # n + 1 PROVE h[s] \in V
      BY <3>2
    <3>3. QED
      BY <3>1, <3>2
  <2>4. ASSUME NEW s \in SUBSET S, Cardinality(s) <= n, s # {}
        PROVE  h[s] = g[s] /\ h[s \ {ch[s]}] = g[s \ {ch[s]}]
    <3>1. s \ {ch[s]} \in SUBSET S /\ Cardinality(s \ {ch[s]}) = Cardinality(s) - 1
      BY <2>4, <1>2
    <3>2. Cardinality(s) # n + 1 /\ Cardinality(s \ {ch[s]}) # n + 1
      BY <2>4, <3>1, <1>1
    <3>3. QED
      BY <3>1, <3>2
  <2>5. ASSUME NEW s \in SUBSET S, s = {} PROVE h[s] = base
    <3>1. Cardinality(s) = 0
      BY <2>5, <1>2
    <3>2. h[s] = g[s]
      BY <3>1
    <3>3. g[s] = base
      <4> HIDE DEF h
      <4>1. Cardinality(s) <= n
        BY <3>1
      <4>2. QED
        BY <2>5, <4>1, <2>1
    <3>4. QED
      BY <3>2, <3>3
  <2>6. \A s \in SUBSET S : Cardinality(s) <= n + 1 =>
          h[s] = IF s = {} THEN base ELSE F[ch[s]][h[s \ {ch[s]}]]
    <3> HIDE DEF h
    <3> SUFFICES ASSUME NEW s \in SUBSET S, Cardinality(s) <= n + 1, s # {}
                 PROVE h[s] = F[ch[s]][h[s \ {ch[s]}]]
      BY <2>5
    <3>1. CASE Cardinality(s) = n + 1
      BY <3>1, <2>2
    <3>2. CASE Cardinality(s) <= n
      BY <3>2, <2>1, <2>4
    <3>3. QED
      BY <3>1, <3>2, <1>1
  <2> HIDE DEF h
  <2>7. QED
    BY <2>3, <2>6
<1>5. Bad = {}
  <2>1. SUFFICES ASSUME Bad # {} PROVE FALSE
    OBVIOUS
  <2> HIDE DEF Upto
  <2>2. PICK n \in Bad : \A m \in Bad : n <= m
    BY <2>1, LeastExists
  <2>3. n # 0
    BY <1>3
  <2>4. n - 1 \in Nat /\ n - 1 \notin Bad
    BY <2>2, <2>3
  <2>5. Upto(n - 1)
    BY <2>4
  <2>6. Upto((n - 1) + 1)
    BY <2>4, <2>5, <1>4
  <2>7. QED
    BY <2>2, <2>6
<1>6. Upto(Cardinality(S))
  <2> HIDE DEF Upto
  <2>1. QED
    BY <1>5, FS_CardinalityType
<1>7. QED
  BY <1>6, <1>1 DEF Unfolds

-----------------------------------------------------------------------------
(* The loop of a batch: what holds of its start and is kept by each visit *)
(* holds of its end.                                                      *)

\* What a batch has still to do: copies of rows, no sequence read for them yet.
Todo == [enr: Enrolls, index: Nat, steps: {<<>>}]
Accs == [enr: [Enrolls -> Rows], copy: Copies, todo: Seq(Todo), full: BOOLEAN]

Start == [enr |-> enr, copy |-> NoCopy, todo |-> <<>>, full |-> FALSE]
Loop(todo, open) == FoldLeft(LAMBDA acc, c : Visit(acc, c, open), Start, todo)

LEMMA LengthBound ==
  ASSUME NEW seq \in Seq(StepIds), InOrder(seq)
  PROVE  Len(seq) <= Cardinality(StepIds)
<1> DEFINE n == Len(seq)
<1>1. n \in Nat /\ DOMAIN seq = 1 .. n /\ seq \in [1 .. n -> StepIds]
  OBVIOUS
<1>2. \A i, j \in 1 .. n : i # j => seq[i] # seq[j]
  <2> SUFFICES ASSUME NEW i \in 1 .. n, NEW j \in 1 .. n, i # j PROVE seq[i] # seq[j]
    OBVIOUS
  <2>1. seq[i] \in Nat /\ seq[j] \in Nat
    BY <1>1, SequencesAssumption
  <2>2. i < j \/ j < i
    BY <1>1
  <2>3. QED
    BY <1>1, <2>1, <2>2 DEF InOrder
<1> HIDE DEF n
<1>3. seq \in Injection(1 .. n, StepIds)
  BY <1>1, <1>2 DEF Injection, IsInjective
<1>4. Cardinality(1 .. n) = n
  BY <1>1, FS_Interval
<1>5. n <= Cardinality(StepIds)
  BY <1>3, <1>4, SequencesAssumption, FS_Injection
<1>6. QED
  BY <1>5 DEF n

LEMMA StepSetType ==
  ASSUME NEW row \in Rows, NEW i \in Nat, NEW n \in Nat,
         i <= n, n <= Cardinality(StepIds), Cardinality(StepIds) \in Nat
  PROVE  /\ StepSet(row, i, n) \in Rows
         /\ StepSet(row, i, n).contact = row.contact
         /\ StepSet(row, i, n).status \in {row.status, "completed"}
         /\ row.status = "gone" => StepSet(row, i, n) = row
         /\ row.status # "gone" => StepSet(row, i, n).index = i
         /\ StepSet(row, i, n).status = "active" => row.status = "active" /\ i < n
         /\ StepSet(row, i, n).status = "completed" => row.status = "completed" \/ i >= n
         /\ StepSet(row, i, n).status = "none" => row.status = "none"
<1>1. CASE row.status = "gone"
  BY <1>1 DEF StepSet, Rows
<1>2. CASE row.status # "gone" /\ i >= n
  <2>1. StepSet(row, i, n) = [row EXCEPT !.status = "completed", !.index = i, !.next = "none"]
    BY <1>2 DEF StepSet
  <2>2. i \in 0 .. Cardinality(StepIds)
    OBVIOUS
  <2>3. QED
    BY <1>2, <2>1, <2>2 DEF Rows
<1>3. CASE row.status # "gone" /\ i < n
  <2>1. StepSet(row, i, n) = [row EXCEPT !.index = i, !.next = "later"]
    BY <1>3 DEF StepSet
  <2>2. i \in 0 .. Cardinality(StepIds)
    OBVIOUS
  <2>3. QED
    BY <1>3, <2>1, <2>2 DEF Rows
<1>4. QED
  BY <1>1, <1>2, <1>3

LEMMA EndedType ==
  ASSUME NEW rows \in [Enrolls -> Rows], NEW e \in Enrolls, NEW status \in {"cancelled", "completed"}
  PROVE  /\ Ended(rows, e, status) \in [Enrolls -> Rows]
         /\ \A f \in Enrolls \ {e} : Ended(rows, e, status)[f] = rows[f]
         /\ Ended(rows, e, status)[e].contact = rows[e].contact
         /\ Ended(rows, e, status)[e].index = rows[e].index
         /\ Ended(rows, e, status)[e].status = IF rows[e].status = "active" THEN status ELSE rows[e].status
BY DEF Ended, Rows

\* One turn of the loop, in its five cases.
LEMMA VisitCases ==
  ASSUME Typed, NEW acc \in Accs, NEW c \in Todo, NEW open \in BOOLEAN
  PROVE  \/ /\ acc.full \/ acc.copy # NoCopy
            /\ Visit(acc, c, open) = [acc EXCEPT !.todo = Append(acc.todo, c)]
         \/ /\ ~acc.full /\ acc.copy = NoCopy
            /\ Visit(acc, c, open) = [acc EXCEPT !.enr = Ended(acc.enr, c.enr, "cancelled")]
         \/ /\ ~acc.full /\ acc.copy = NoCopy /\ c.index >= Len(steps)
            /\ Visit(acc, c, open) = [acc EXCEPT !.enr = Ended(acc.enr, c.enr, "completed")]
         \/ /\ ~acc.full /\ acc.copy = NoCopy /\ c.index < Len(steps) /\ steps[c.index + 1] \in blank
            /\ Visit(acc, c, open) = [acc EXCEPT !.enr = Advanced(acc.enr, [c EXCEPT !.steps = steps])]
         \/ /\ ~acc.full /\ acc.copy = NoCopy
            /\ Visit(acc, c, open) = [acc EXCEPT !.full = TRUE]
         \/ /\ ~acc.full /\ acc.copy = NoCopy /\ c.index < Len(steps) /\ steps[c.index + 1] \notin blank
            /\ sequence = "on" /\ Mailable(acc.enr[c.enr].contact)
            /\ Visit(acc, c, open) = [acc EXCEPT !.copy = [c EXCEPT !.steps = steps]]
<1>1. c.index \in Nat /\ Len(steps) \in Nat
  BY DEF Todo, Typed
<1>2. QED
  BY <1>1 DEF Visit

LEMMA VisitType ==
  ASSUME Typed, InOrder(steps), NEW acc \in Accs, NEW c \in Todo, NEW open \in BOOLEAN
  PROVE  Visit(acc, c, open) \in Accs
<1>1. /\ c.enr \in Enrolls /\ c.index \in Nat /\ Len(steps) \in Nat /\ c \in Copies
      /\ Len(steps) <= Cardinality(StepIds) /\ Cardinality(StepIds) \in Nat
  <2>1. Len(steps) <= Cardinality(StepIds)
    BY LengthBound DEF Typed
  <2>2. Cardinality(StepIds) \in Nat
    BY SequencesAssumption, FS_CardinalityType
  <2>3. <<>> \in Seq(StepIds)
    OBVIOUS
  <2>4. steps \in Seq(StepIds)
    BY DEF Typed
  <2>5. /\ c.enr \in Enrolls /\ c.index \in Nat
        /\ c = [enr |-> c.enr, index |-> c.index, steps |-> <<>>]
    BY DEF Todo
  <2>6. c \in Copies
    <3> DEFINE e == c.enr
               i == c.index
               q == <<>>
    <3>1. e \in Enrolls \cup {0} /\ i \in Nat /\ q \in Seq(StepIds)
      BY <2>3, <2>5
    <3>2. c = [enr |-> e, index |-> i, steps |-> q]
      BY <2>5
    <3> HIDE DEF e, i, q
    <3>3. QED
      BY <3>1, <3>2 DEF Copies
  <2>7. QED
    BY <2>1, <2>2, <2>4, <2>5, <2>6
<1>2. [c EXCEPT !.steps = steps] \in Copies /\ [c EXCEPT !.steps = steps].enr = c.enr
      /\ [c EXCEPT !.steps = steps].index = c.index /\ [c EXCEPT !.steps = steps].steps = steps
  BY <1>1 DEF Typed, Todo, Copies
<1>3. acc.enr \in [Enrolls -> Rows] /\ acc.todo \in Seq(Todo)
  BY DEF Accs
<1>4. ASSUME c.index < Len(steps) PROVE Advanced(acc.enr, [c EXCEPT !.steps = steps]) \in [Enrolls -> Rows]
  <2>1. StepSet(acc.enr[c.enr], c.index + 1, Len(steps)) \in Rows
    <3>1. acc.enr[c.enr] \in Rows /\ c.index + 1 \in Nat /\ c.index + 1 <= Len(steps)
      BY <1>1, <1>3, <1>4
    <3>2. QED
      BY <1>1, <3>1, StepSetType
  <2>2. QED
    BY <2>1, <1>1, <1>2, <1>3 DEF Advanced
<1>5. Ended(acc.enr, c.enr, "cancelled") \in [Enrolls -> Rows]
  BY <1>1, <1>3, EndedType
<1>6. Ended(acc.enr, c.enr, "completed") \in [Enrolls -> Rows]
  BY <1>1, <1>3, EndedType
<1>7. Append(acc.todo, c) \in Seq(Todo)
  BY <1>3
<1>8. \/ Visit(acc, c, open) = [acc EXCEPT !.todo = Append(acc.todo, c)]
      \/ Visit(acc, c, open) = [acc EXCEPT !.enr = Ended(acc.enr, c.enr, "cancelled")]
      \/ Visit(acc, c, open) = [acc EXCEPT !.enr = Ended(acc.enr, c.enr, "completed")]
      \/ /\ c.index < Len(steps)
         /\ Visit(acc, c, open) = [acc EXCEPT !.enr = Advanced(acc.enr, [c EXCEPT !.steps = steps])]
      \/ Visit(acc, c, open) = [acc EXCEPT !.full = TRUE]
      \/ Visit(acc, c, open) = [acc EXCEPT !.copy = [c EXCEPT !.steps = steps]]
  BY VisitCases
<1>9. /\ \A rows \in [Enrolls -> Rows] : [acc EXCEPT !.enr = rows] \in Accs
      /\ \A todo \in Seq(Todo) : [acc EXCEPT !.todo = todo] \in Accs
      /\ \A copy \in Copies : [acc EXCEPT !.copy = copy] \in Accs
      /\ [acc EXCEPT !.full = TRUE] \in Accs
  BY DEF Accs
<1>10. QED
  BY <1>2, <1>4, <1>5, <1>6, <1>7, <1>8, <1>9

LEMMA StartType == Typed => Start \in Accs /\ Start.full = FALSE /\ Start.copy = NoCopy /\ Start.enr = enr /\ Start.todo = <<>>
BY DEF Typed, Start, Accs, NoCopy, Copies

\* The states of the loop, one for each of its turns.
LEMMA LoopTurns ==
  ASSUME Typed, InOrder(steps), NEW todo \in Seq(Todo), NEW open \in BOOLEAN
  PROVE  \E G \in [0 .. Len(todo) -> Accs] :
           /\ G[0] = Start /\ Loop(todo, open) = G[Len(todo)]
           /\ \A k \in 1 .. Len(todo) : G[k] = Visit(G[k - 1], todo[k], open)
<1> DEFINE n == Len(todo)
           D == DOMAIN todo
           F == [i \in D |-> [v \in Accs |-> Visit(v, todo[i], open)]]
           ch == [s \in SUBSET D |-> Max(s)]
           Rec(h) == h = [s \in SUBSET D |->
                            IF s = {} THEN Start
                            ELSE Visit(h[s \ {Max(s)}], todo[Max(s)], open)]
<1>1. n \in Nat /\ D = 1 .. n /\ IsFiniteSet(D) /\ \A i \in D : todo[i] \in Todo
  <2>1. n \in Nat /\ D = 1 .. n /\ \A i \in D : todo[i] \in Todo
    OBVIOUS
  <2>2. QED
    BY <2>1, FS_Interval
<1>2. F \in [D -> [Accs -> Accs]]
  BY <1>1, VisitType
<1>3. \A s \in SUBSET D : s # {} => Max(s) \in s /\ \A y \in s : Max(s) >= y
  <2> SUFFICES ASSUME NEW s \in SUBSET D, s # {}
               PROVE  Max(s) \in s /\ \A y \in s : Max(s) >= y
    OBVIOUS
  <2>1. \E x \in s : \A y \in s : y <= x
    BY <1>1, GreatestExists
  <2>2. \E x \in s : \A y \in s : x >= y
    BY <1>1, <2>1
  <2>3. QED
    BY <2>2 DEF Max
<1>4. Chooses(ch, D)
  BY <1>3 DEF Chooses
<1>5. PICK g \in [SUBSET D -> Accs] : Unfolds(g, D, Start, ch, F)
  <2> HIDE DEF F, ch, D
  <2>1. Start \in Accs
    BY StartType
  <2>2. QED
    BY <1>1, <1>2, <1>4, <2>1, FoldExists, Zenon
<1>6. \A s \in SUBSET D : g[s] = IF s = {} THEN Start ELSE Visit(g[s \ {Max(s)}], todo[Max(s)], open)
  <2> SUFFICES ASSUME NEW s \in SUBSET D
               PROVE  g[s] = IF s = {} THEN Start ELSE Visit(g[s \ {Max(s)}], todo[Max(s)], open)
    OBVIOUS
  <2>1. g[s] = IF s = {} THEN Start ELSE F[ch[s]][g[s \ {ch[s]}]]
    BY <1>5 DEF Unfolds
  <2>2. ch[s] = Max(s)
    OBVIOUS
  <2>3. ASSUME s # {} PROVE F[Max(s)][g[s \ {Max(s)}]] = Visit(g[s \ {Max(s)}], todo[Max(s)], open)
    <3>1. Max(s) \in D /\ g[s \ {Max(s)}] \in Accs
      BY <2>3, <1>3
    <3>2. QED
      BY <3>1
  <2> HIDE DEF F, ch
  <2>4. QED
    BY <2>1, <2>2, <2>3
<1>7. Rec(g)
  <2> DEFINE h == [s \in SUBSET D |-> IF s = {} THEN Start ELSE Visit(g[s \ {Max(s)}], todo[Max(s)], open)]
  <2>1. \A s \in SUBSET D : g[s] = h[s]
    BY <1>6
  <2> HIDE DEF h
  <2>2. g = h
    BY <2>1 DEF h
  <2>3. QED
    BY <2>2 DEF h
<1>8. Rec(CHOOSE h : Rec(h))
  BY <1>7
<1> DEFINE r == CHOOSE h : Rec(h)
<1>9. Loop(todo, open) = r[D]
  BY DEF Loop, FoldLeft, MapThenFoldSet
<1>10. \A s \in SUBSET D : r[s] = IF s = {} THEN Start ELSE Visit(r[s \ {Max(s)}], todo[Max(s)], open)
  BY <1>8
<1> HIDE DEF r
<1> DEFINE G == [k \in 0 .. n |-> g[1 .. k]]
           Bad == {k \in 0 .. n : r[1 .. k] # g[1 .. k]}
<1>11. \A k \in 1 .. n : 1 .. k \in SUBSET D /\ 1 .. k # {} /\ Max(1 .. k) = k /\ (1 .. k) \ {k} = 1 .. k - 1
  <2> SUFFICES ASSUME NEW k \in 1 .. n
               PROVE  1 .. k \in SUBSET D /\ 1 .. k # {} /\ Max(1 .. k) = k /\ (1 .. k) \ {k} = 1 .. k - 1
    OBVIOUS
  <2>1. k \in Nat /\ 1 .. k \in SUBSET D /\ k \in 1 .. k
    BY <1>1
  <2>2. Max(1 .. k) \in 1 .. k /\ Max(1 .. k) >= k
    BY <2>1, <1>3
  <2>3. Max(1 .. k) = k
    BY <2>1, <2>2
  <2>4. (1 .. k) \ {k} = 1 .. k - 1
    BY <2>1
  <2>5. QED
    BY <2>1, <2>3, <2>4
<1>12. 1 .. 0 = {} /\ {} \in SUBSET D
  OBVIOUS
<1>13. Bad = {}
  <2>1. SUFFICES ASSUME Bad # {} PROVE FALSE
    OBVIOUS
  <2>2. Bad \in SUBSET Nat
    BY <1>1
  <2>3. PICK k \in Bad : \A m \in Bad : k <= m
    <3> HIDE DEF Bad
    <3>1. QED
      BY <2>1, <2>2, LeastExists
  <2>4. k # 0
    BY <1>6, <1>10, <1>12
  <2>5. k \in 1 .. n /\ k - 1 \in 0 .. n /\ k - 1 \notin Bad
    BY <1>1, <2>3, <2>4
  <2>6. r[1 .. k - 1] = g[1 .. k - 1]
    BY <2>5
  <2>7. r[1 .. k] = g[1 .. k]
    <3>1. 1 .. k \in SUBSET D /\ 1 .. k # {} /\ Max(1 .. k) = k /\ (1 .. k) \ {k} = 1 .. k - 1
      BY <1>11, <2>5
    <3>2. g[1 .. k] = Visit(g[(1 .. k) \ {k}], todo[k], open)
      BY <1>6, <3>1
    <3>3. r[1 .. k] = Visit(r[(1 .. k) \ {k}], todo[k], open)
      BY <1>10, <3>1
    <3>4. QED
      BY <2>6, <3>1, <3>2, <3>3
  <2>8. QED
    BY <2>3, <2>7
<1>14. r[D] = g[D]
  <2>1. n \in 0 .. n /\ n \notin Bad
    BY <1>1, <1>13
  <2>2. QED
    BY <2>1, <1>1
<1>15. G \in [0 .. n -> Accs] /\ G[n] = g[D] /\ G[0] = Start
  <2>1. \A k \in 0 .. n : 1 .. k \in SUBSET D
    BY <1>1
  <2>2. G \in [0 .. n -> Accs]
    BY <2>1
  <2>3. 0 \in 0 .. n /\ n \in 0 .. n
    BY <1>1
  <2>4. g[1 .. 0] = Start
    BY <1>6, <1>12
  <2>5. QED
    BY <1>1, <2>2, <2>3, <2>4
<1>16. \A k \in 1 .. n : G[k] = Visit(G[k - 1], todo[k], open)
  <2> SUFFICES ASSUME NEW k \in 1 .. n PROVE G[k] = Visit(G[k - 1], todo[k], open)
    OBVIOUS
  <2>1. k \in 0 .. n /\ k - 1 \in 0 .. n
    BY <1>1
  <2>2. g[1 .. k] = Visit(g[1 .. k - 1], todo[k], open)
    BY <1>6, <1>11
  <2>3. QED
    BY <2>1, <2>2
<1> HIDE DEF G
<1>17. QED
  BY <1>9, <1>14, <1>15, <1>16

\* What is so of the start and is kept by each turn is so of the end.
LEMMA LoopInduction ==
  ASSUME Typed, InOrder(steps), NEW todo \in Seq(Todo), NEW open \in BOOLEAN,
         NEW W, Start \in W[0],
         \A k \in 1 .. Len(todo) : \A acc \in Accs :
           acc \in W[k - 1] => Visit(acc, todo[k], open) \in W[k]
  PROVE  Loop(todo, open) \in Accs /\ Loop(todo, open) \in W[Len(todo)]
<1> DEFINE n == Len(todo)
<1>1. n \in Nat
  OBVIOUS
<1>2. PICK G \in [0 .. n -> Accs] :
           /\ G[0] = Start /\ Loop(todo, open) = G[n]
           /\ \A k \in 1 .. n : G[k] = Visit(G[k - 1], todo[k], open)
  BY LoopTurns
<1> HIDE DEF n
<1> DEFINE Bad == {k \in 0 .. n : G[k] \notin W[k]}
<1>3. Bad = {}
  <2>1. SUFFICES ASSUME Bad # {} PROVE FALSE
    OBVIOUS
  <2>2. Bad \in SUBSET Nat
    BY <1>1
  <2>3. PICK k \in Bad : \A m \in Bad : k <= m
    <3> HIDE DEF Bad
    <3>1. QED
      BY <2>1, <2>2, LeastExists
  <2>4. k # 0
    BY <1>2
  <2>5. k \in 1 .. n /\ k - 1 \in 0 .. n /\ k - 1 \notin Bad
    BY <1>1, <2>3, <2>4
  <2>6. G[k - 1] \in Accs /\ G[k - 1] \in W[k - 1]
    BY <1>2, <2>5
  <2>7. G[k] \in W[k]
    BY <1>2, <2>5, <2>6 DEF n
  <2>8. QED
    BY <2>3, <2>7
<1>4. n \in 0 .. n
  BY <1>1
<1>5. QED
  BY <1>2, <1>3, <1>4 DEF n

-----------------------------------------------------------------------------
(* The inductive invariants. *)

\* A row exists, now or until its sequence was deleted.
Enrolled(e) == enr[e].status # "none"

\* What a batch holds: copies of rows that exist, and the sequence in its order.
BatchOK(b) ==
  /\ batch[b].todo \in Seq(Todo)
  /\ \A i \in DOMAIN batch[b].todo : Enrolled(batch[b].todo[i].enr)
  /\ batch[b].at = "mailing" =>
       /\ batch[b].copy.enr \in Enrolls /\ Enrolled(batch[b].copy.enr)
       /\ InOrder(batch[b].copy.steps) /\ ToSet(batch[b].copy.steps) \subseteq made

GoneOK ==
  /\ sequence = "gone" => steps = <<>> /\ \A e \in Enrolls : enr[e].status \in {"none", "gone"}
  /\ sequence # "gone" => \A e \in Enrolls : enr[e].status # "gone"

IInv ==
  /\ Typed
  /\ InOrder(steps) /\ ToSet(steps) \subseteq made
  /\ \A b \in Batches : BatchOK(b)
  /\ GoneOK

\* The first k steps of the sequence are behind enrolment e: mailed, or not owed.
Behind(e, k) ==
  \A j \in DOMAIN steps : j <= k /\ steps[j] \in owed[e] \ blank => mails[<<e, steps[j]>>] > 0
AllBehind(e) == \A s \in owed[e] \ blank : mails[<<e, s>>] > 0

\* A copy has the sequence as far as it went then.
Prefix(seq) == Len(seq) <= Len(steps) /\ \A j \in DOMAIN seq : seq[j] = steps[j]

SkipRows == \A e \in Enrolls : /\ owed[e] \subseteq ToSet(steps) /\ Behind(e, enr[e].index)
                               /\ enr[e].status = "completed" => AllBehind(e)
SkipTodo(todo) == \A i \in DOMAIN todo : Behind(todo[i].enr, todo[i].index)
SkipCopy(copy, arrived) ==
  /\ Behind(copy.enr, copy.index) /\ Prefix(copy.steps) /\ owed[copy.enr] \subseteq ToSet(copy.steps)
  /\ arrived => mails[<<copy.enr, copy.steps[copy.index + 1]>>] > 0
SkipBatch(b) ==
  /\ SkipTodo(batch[b].todo)
  /\ batch[b].at = "mailing" => SkipCopy(batch[b].copy, batch[b].arrived)

\* While the sequence is there, no step is jumped over.
SkipInv == sequence # "gone" => SkipRows /\ \A b \in Batches : SkipBatch(b)

\* The step a batch is mailing, and for whom.
Mailing(b) == <<batch[b].copy.enr, batch[b].copy.steps[batch[b].copy.index + 1]>>

Flying(b) == batch[b].at = "mailing" /\ batch[b].arrived

\* What was never torn was mailed once at most, and only what was enrolled is mailed.
OnceMails == \A e \in Enrolls, s \in StepIds :
  /\ mails[<<e, s>>] > 0 => s \in made /\ Enrolled(e)
  /\ e \notin torn => mails[<<e, s>>] <= 1
\* What was mailed is behind, as the row has it, or its answer is still to come.
OnceBehind == \A e \in Enrolls \ torn, j \in DOMAIN steps : mails[<<e, steps[j]>>] > 0 =>
  j <= enr[e].index \/ \E b \in Batches : Flying(b) /\ Mailing(b) = <<e, steps[j]>>
\* A copy has its row's index, unless the row was torn; no row is copied twice.
OnceTodo(todo) ==
  /\ \A i \in DOMAIN todo : todo[i].enr \notin torn => todo[i].index = enr[todo[i].enr].index
  /\ \A i, j \in DOMAIN todo : i # j => todo[i].enr # todo[j].enr
OnceCopy(copy, todo) ==
  /\ \A i \in DOMAIN todo : todo[i].enr # copy.enr
  /\ copy.enr \notin torn =>
       /\ copy.index = enr[copy.enr].index
       /\ \A j \in DOMAIN steps : steps[j] = copy.steps[copy.index + 1] => j <= copy.index + 1
OnceBatch(b) ==
  /\ OnceTodo(batch[b].todo)
  /\ batch[b].at = "mailing" =>
       /\ OnceCopy(batch[b].copy, batch[b].todo)
       /\ ~batch[b].arrived /\ batch[b].copy.enr \notin torn => mails[Mailing(b)] = 0
\* Two batches that hold one enrolment have torn it.
Apart == \A a, b \in Batches, e \in Enrolls : a # b /\ Holds(a, e) /\ Holds(b, e) => e \in torn
TwiceInv == OnceMails /\ OnceBehind /\ Apart /\ \A b \in Batches : OnceBatch(b)

-----------------------------------------------------------------------------
(* What the loop does to the rows, whatever its copies are. *)

\* A row after some turns of the loop: the same contact, ended or not.
Follows(new, row) ==
  /\ new.contact = row.contact
  /\ new.status \in {row.status, "cancelled", "completed"}
  /\ new.status = "none" <=> row.status = "none"
  /\ row.status = "gone" => new.status = "gone"
  /\ new.status = "active" => new.index < Cardinality(StepIds)

\* What it picked to be mailed: a step of the sequence as it is, for one who may be.
Picked(copy) ==
  /\ copy.enr \in Enrolls /\ Enrolled(copy.enr)
  /\ sequence = "on" /\ enr[copy.enr].contact \in consent
  /\ copy.steps = steps /\ copy.index < Len(steps) /\ steps[copy.index + 1] \notin blank

Kept(acc) ==
  /\ \A e \in Enrolls : Follows(acc.enr[e], enr[e])
  /\ \A i \in DOMAIN acc.todo : Enrolled(acc.todo[i].enr)
  /\ acc.copy = NoCopy \/ Picked(acc.copy)

LEMMA Facts ==
  ASSUME Typed
  PROVE  /\ steps \in Seq(StepIds) /\ Len(steps) \in Nat /\ DOMAIN steps = 1 .. Len(steps)
         /\ enr \in [Enrolls -> Rows] /\ blank \subseteq StepIds /\ consent \subseteq Contacts
         /\ Cardinality(StepIds) \in Nat /\ StepIds \subseteq Nat /\ 0 \notin Enrolls
BY SequencesAssumption, FS_CardinalityType DEF Typed

\* Advanced is the row's own StepSet, and only that.
LEMMA AdvancedRow ==
  ASSUME NEW rows \in [Enrolls -> Rows], NEW copy, copy.enr \in Enrolls, copy.index \in Nat,
         Len(copy.steps) \in Nat, Len(copy.steps) <= Cardinality(StepIds),
         copy.index < Len(copy.steps)
  PROVE  /\ Advanced(rows, copy) \in [Enrolls -> Rows]
         /\ \A f \in Enrolls \ {copy.enr} : Advanced(rows, copy)[f] = rows[f]
         /\ Advanced(rows, copy)[copy.enr] = StepSet(rows[copy.enr], copy.index + 1, Len(copy.steps))
         /\ Enrolled(copy.enr) /\ Follows(rows[copy.enr], enr[copy.enr]) =>
              Follows(Advanced(rows, copy)[copy.enr], enr[copy.enr])
<1> DEFINE e == copy.enr
           i == copy.index + 1
           n == Len(copy.steps)
           new == StepSet(rows[e], i, n)
<1>1. e \in Enrolls /\ i \in Nat /\ n \in Nat /\ i <= n /\ n <= Cardinality(StepIds)
      /\ Cardinality(StepIds) \in Nat /\ rows[e] \in Rows
  BY SequencesAssumption, FS_CardinalityType
<1>2. Advanced(rows, copy) = [rows EXCEPT ![e] = new]
  BY DEF Advanced
<1> HIDE DEF e, i, n
<1>3. /\ new \in Rows /\ new.contact = rows[e].contact /\ new.status \in {rows[e].status, "completed"}
      /\ rows[e].status = "gone" => new = rows[e]
      /\ rows[e].status # "gone" => new.index = i
      /\ new.status = "active" => rows[e].status = "active" /\ i < n
      /\ new.status = "none" => rows[e].status = "none"
  <2> DEFINE row == rows[e]
  <2>1. /\ row \in Rows /\ i \in Nat /\ n \in Nat /\ i <= n /\ n <= Cardinality(StepIds)
        /\ Cardinality(StepIds) \in Nat
    BY <1>1
  <2> HIDE DEF row, new
  <2>2. /\ StepSet(row, i, n) \in Rows
        /\ StepSet(row, i, n).contact = row.contact
        /\ StepSet(row, i, n).status \in {row.status, "completed"}
        /\ row.status = "gone" => StepSet(row, i, n) = row
        /\ row.status # "gone" => StepSet(row, i, n).index = i
        /\ StepSet(row, i, n).status = "active" => row.status = "active" /\ i < n
        /\ StepSet(row, i, n).status = "none" => row.status = "none"
    BY <2>1, StepSetType, SMTT(30)
  <2>3. QED
    BY <2>2 DEF row, new
<1> HIDE DEF new
<1>4. /\ Advanced(rows, copy) \in [Enrolls -> Rows] /\ Advanced(rows, copy)[e] = new
      /\ \A f \in Enrolls \ {e} : Advanced(rows, copy)[f] = rows[f]
  BY <1>1, <1>2, <1>3
<1>5. ASSUME Enrolled(e), Follows(rows[e], enr[e]) PROVE Follows(new, enr[e])
  <2>1. new.status = "active" => new.index < Cardinality(StepIds)
    BY <1>1, <1>3
  <2>2. QED
    BY <1>3, <1>5, <2>1 DEF Follows, Enrolled
<1>6. QED
  BY <1>3, <1>4, <1>5 DEF e, i, n, new

LEMMA VisitKeeps ==
  ASSUME Typed, InOrder(steps), NEW acc \in Accs, Kept(acc),
         NEW c \in Todo, Enrolled(c.enr), NEW open \in BOOLEAN
  PROVE  Kept(Visit(acc, c, open))
<1> DEFINE e == c.enr
           copy == [c EXCEPT !.steps = steps]
<1>1. /\ e \in Enrolls /\ c.index \in Nat /\ acc.enr \in [Enrolls -> Rows] /\ acc.todo \in Seq(Todo)
      /\ copy.enr = e /\ copy.index = c.index /\ copy.steps = steps
  BY DEF Todo, Accs
<1>2. Len(steps) \in Nat /\ Len(steps) <= Cardinality(StepIds)
  BY Facts, LengthBound
<1>3. \A f \in Enrolls : Follows(acc.enr[f], enr[f])
  BY DEF Kept
<1>4. ASSUME NEW status \in {"cancelled", "completed"}
      PROVE  \A f \in Enrolls : Follows(Ended(acc.enr, e, status)[f], enr[f])
  <2> DEFINE rows == Ended(acc.enr, e, status)
  <2>1. /\ \A f \in Enrolls \ {e} : rows[f] = acc.enr[f]
        /\ rows[e].contact = acc.enr[e].contact /\ rows[e].index = acc.enr[e].index
        /\ rows[e].status = IF acc.enr[e].status = "active" THEN status ELSE acc.enr[e].status
    BY <1>1, EndedType
  <2> HIDE DEF rows
  <2>2. Follows(rows[e], enr[e])
    BY <1>1, <1>3, <2>1 DEF Follows
  <2>3. QED
    BY <1>3, <2>1, <2>2 DEF rows
<1>5. ASSUME c.index < Len(steps)
      PROVE  \A f \in Enrolls : Follows(Advanced(acc.enr, copy)[f], enr[f])
  <2>1. /\ \A f \in Enrolls \ {e} : Advanced(acc.enr, copy)[f] = acc.enr[f]
        /\ Follows(acc.enr[e], enr[e]) => Follows(Advanced(acc.enr, copy)[e], enr[e])
    <3> HIDE DEF copy
    <3>1. QED
      BY <1>1, <1>2, <1>5, AdvancedRow
  <2>2. QED
    BY <1>1, <1>3, <2>1
<1>6. \A i \in DOMAIN Append(acc.todo, c) : Enrolled(Append(acc.todo, c)[i].enr)
  BY <1>1 DEF Kept
<1> DEFINE new == Visit(acc, c, open)
<1>7. CASE new = [acc EXCEPT !.todo = Append(acc.todo, c)]
  BY <1>7, <1>6 DEF Kept, Accs
<1>8. CASE new = [acc EXCEPT !.enr = Ended(acc.enr, e, "cancelled")]
  BY <1>8, <1>4 DEF Kept, Accs
<1>9. CASE new = [acc EXCEPT !.enr = Ended(acc.enr, e, "completed")]
  BY <1>9, <1>4 DEF Kept, Accs
<1>10. CASE c.index < Len(steps) /\ new = [acc EXCEPT !.enr = Advanced(acc.enr, copy)]
  BY <1>10, <1>5 DEF Kept, Accs
<1>11. CASE new = [acc EXCEPT !.full = TRUE]
  BY <1>11 DEF Kept, Accs
<1>12. CASE /\ c.index < Len(steps) /\ steps[c.index + 1] \notin blank
            /\ sequence = "on" /\ Mailable(acc.enr[e].contact)
            /\ new = [acc EXCEPT !.copy = copy]
  <2>1. Picked(copy)
    BY <1>1, <1>3, <1>12 DEF Picked, Follows, Mailable
  <2>2. QED
    BY <1>12, <2>1 DEF Kept, Accs
<1>13. QED
  BY <1>7, <1>8, <1>9, <1>10, <1>11, <1>12, VisitCases

LEMMA LoopKeeps ==
  ASSUME Typed, InOrder(steps), NEW todo \in Seq(Todo), NEW open \in BOOLEAN,
         \A i \in DOMAIN todo : Enrolled(todo[i].enr)
  PROVE  Loop(todo, open) \in Accs /\ Kept(Loop(todo, open))
<1> DEFINE K == {acc \in Accs : Kept(acc)}
           W == [k \in 0 .. Len(todo) |-> K]
<1>1. Start \in K
  <2>1. \A e \in Enrolls : Follows(enr[e], enr[e])
    BY DEF Typed, Follows, Rows, Active
  <2>2. QED
    BY <2>1, StartType DEF Kept
<1>2. \A k \in 1 .. Len(todo) : todo[k] \in Todo /\ Enrolled(todo[k].enr)
  OBVIOUS
<1>3. Len(todo) \in Nat /\ 0 \in 0 .. Len(todo) /\ Len(todo) \in 0 .. Len(todo)
      /\ \A k \in 1 .. Len(todo) : k \in 0 .. Len(todo) /\ k - 1 \in 0 .. Len(todo)
  OBVIOUS
<1>4. ASSUME NEW k \in 1 .. Len(todo), NEW acc \in Accs, acc \in K PROVE Visit(acc, todo[k], open) \in K
  BY <1>2, <1>4, VisitKeeps, VisitType
<1> HIDE DEF K
<1>5. /\ Start \in W[0]
      /\ \A k \in 1 .. Len(todo) : \A acc \in Accs : acc \in W[k - 1] => Visit(acc, todo[k], open) \in W[k]
  BY <1>1, <1>3, <1>4
<1>6. Loop(todo, open) \in Accs /\ Loop(todo, open) \in W[Len(todo)]
  <2> HIDE DEF W
  <2>1. QED
    BY <1>5, LoopInduction
<1>7. QED
  BY <1>3, <1>6 DEF K

-----------------------------------------------------------------------------
(* The invariant is inductive. *)

BatchType == [at: {"off", "mailing", "gap"}, todo: Seq(Copies), copy: Copies, arrived: BOOLEAN]

\* Typed, in the parts that different actions change.
EnrType   == enr \in [Enrolls -> Rows] /\ \A e \in Enrolls : enr[e].status = "active" => enr[e].index < Cardinality(StepIds)
BatchesOK == /\ batch \in [Batches -> BatchType]
             /\ \A b \in Batches : batch[b].at = "mailing" => batch[b].copy.index < Len(batch[b].copy.steps)
StepsOK   == /\ sequence \in {"on", "off", "gone"} /\ steps \in Seq(StepIds) /\ made \subseteq StepIds
             /\ blank \subseteq StepIds /\ consent \subseteq Contacts
MailsType == mails \in [Enrolls \X StepIds -> Nat] /\ owed \in [Enrolls -> SUBSET StepIds]

LEMMA TypeParts == Typed <=> EnrType /\ BatchesOK /\ StepsOK /\ MailsType
BY DEF Typed, EnrType, BatchesOK, StepsOK, MailsType, BatchType, Active

LEMMA TypePartsNext == Typed' <=> EnrType' /\ BatchesOK' /\ StepsOK' /\ MailsType'
BY DEF Typed, EnrType, BatchesOK, StepsOK, MailsType, BatchType, Active

\* The copies a batch has still to do.
LEMMA TodoFacts ==
  ASSUME NEW todo \in Seq(Todo)
  PROVE  \A i \in DOMAIN todo : /\ todo[i] \in Todo /\ todo[i].enr \in Enrolls /\ todo[i].index \in Nat
                               /\ todo[i] \in Copies
<1> SUFFICES ASSUME NEW i \in DOMAIN todo
             PROVE  /\ todo[i] \in Todo /\ todo[i].enr \in Enrolls /\ todo[i].index \in Nat
                    /\ todo[i] \in Copies
  OBVIOUS
<1>1. todo[i] \in Todo
  OBVIOUS
<1>2. \A c \in Todo : c.enr \in Enrolls /\ c.index \in Nat /\ c \in Copies
  <2> SUFFICES ASSUME NEW c \in Todo PROVE c.enr \in Enrolls /\ c.index \in Nat /\ c \in Copies
    OBVIOUS
  <2> DEFINE q == <<>>
  <2>1. /\ c.enr \in Enrolls /\ c.index \in Nat
        /\ c = [enr |-> c.enr, index |-> c.index, steps |-> q]
    BY DEF Todo
  <2>2. q \in Seq(StepIds)
    OBVIOUS
  <2> HIDE DEF q
  <2>3. c \in Copies
    BY <2>1, <2>2 DEF Copies
  <2>4. QED
    BY <2>1, <2>3
<1>3. QED
  BY <1>1, <1>2

LEMMA InitInv == Init => IInv
<1> SUFFICES ASSUME Init PROVE IInv
  OBVIOUS
<1> USE SequencesAssumption
<1>1. steps \in Seq(StepIds) /\ ToSet(steps) \subseteq made
  <2>1. steps \in [1 .. Cardinality(FirstIds) -> FirstIds] /\ Cardinality(FirstIds) \in Nat
    BY FS_Subset, FS_CardinalityType DEF Init, SetToSeqs
  <2>2. steps \in [1 .. Cardinality(FirstIds) -> StepIds]
    BY <2>1
  <2>3. steps \in Seq(StepIds)
    BY <2>1, <2>2
  <2>4. \A i \in DOMAIN steps : steps[i] \in made
    BY <2>1 DEF Init
  <2>5. QED
    BY <2>3, <2>4 DEF ToSet
<1>2. Idle \in BatchType /\ Idle.todo = <<>> /\ Idle.at = "off"
  BY DEF Idle, BatchType, NoCopy, Copies
<1>3. enr \in [Enrolls -> Rows] /\ \A e \in Enrolls : enr[e].status = "none"
  <2>1. Cardinality(StepIds) \in Nat
    BY FS_CardinalityType
  <2>2. NoEnr \in Rows /\ NoEnr.status = "none"
    BY <2>1 DEF NoEnr, Rows
  <2>3. QED
    BY <2>2 DEF Init
<1>4. batch \in [Batches -> BatchType] /\ \A b \in Batches : batch[b].todo = <<>> /\ batch[b].at = "off"
  BY <1>2 DEF Init
<1>5. Typed
  <2>1. EnrType /\ BatchesOK
    BY <1>3, <1>4 DEF EnrType, BatchesOK
  <2>2. StepsOK /\ MailsType
    BY <1>1 DEF Init, StepsOK, MailsType
  <2>3. QED
    BY <2>1, <2>2, TypeParts
<1>6. ASSUME NEW b \in Batches PROVE BatchOK(b)
  <2> DEFINE todo == batch[b].todo
  <2>1. todo = <<>> /\ batch[b].at = "off"
    BY <1>4
  <2>2. todo \in Seq(Todo) /\ \A i \in DOMAIN todo : FALSE
    BY <2>1
  <2>3. QED
    BY <2>1, <2>2 DEF BatchOK
<1>7. QED
  BY <1>1, <1>3, <1>5, <1>6 DEF IInv, GoneOK, Init

\* No row changes hands, and none comes back to life.
RowsKeep == \A e \in Enrolls : /\ enr'[e].contact = enr[e].contact
                               /\ enr'[e].status = "active" => enr[e].status = "active"

\* Rows that follow the rows before them keep what holds of the rows.
LEMMA RowsFollow ==
  ASSUME IInv, enr' \in [Enrolls -> Rows], \A e \in Enrolls : Follows(enr'[e], enr[e]),
         sequence' = sequence, steps' = steps
  PROVE  EnrType' /\ GoneOK' /\ RowsKeep /\ \A e \in Enrolls : Enrolled(e)' <=> Enrolled(e)
<1>1. GoneOK
  BY DEF IInv
<1>2. \A e \in Enrolls : enr'[e].status = "gone" => enr[e].status = "gone"
  BY DEF Follows
<1>3. \A e \in Enrolls : enr[e].status \in {"none", "gone"} => enr'[e].status \in {"none", "gone"}
  BY DEF Follows
<1>4. QED
  BY <1>1, <1>2, <1>3 DEF GoneOK, EnrType, Follows, Enrolled, RowsKeep

\* The batches' part of the invariant, when no batch moves.
LEMMA BatchesStay ==
  ASSUME IInv, batch' = batch, made \subseteq made',
         \A e \in Enrolls : Enrolled(e) => Enrolled(e)'
  PROVE  BatchesOK' /\ \A b \in Batches : BatchOK(b)'
<1>1. BatchesOK /\ \A b \in Batches : BatchOK(b)
  BY TypeParts DEF IInv
<1>2. ASSUME NEW b \in Batches PROVE BatchOK(b)'
  <2>1. BatchOK(b)
    BY <1>1
  <2>2. \A i \in DOMAIN batch[b].todo : batch[b].todo[i].enr \in Enrolls
    BY <2>1, TodoFacts DEF BatchOK
  <2>3. QED
    BY <2>1, <2>2 DEF BatchOK
<1>3. QED
  BY <1>1, <1>2 DEF BatchesOK

\* The whole, from its parts after a step.
LEMMA Gather ==
  ASSUME EnrType', BatchesOK', StepsOK', MailsType', GoneOK', InOrder(steps)', (ToSet(steps) \subseteq made)',
         \A b \in Batches : BatchOK(b)'
  PROVE  IInv'
BY TypePartsNext DEF IInv

\* One batch moves.
LEMMA BatchMoves ==
  ASSUME IInv, NEW b \in Batches, NEW new \in BatchType, batch' = [batch EXCEPT ![b] = new],
         made' = made, \A e \in Enrolls : Enrolled(e) => Enrolled(e)',
         new.todo \in Seq(Todo), \A i \in DOMAIN new.todo : Enrolled(new.todo[i].enr),
         new.at = "mailing" => /\ new.copy.index < Len(new.copy.steps) /\ new.copy.enr \in Enrolls
                               /\ Enrolled(new.copy.enr)
                               /\ InOrder(new.copy.steps) /\ ToSet(new.copy.steps) \subseteq made
  PROVE  BatchesOK' /\ \A c \in Batches : BatchOK(c)'
<1>1. BatchesOK /\ \A c \in Batches : BatchOK(c)
  BY TypeParts DEF IInv
<1>2. batch' \in [Batches -> BatchType] /\ batch'[b] = new /\ \A c \in Batches \ {b} : batch'[c] = batch[c]
  BY <1>1 DEF BatchesOK
<1>3. ASSUME NEW c \in Batches \ {b} PROVE BatchOK(c)'
  <2>1. BatchOK(c)
    BY <1>1
  <2>2. \A i \in DOMAIN batch[c].todo : batch[c].todo[i].enr \in Enrolls
    BY <2>1, TodoFacts DEF BatchOK
  <2>3. batch'[c] = batch[c]
    BY <1>2
  <2>4. QED
    BY <2>1, <2>2, <2>3 DEF BatchOK
<1>4. BatchOK(b)'
  <2>1. \A i \in DOMAIN new.todo : new.todo[i].enr \in Enrolls
    BY TodoFacts
  <2>2. QED
    BY <1>2, <2>1 DEF BatchOK
<1>5. BatchesOK'
  BY <1>1, <1>2 DEF BatchesOK
<1>6. QED
  BY <1>3, <1>4, <1>5

\* What the loop of a batch leaves, as far as the next await.
LEMMA RunsEffect ==
  ASSUME IInv, NEW b \in Batches, NEW todo \in Seq(Todo), NEW open \in BOOLEAN,
         \A i \in DOMAIN todo : Enrolled(todo[i].enr), Runs(b, todo, open)
  PROVE  LET end == Loop(todo, open) IN
         /\ end \in Accs /\ Kept(end) /\ enr' = end.enr
         /\ batch' = [batch EXCEPT ![b] =
              IF end.copy = NoCopy THEN Idle
              ELSE [at |-> "mailing", todo |-> end.todo, copy |-> end.copy, arrived |-> FALSE]]
<1>1. Loop(todo, open) \in Accs /\ Kept(Loop(todo, open))
  BY LoopKeeps DEF IInv
<1>2. QED
  BY <1>1 DEF Runs, Loop, Start

LEMMA RunsInv ==
  ASSUME IInv, NEW b \in Batches, NEW todo \in Seq(Todo), NEW open \in BOOLEAN,
         \A i \in DOMAIN todo : Enrolled(todo[i].enr), Runs(b, todo, open),
         UNCHANGED <<sequence, steps, made, blank, consent, mails, owed>>
  PROVE  IInv' /\ RowsKeep
<1> DEFINE end == Loop(todo, open)
           new == IF end.copy = NoCopy THEN Idle
                  ELSE [at |-> "mailing", todo |-> end.todo, copy |-> end.copy, arrived |-> FALSE]
<1>1. /\ end \in Accs /\ Kept(end) /\ enr' = end.enr
      /\ batch' = [batch EXCEPT ![b] = new]
  BY RunsEffect
<1> HIDE DEF end
<1>2. EnrType' /\ GoneOK' /\ RowsKeep /\ \A e \in Enrolls : Enrolled(e)' <=> Enrolled(e)
  BY <1>1, RowsFollow DEF Kept, Accs
<1>3. new \in BatchType /\ new.todo \in Seq(Todo) /\ \A i \in DOMAIN new.todo : Enrolled(new.todo[i].enr)
  <2>1. CASE end.copy = NoCopy
    BY <2>1 DEF Idle, BatchType, NoCopy, Copies
  <2>2. CASE end.copy # NoCopy
    <3>1. end.todo \in Seq(Copies)
      <4>1. end.todo \in Seq(Todo)
        BY <1>1 DEF Accs
      <4>2. \A i \in DOMAIN end.todo : end.todo[i] \in Copies
        BY <4>1, TodoFacts
      <4>3. QED
        BY <4>1, <4>2
    <3>2. QED
      BY <1>1, <2>2, <3>1 DEF Accs, Kept, BatchType
  <2>3. QED
    BY <2>1, <2>2
<1>4. new.at = "mailing" => /\ new.copy.index < Len(new.copy.steps) /\ new.copy.enr \in Enrolls
                            /\ Enrolled(new.copy.enr)
                            /\ InOrder(new.copy.steps) /\ ToSet(new.copy.steps) \subseteq made
  <2>1. CASE end.copy = NoCopy
    BY <2>1 DEF Idle
  <2>2. CASE end.copy # NoCopy
    BY <1>1, <2>2 DEF Kept, Picked, IInv
  <2>3. QED
    BY <2>1, <2>2
<1> HIDE DEF new
<1>5. BatchesOK' /\ \A c \in Batches : BatchOK(c)'
  BY <1>1, <1>2, <1>3, <1>4, BatchMoves
<1>6. StepsOK' /\ MailsType' /\ InOrder(steps)' /\ (ToSet(steps) \subseteq made)'
  BY TypeParts DEF IInv, StepsOK, MailsType, InOrder
<1>7. QED
  BY <1>2, <1>5, <1>6, Gather

\* A row set by one action, the others as they are.
LEMMA RowSet ==
  ASSUME IInv, NEW e \in Enrolls, NEW row \in Rows, Follows(row, enr[e]), enr' = [enr EXCEPT ![e] = row],
         sequence' = sequence, steps' = steps
  PROVE  EnrType' /\ GoneOK' /\ RowsKeep /\ \A f \in Enrolls : Enrolled(f)' <=> Enrolled(f)
<1>1. enr \in [Enrolls -> Rows] /\ \A f \in Enrolls : enr[f].status = "active" => enr[f].index < Cardinality(StepIds)
  BY TypeParts DEF IInv, EnrType
<1>2. enr' \in [Enrolls -> Rows] /\ \A f \in Enrolls : Follows(enr'[f], enr[f])
  BY <1>1 DEF Follows
<1>3. QED
  BY <1>2, RowsFollow

LEMMA EnrollInv == ASSUME IInv, NEW c \in Contacts, Enroll(c) PROVE IInv'
<1>1. PICK e \in Enrolls :
        /\ enr[e].status = "none"
        /\ enr' = [enr EXCEPT ![e] = [contact |-> c, status |-> "active", index |-> 0, next |-> "later"]]
        /\ owed' = [owed EXCEPT ![e] = ToSet(steps)]
  BY DEF Enroll
<1> DEFINE row == [contact |-> c, status |-> "active", index |-> 0, next |-> "later"]
<1>2. EnrType /\ StepsOK /\ MailsType /\ GoneOK
  BY TypeParts DEF IInv
<1>3. 0 < Cardinality(StepIds) /\ Cardinality(StepIds) \in Nat
  <2>1. Len(steps) <= Cardinality(StepIds) /\ Len(steps) \in Nat /\ Cardinality(StepIds) \in Nat /\ steps \in Seq(StepIds)
    BY LengthBound, Facts DEF IInv
  <2>2. steps # <<>>
    BY DEF Enroll
  <2>3. Len(steps) # 0
    BY <2>1, <2>2
  <2>4. QED
    BY <2>1, <2>3
<1>4. row \in Rows /\ row.status = "active" /\ row.index < Cardinality(StepIds)
  BY <1>3 DEF Rows
<1> HIDE DEF row
<1>5. enr' = [enr EXCEPT ![e] = row]
  BY <1>1 DEF row
<1>6. EnrType' /\ \A f \in Enrolls : Enrolled(f) => Enrolled(f)'
  BY <1>2, <1>4, <1>5 DEF EnrType, Enrolled
<1>7. GoneOK'
  BY <1>2, <1>4, <1>5 DEF GoneOK, Enroll, EnrType
<1>8. ToSet(steps) \in SUBSET StepIds
  BY <1>2 DEF ToSet, StepsOK
<1>9. StepsOK' /\ MailsType'
  BY <1>1, <1>2, <1>8 DEF Enroll, StepsOK, MailsType
<1>10. BatchesOK' /\ \A b \in Batches : BatchOK(b)'
  BY <1>6, BatchesStay DEF Enroll
<1>11. InOrder(steps)' /\ (ToSet(steps) \subseteq made)'
  BY DEF IInv, Enroll, InOrder
<1>12. QED
  BY <1>6, <1>7, <1>9, <1>10, <1>11, Gather

\* Only rows change, and they follow.
LEMMA OnlyRows ==
  ASSUME IInv, enr' \in [Enrolls -> Rows], \A e \in Enrolls : Follows(enr'[e], enr[e]),
         UNCHANGED <<sequence, steps, made, blank, batch, mails, owed>>, consent' \subseteq Contacts
  PROVE  IInv' /\ RowsKeep
<1>1. EnrType' /\ GoneOK' /\ RowsKeep /\ \A e \in Enrolls : Enrolled(e)' <=> Enrolled(e)
  BY RowsFollow
<1>2. BatchesOK' /\ \A b \in Batches : BatchOK(b)'
  BY <1>1, BatchesStay
<1>3. StepsOK' /\ MailsType' /\ InOrder(steps)' /\ (ToSet(steps) \subseteq made)'
  BY TypeParts DEF IInv, StepsOK, MailsType, InOrder
<1>4. QED
  BY <1>1, <1>2, <1>3, Gather

LEMMA FollowsItself == ASSUME IInv, NEW e \in Enrolls PROVE Follows(enr[e], enr[e]) /\ enr[e] \in Rows /\ enr \in [Enrolls -> Rows]
BY TypeParts DEF IInv, EnrType, Follows, Rows

LEMMA CancelInv == ASSUME IInv, NEW e \in Enrolls, Cancel(e) PROVE IInv' /\ RowsKeep
<1>1. enr' \in [Enrolls -> Rows] /\ \A f \in Enrolls : Follows(enr'[f], enr[f])
  <2>1. enr \in [Enrolls -> Rows]
    BY FollowsItself
  <2>2. /\ Ended(enr, e, "cancelled") \in [Enrolls -> Rows]
        /\ \A f \in Enrolls \ {e} : Ended(enr, e, "cancelled")[f] = enr[f]
        /\ Ended(enr, e, "cancelled")[e].contact = enr[e].contact
        /\ Ended(enr, e, "cancelled")[e].index = enr[e].index
        /\ Ended(enr, e, "cancelled")[e].status = IF enr[e].status = "active" THEN "cancelled" ELSE enr[e].status
    BY <2>1, EndedType
  <2>3. enr' = Ended(enr, e, "cancelled")
    BY DEF Cancel
  <2>4. Follows(enr'[e], enr[e])
    BY <2>2, <2>3, FollowsItself DEF Follows
  <2>5. QED
    BY <2>2, <2>3, <2>4, FollowsItself
<1>2. consent' \subseteq Contacts
  BY TypeParts DEF IInv, StepsOK, Cancel
<1>3. QED
  BY <1>1, <1>2, OnlyRows DEF Cancel

LEMMA DayComesInv == ASSUME IInv, NEW e \in Enrolls, DayComes(e) PROVE IInv' /\ RowsKeep
<1>1. enr' \in [Enrolls -> Rows] /\ \A f \in Enrolls : Follows(enr'[f], enr[f])
  <2> DEFINE row == [enr[e] EXCEPT !.next = "due"]
  <2>1. row \in Rows /\ Follows(row, enr[e])
    BY FollowsItself DEF Rows, Follows
  <2> HIDE DEF row
  <2>2. enr' = [enr EXCEPT ![e] = row]
    BY DEF DayComes, row
  <2>3. QED
    BY <2>1, <2>2, FollowsItself
<1>2. consent' \subseteq Contacts
  BY TypeParts DEF IInv, StepsOK, DayComes
<1>3. QED
  BY <1>1, <1>2, OnlyRows DEF DayComes

LEMMA UnsubscribeInv == ASSUME IInv, NEW c \in Contacts, Unsubscribe(c) PROVE IInv' /\ RowsKeep
<1>1. ASSUME NEW e \in Enrolls PROVE enr'[e] \in Rows /\ Follows(enr'[e], enr[e])
  <2>1. enr'[e] = IF enr[e].contact = c THEN Ended(enr, e, "cancelled")[e] ELSE enr[e]
    BY DEF Unsubscribe
  <2>2. /\ Ended(enr, e, "cancelled") \in [Enrolls -> Rows]
        /\ Ended(enr, e, "cancelled")[e].contact = enr[e].contact
        /\ Ended(enr, e, "cancelled")[e].index = enr[e].index
        /\ Ended(enr, e, "cancelled")[e].status = IF enr[e].status = "active" THEN "cancelled" ELSE enr[e].status
    BY FollowsItself, EndedType
  <2>3. Ended(enr, e, "cancelled")[e] \in Rows
    BY <2>2
  <2> DEFINE row == Ended(enr, e, "cancelled")[e]
  <2> HIDE DEF row
  <2>4. Follows(row, enr[e])
    BY <2>2, FollowsItself DEF Follows, row
  <2>5. QED
    BY <2>1, <2>3, <2>4, FollowsItself DEF row
<1>2. enr' \in [Enrolls -> Rows]
  <2>1. enr' = [e \in Enrolls |-> enr'[e]]
    BY DEF Unsubscribe
  <2>2. QED
    BY <2>1, <1>1
<1>3. consent' \subseteq Contacts
  BY TypeParts DEF IInv, StepsOK, Unsubscribe
<1>4. QED
  BY <1>1, <1>2, <1>3, OnlyRows DEF Unsubscribe

LEMMA SetConsentInv == ASSUME IInv, NEW c \in Contacts, SetConsent(c) PROVE IInv' /\ RowsKeep
<1>1. enr' \in [Enrolls -> Rows] /\ \A f \in Enrolls : Follows(enr'[f], enr[f])
  BY FollowsItself, TypeParts DEF SetConsent, IInv, EnrType
<1>2. consent' \subseteq Contacts
  BY TypeParts DEF IInv, StepsOK, SetConsent
<1>3. QED
  BY <1>1, <1>2, OnlyRows DEF SetConsent

\* The copies a batch takes of the rows that are due.
LEMMA DueCopies ==
  ASSUME IInv, NEW order \in SetToSeqs(Due)
  PROVE  LET todo == [i \in DOMAIN order |-> CopyOf(order[i])] IN
         /\ todo \in Seq(Todo) /\ Len(todo) \in Nat /\ DOMAIN todo = 1 .. Len(todo)
         /\ \A i \in DOMAIN todo : /\ todo[i].enr \in Due /\ Enrolled(todo[i].enr)
                                   /\ todo[i].index = enr[todo[i].enr].index
         /\ \A i, j \in DOMAIN todo : i # j => todo[i].enr # todo[j].enr
<1> DEFINE n == Cardinality(Due)
           todo == [i \in DOMAIN order |-> CopyOf(order[i])]
<1>1. Due \subseteq Enrolls /\ IsFiniteSet(Due) /\ n \in Nat
  BY SequencesAssumption, FS_Subset, FS_CardinalityType DEF Due, Active
<1>2. order \in [1 .. n -> Due] /\ \A i, j \in 1 .. n : i # j => order[i] # order[j]
  BY DEF SetToSeqs
<1>3. ASSUME NEW e \in Due
      PROVE  /\ CopyOf(e) \in Todo /\ CopyOf(e).enr = e /\ CopyOf(e).index = enr[e].index
             /\ Enrolled(e)
  <2>1. e \in Enrolls /\ enr[e].index \in Nat /\ enr[e].status = "active"
    BY <1>1, <1>3, FollowsItself DEF Rows, Due, Active
  <2>2. QED
    BY <2>1 DEF CopyOf, Todo, Enrolled
<1> HIDE DEF n
<1>4. todo = [i \in 1 .. n |-> CopyOf(order[i])]
  BY <1>2
<1>5. \A i \in 1 .. n : /\ todo[i] \in Todo /\ todo[i].enr = order[i] /\ order[i] \in Due
                        /\ todo[i].index = enr[order[i]].index /\ Enrolled(order[i])
  BY <1>2, <1>3, <1>4
<1>6. todo \in [1 .. n -> Todo]
  BY <1>3, <1>2, <1>4
<1> HIDE DEF todo
<1>7. todo \in Seq(Todo) /\ Len(todo) = n /\ DOMAIN todo = 1 .. n
  BY <1>1, <1>6
<1>8. /\ todo \in Seq(Todo) /\ Len(todo) \in Nat /\ DOMAIN todo = 1 .. Len(todo)
      /\ \A i \in DOMAIN todo : /\ todo[i].enr \in Due /\ Enrolled(todo[i].enr)
                                /\ todo[i].index = enr[todo[i].enr].index
      /\ \A i, j \in DOMAIN todo : i # j => todo[i].enr # todo[j].enr
  BY <1>1, <1>2, <1>5, <1>7
<1>9. QED
  BY <1>8 DEF todo

LEMMA BatchStartsInv == ASSUME IInv, NEW b \in Batches, NEW open \in BOOLEAN, BatchStarts(b, open) PROVE IInv' /\ RowsKeep
<1>1. PICK order \in SetToSeqs(Due) : Runs(b, [i \in DOMAIN order |-> CopyOf(order[i])], open)
  BY DEF BatchStarts
<1> DEFINE todo == [i \in DOMAIN order |-> CopyOf(order[i])]
<1>2. todo \in Seq(Todo) /\ \A i \in DOMAIN todo : Enrolled(todo[i].enr)
  BY DueCopies
<1>3. Runs(b, todo, open)
  BY <1>1
<1> HIDE DEF todo
<1>4. QED
  BY <1>2, <1>3, RunsInv DEF BatchStarts

LEMMA BatchGoesOnInv == ASSUME IInv, NEW b \in Batches, NEW open \in BOOLEAN, BatchGoesOn(b, open) PROVE IInv' /\ RowsKeep
<1>1. batch[b].todo \in Seq(Todo) /\ \A i \in DOMAIN batch[b].todo : Enrolled(batch[b].todo[i].enr)
  BY DEF IInv, BatchOK
<1>2. QED
  BY <1>1, RunsInv DEF BatchGoesOn

\* What is known of a batch that is mailing.
LEMMA MailingFacts ==
  ASSUME IInv, NEW b \in Batches, batch[b].at = "mailing"
  PROVE  LET copy == batch[b].copy IN
         /\ batch \in [Batches -> BatchType] /\ batch[b] \in BatchType
         /\ batch[b].todo \in Seq(Todo) /\ \A i \in DOMAIN batch[b].todo : Enrolled(batch[b].todo[i].enr)
         /\ copy.enr \in Enrolls /\ Enrolled(copy.enr) /\ copy.index \in Nat /\ copy.index < Len(copy.steps)
         /\ copy.steps \in Seq(StepIds) /\ InOrder(copy.steps) /\ ToSet(copy.steps) \subseteq made
         /\ Len(copy.steps) \in Nat /\ Len(copy.steps) <= Cardinality(StepIds)
         /\ copy.index + 1 \in DOMAIN copy.steps /\ copy.steps[copy.index + 1] \in StepIds
         /\ Mailing(b) \in Enrolls \X StepIds
<1> DEFINE copy == batch[b].copy
<1>1. batch \in [Batches -> BatchType] /\ copy.index < Len(copy.steps)
  BY TypeParts DEF IInv, BatchesOK
<1>2. batch[b] \in BatchType /\ copy \in Copies
  BY <1>1 DEF BatchType
<1>3. BatchOK(b)
  BY DEF IInv
<1>4. copy.steps \in Seq(StepIds) /\ Len(copy.steps) \in Nat /\ copy.index \in Nat
  BY <1>2 DEF Copies
<1>5. copy.enr \in Enrolls /\ InOrder(copy.steps)
  BY <1>3 DEF BatchOK
<1>6. copy.index + 1 \in DOMAIN copy.steps /\ copy.steps[copy.index + 1] \in StepIds
  <2> DEFINE q == copy.steps
             i == copy.index
  <2>1. q \in Seq(StepIds) /\ i \in Nat /\ i < Len(q)
    BY <1>1, <1>4
  <2> HIDE DEF q, i
  <2>2. i + 1 \in DOMAIN q /\ q[i + 1] \in StepIds
    BY <2>1
  <2>3. QED
    BY <2>2 DEF q, i
<1>7. Len(copy.steps) <= Cardinality(StepIds)
  BY <1>4, <1>5, LengthBound
<1>8. Mailing(b) \in Enrolls \X StepIds
  BY <1>5, <1>6 DEF Mailing
<1>9. QED
  BY <1>1, <1>2, <1>3, <1>4, <1>6, <1>7, <1>8 DEF BatchOK

LEMMA MailArrivesInv == ASSUME IInv, NEW b \in Batches, MailArrives(b) PROVE IInv' /\ RowsKeep
<1> DEFINE new == [batch[b] EXCEPT !.arrived = TRUE]
<1>1. batch' = [batch EXCEPT ![b] = new] /\ batch[b].at = "mailing"
  BY DEF MailArrives
<1>2. /\ new \in BatchType /\ new.at = "mailing" /\ new.copy = batch[b].copy /\ new.todo = batch[b].todo
  BY <1>1, MailingFacts DEF BatchType
<1>3. \A e \in Enrolls : Enrolled(e) => Enrolled(e)'
  BY DEF MailArrives, Enrolled
<1> HIDE DEF new
<1>4. BatchesOK' /\ \A c \in Batches : BatchOK(c)'
  <2>1. new.todo \in Seq(Todo) /\ \A i \in DOMAIN new.todo : Enrolled(new.todo[i].enr)
    BY <1>1, <1>2, MailingFacts
  <2>2. /\ new.copy.index < Len(new.copy.steps) /\ new.copy.enr \in Enrolls
        /\ Enrolled(new.copy.enr)
        /\ InOrder(new.copy.steps) /\ ToSet(new.copy.steps) \subseteq made
    BY <1>1, <1>2, MailingFacts
  <2>3. made' = made
    BY DEF MailArrives
  <2>4. QED
    BY <1>1, <1>2, <1>3, <2>1, <2>2, <2>3, BatchMoves
<1>5. mails' \in [Enrolls \X StepIds -> Nat]
  <2>1. mails' = [mails EXCEPT ![Mailing(b)] = @ + 1]
    BY DEF MailArrives, Mailing
  <2>2. mails \in [Enrolls \X StepIds -> Nat] /\ Mailing(b) \in Enrolls \X StepIds
    BY <1>1, MailingFacts, TypeParts DEF IInv, MailsType
  <2>3. QED
    BY <2>1, <2>2
<1>6. EnrType' /\ GoneOK' /\ StepsOK' /\ MailsType' /\ InOrder(steps)' /\ (ToSet(steps) \subseteq made)'
  BY <1>5, TypeParts DEF IInv, EnrType, GoneOK, StepsOK, MailsType, InOrder, MailArrives
<1>7. RowsKeep
  BY DEF RowsKeep, MailArrives
<1>8. QED
  BY <1>4, <1>6, <1>7, Gather

\* A try is answered, whatever becomes of the row.
LEMMA AnsweredInv ==
  ASSUME IInv, NEW b \in Batches, batch[b].at = "mailing", Answered(b),
         NEW row \in Rows, Follows(row, enr[batch[b].copy.enr]), enr' = [enr EXCEPT ![batch[b].copy.enr] = row],
         UNCHANGED <<sequence, steps, made, blank, consent, mails, owed>>
  PROVE  IInv' /\ RowsKeep
<1> DEFINE new == [batch[b] EXCEPT !.at = "gap", !.copy = NoCopy, !.arrived = FALSE]
<1>1. batch' = [batch EXCEPT ![b] = new]
  BY DEF Answered
<1>2. NoCopy \in Copies
  BY DEF NoCopy, Copies
<1>3. new \in BatchType /\ new.at = "gap" /\ new.todo = batch[b].todo
  BY <1>2, MailingFacts DEF BatchType
<1> HIDE DEF new
<1>4. EnrType' /\ GoneOK' /\ RowsKeep /\ \A f \in Enrolls : Enrolled(f)' <=> Enrolled(f)
  BY MailingFacts, RowSet
<1>5. BatchesOK' /\ \A c \in Batches : BatchOK(c)'
  BY <1>1, <1>3, <1>4, MailingFacts, BatchMoves
<1>6. StepsOK' /\ MailsType' /\ InOrder(steps)' /\ (ToSet(steps) \subseteq made)'
  BY TypeParts DEF IInv, StepsOK, MailsType, InOrder
<1>7. QED
  BY <1>4, <1>5, <1>6, Gather

LEMMA MailAcceptedInv == ASSUME IInv, NEW b \in Batches, MailAccepted(b) PROVE IInv' /\ RowsKeep
<1> DEFINE copy == batch[b].copy
           row == Advanced(enr, copy)[copy.enr]
<1>1. batch[b].at = "mailing" /\ Answered(b) /\ enr' = Advanced(enr, copy)
  BY DEF MailAccepted
<1>2. enr \in [Enrolls -> Rows] /\ copy.enr \in Enrolls /\ Enrolled(copy.enr)
  BY <1>1, MailingFacts, TypeParts DEF IInv, EnrType
<1>3. /\ Advanced(enr, copy) \in [Enrolls -> Rows]
      /\ \A f \in Enrolls \ {copy.enr} : Advanced(enr, copy)[f] = enr[f]
      /\ Follows(row, enr[copy.enr])
  <2>1. /\ copy.index \in Nat /\ Len(copy.steps) \in Nat /\ Len(copy.steps) <= Cardinality(StepIds)
        /\ copy.index < Len(copy.steps)
    BY <1>1, MailingFacts
  <2>2. Follows(enr[copy.enr], enr[copy.enr])
    BY <1>2, FollowsItself
  <2> HIDE DEF copy
  <2>3. QED
    BY <1>2, <2>1, <2>2, AdvancedRow
<1>4. row \in Rows /\ enr' = [enr EXCEPT ![copy.enr] = row]
  BY <1>1, <1>2, <1>3
<1> HIDE DEF row
<1>5. QED
  BY <1>1, <1>3, <1>4, AnsweredInv DEF MailAccepted

LEMMA MailFailedInv == ASSUME IInv, NEW b \in Batches, MailFailed(b) PROVE IInv' /\ RowsKeep
<1> DEFINE e == batch[b].copy.enr
           row == [enr[e] EXCEPT !.next = IF @ = "gone" THEN @ ELSE "later"]
<1>1. batch[b].at = "mailing" /\ Answered(b) /\ enr' = [enr EXCEPT ![e] = row]
  BY DEF MailFailed
<1>2. e \in Enrolls
  BY <1>1, MailingFacts
<1>3. row \in Rows /\ Follows(row, enr[e])
  BY <1>2, FollowsItself DEF Rows, Follows
<1> HIDE DEF row
<1>4. QED
  BY <1>1, <1>3, AnsweredInv DEF MailFailed

\* The rows and the batches stay as they are.
LEMMA StepsChange ==
  ASSUME IInv, UNCHANGED <<enr, batch, mails, owed>>, made \subseteq made', StepsOK', GoneOK',
         InOrder(steps)', (ToSet(steps) \subseteq made)'
  PROVE  IInv' /\ RowsKeep
<1>1. EnrType' /\ MailsType'
  BY TypeParts DEF IInv, EnrType, MailsType
<1>2. BatchesOK' /\ \A b \in Batches : BatchOK(b)'
  BY BatchesStay DEF Enrolled
<1>3. RowsKeep
  BY DEF RowsKeep
<1>4. QED
  BY <1>1, <1>2, <1>3, Gather

LEMMA AddStepInv == ASSUME IInv, AddStep PROVE IInv' /\ RowsKeep
<1>1. PICK s \in StepIds : (\A r \in made : r < s) /\ steps' = Append(steps, s) /\ made' = made \cup {s}
  BY DEF AddStep
<1>2. steps \in Seq(StepIds) /\ StepsOK /\ InOrder(steps) /\ GoneOK /\ StepIds \subseteq Nat
  BY TypeParts, SequencesAssumption DEF IInv, StepsOK
<1>3. \A i \in DOMAIN steps : steps[i] \in made
  BY DEF IInv, ToSet
<1>4. /\ steps' \in Seq(StepIds) /\ DOMAIN steps' = 1 .. Len(steps) + 1 /\ Len(steps) \in Nat
      /\ \A i \in 1 .. Len(steps) : steps'[i] = steps[i] /\ steps[i] \in made
      /\ steps'[Len(steps) + 1] = s
  BY <1>1, <1>2, <1>3
<1>5. ASSUME NEW i \in DOMAIN steps', NEW j \in DOMAIN steps', i < j PROVE steps'[i] < steps'[j]
  <2>1. i \in 1 .. Len(steps) /\ j \in Nat /\ j <= Len(steps) + 1
    BY <1>4, <1>5
  <2>2. CASE j = Len(steps) + 1
    BY <1>1, <1>4, <2>1, <2>2
  <2>3. CASE j \in 1 .. Len(steps)
    BY <1>2, <1>4, <1>5, <2>1, <2>3 DEF InOrder
  <2>4. QED
    BY <1>4, <2>1, <2>2, <2>3
<1>6. \A i \in DOMAIN steps' : steps'[i] \in made'
  BY <1>1, <1>4
<1>7. InOrder(steps)' /\ (ToSet(steps) \subseteq made)'
  BY <1>5, <1>6 DEF InOrder, ToSet
<1>8. StepsOK' /\ GoneOK'
  BY <1>1, <1>2, <1>4 DEF StepsOK, GoneOK, AddStep
<1>9. QED
  BY <1>1, <1>7, <1>8, StepsChange DEF AddStep

\* What is left of a sequence when one of it goes.
LEMMA Removed ==
  ASSUME NEW S, NEW seq \in Seq(S), NEW i \in DOMAIN seq
  PROVE  /\ RemoveAt(seq, i) \in Seq(S) /\ Len(RemoveAt(seq, i)) = Len(seq) - 1
         /\ DOMAIN RemoveAt(seq, i) = 1 .. Len(seq) - 1
         /\ \A k \in 1 .. Len(seq) - 1 : RemoveAt(seq, i)[k] = IF k < i THEN seq[k] ELSE seq[k + 1]
<1> DEFINE n == Len(seq)
           s1 == SubSeq(seq, 1, i - 1)
           s2 == SubSeq(seq, i + 1, n)
<1>1. n \in Nat /\ i \in 1 .. n /\ \A k \in 1 .. n : seq[k] \in S
  OBVIOUS
<1>2. s1 \in Seq(S) /\ Len(s1) = i - 1 /\ \A k \in 1 .. i - 1 : s1[k] = seq[k]
  <2>1. 1 \in Int /\ i - 1 \in Int /\ \A k \in 1 .. i - 1 : seq[k] \in S
    BY <1>1
  <2>2. /\ s1 \in Seq(S) /\ Len(s1) = IF 1 <= i - 1 THEN (i - 1) - 1 + 1 ELSE 0
        /\ \A k \in 1 .. (i - 1) - 1 + 1 : s1[k] = seq[1 + k - 1]
    BY <2>1, SubSeqProperties
  <2>3. QED
    BY <1>1, <2>2
<1>3. s2 \in Seq(S) /\ Len(s2) = n - i /\ \A k \in 1 .. n - i : s2[k] = seq[i + k]
  <2>1. i + 1 \in Int /\ n \in Int /\ \A k \in i + 1 .. n : seq[k] \in S
    BY <1>1
  <2>2. /\ s2 \in Seq(S) /\ Len(s2) = IF i + 1 <= n THEN n - (i + 1) + 1 ELSE 0
        /\ \A k \in 1 .. n - (i + 1) + 1 : s2[k] = seq[(i + 1) + k - 1]
    BY <2>1, SubSeqProperties
  <2>3. QED
    BY <1>1, <2>2
<1>4. RemoveAt(seq, i) = s1 \o s2
  BY DEF RemoveAt
<1> HIDE DEF n, s1, s2
<1> DEFINE r == RemoveAt(seq, i)
<1>5. r \in Seq(S) /\ Len(r) = n - 1
      /\ \A k \in 1 .. n - 1 : r[k] = IF k <= i - 1 THEN s1[k] ELSE s2[k - (i - 1)]
  <2>1. /\ s1 \o s2 \in Seq(S) /\ Len(s1 \o s2) = Len(s1) + Len(s2)
        /\ \A k \in 1 .. Len(s1) + Len(s2) : (s1 \o s2)[k] = IF k <= Len(s1) THEN s1[k] ELSE s2[k - Len(s1)]
    BY <1>2, <1>3, ConcatProperties
  <2>2. Len(s1) + Len(s2) = n - 1
    BY <1>1, <1>2, <1>3
  <2>3. QED
    BY <1>2, <1>4, <2>1, <2>2
<1> HIDE DEF r
<1>6. DOMAIN r = 1 .. n - 1
  BY <1>5
<1>7. ASSUME NEW k \in 1 .. n - 1 PROVE r[k] = IF k < i THEN seq[k] ELSE seq[k + 1]
  <2>1. CASE k < i
    BY <1>1, <1>2, <1>5, <2>1
  <2>2. CASE k >= i
    <3>1. k - (i - 1) \in 1 .. n - i /\ i + (k - (i - 1)) = k + 1 /\ ~(k <= i - 1)
      BY <1>1, <2>2
    <3>2. r[k] = s2[k - (i - 1)]
      BY <1>5, <3>1
    <3>3. QED
      BY <1>1, <1>3, <2>2, <3>1, <3>2
  <2>3. QED
    BY <1>1, <2>1, <2>2
<1>8. QED
  BY <1>5, <1>6, <1>7 DEF n, r

LEMMA DeleteStepInv == ASSUME IInv, NEW s \in StepIds, DeleteStep(s) PROVE IInv' /\ RowsKeep
<1>1. PICK i \in DOMAIN steps : steps[i] = s /\ steps' = RemoveAt(steps, i)
  BY DEF DeleteStep
<1>2. steps \in Seq(StepIds) /\ StepsOK /\ InOrder(steps) /\ GoneOK /\ StepIds \subseteq Nat
  BY TypeParts, SequencesAssumption DEF IInv, StepsOK
<1>3. \A k \in DOMAIN steps : steps[k] \in made
  BY DEF IInv, ToSet
<1>4. /\ steps' \in Seq(StepIds) /\ DOMAIN steps' = 1 .. Len(steps) - 1
      /\ \A k \in 1 .. Len(steps) - 1 : steps'[k] = IF k < i THEN steps[k] ELSE steps[k + 1]
  BY <1>1, <1>2, Removed
<1>5. DOMAIN steps = 1 .. Len(steps) /\ Len(steps) \in Nat /\ i \in 1 .. Len(steps)
  BY <1>2
<1>6. ASSUME NEW k \in DOMAIN steps', NEW j \in DOMAIN steps', k < j PROVE steps'[k] < steps'[j]
  <2>1. k \in 1 .. Len(steps) /\ j \in 1 .. Len(steps) /\ k + 1 \in 1 .. Len(steps) /\ j + 1 \in 1 .. Len(steps)
    BY <1>4, <1>5
  <2>2. /\ \A x, y \in 1 .. Len(steps) : x < y => steps[x] < steps[y]
    BY <1>2, <1>5 DEF InOrder
  <2>3. (steps'[k] = steps[k] /\ k < i) \/ (steps'[k] = steps[k + 1] /\ ~(k < i))
    <3>1. k \in 1 .. Len(steps) - 1
      BY <1>4
    <3>2. steps'[k] = IF k < i THEN steps[k] ELSE steps[k + 1]
      BY <1>4, <3>1
    <3>3. QED
      BY <1>5, <3>1, <3>2
  <2>4. (steps'[j] = steps[j] /\ j < i) \/ (steps'[j] = steps[j + 1] /\ ~(j < i))
    <3>1. j \in 1 .. Len(steps) - 1
      BY <1>4
    <3>2. steps'[j] = IF j < i THEN steps[j] ELSE steps[j + 1]
      BY <1>4, <3>1
    <3>3. QED
      BY <1>5, <3>1, <3>2
  <2>5. QED
    BY <1>5, <1>6, <2>1, <2>2, <2>3, <2>4
<1>7. \A k \in DOMAIN steps' : steps'[k] \in made
  BY <1>3, <1>4, <1>5
<1>8. InOrder(steps)' /\ (ToSet(steps) \subseteq made)'
  BY <1>6, <1>7 DEF InOrder, ToSet, DeleteStep
<1>9. steps # <<>>
  BY <1>5
<1>10. StepsOK' /\ GoneOK'
  BY <1>2, <1>4, <1>9 DEF StepsOK, GoneOK, DeleteStep
<1>11. QED
  BY <1>8, <1>10, StepsChange DEF DeleteStep

LEMMA UpdateStepInv == ASSUME IInv, NEW s \in StepIds, UpdateStep(s) PROVE IInv' /\ RowsKeep
<1>1. StepsOK' /\ GoneOK' /\ InOrder(steps)' /\ (ToSet(steps) \subseteq made)'
  BY TypeParts DEF IInv, UpdateStep, StepsOK, GoneOK, InOrder
<1>2. QED
  BY <1>1, StepsChange DEF UpdateStep

LEMMA SwitchInv == ASSUME IInv, Switch PROVE IInv' /\ RowsKeep
<1>1. StepsOK' /\ GoneOK' /\ InOrder(steps)' /\ (ToSet(steps) \subseteq made)'
  BY TypeParts DEF IInv, Switch, StepsOK, GoneOK, InOrder
<1>2. QED
  BY <1>1, StepsChange DEF Switch

LEMMA DeleteSequenceInv == ASSUME IInv, DeleteSequence PROVE IInv' /\ RowsKeep
<1>1. enr \in [Enrolls -> Rows]
  BY TypeParts DEF IInv, EnrType
<1>2. ASSUME NEW e \in Enrolls
      PROVE  /\ enr'[e] \in Rows /\ enr'[e].status \in {"none", "gone"} /\ enr'[e].contact = enr[e].contact
             /\ enr'[e].status = "none" <=> enr[e].status = "none"
  <2>1. enr'[e] = IF enr[e].status = "none" THEN enr[e] ELSE [enr[e] EXCEPT !.status = "gone", !.next = "gone"]
    BY DEF DeleteSequence
  <2>2. enr[e] \in Rows
    BY <1>1
  <2>3. QED
    BY <2>1, <2>2 DEF Rows
<1>3. enr' \in [Enrolls -> Rows]
  <2>1. enr' = [e \in Enrolls |-> enr'[e]]
    BY DEF DeleteSequence
  <2>2. QED
    BY <2>1, <1>2
<1>4. EnrType' /\ GoneOK' /\ RowsKeep /\ \A e \in Enrolls : Enrolled(e) => Enrolled(e)'
  BY <1>2, <1>3 DEF EnrType, GoneOK, Enrolled, DeleteSequence, RowsKeep
<1>5. BatchesOK' /\ \A b \in Batches : BatchOK(b)'
  BY <1>4, BatchesStay DEF DeleteSequence
<1>6. InOrder(steps)' /\ (ToSet(steps) \subseteq made)'
  <2> DEFINE q == steps'
  <2>1. q = <<>>
    BY DEF DeleteSequence
  <2>2. \A i \in DOMAIN q : FALSE
    BY <2>1
  <2>3. QED
    BY <2>2 DEF InOrder, ToSet
<1>7. StepsOK' /\ MailsType'
  <2>1. steps' \in Seq(StepIds)
    <3>1. <<>> \in Seq(StepIds)
      OBVIOUS
    <3>2. QED
      BY <3>1 DEF DeleteSequence
  <2>2. QED
    BY <2>1, TypeParts DEF IInv, StepsOK, MailsType, DeleteSequence
<1>8. QED
  BY <1>4, <1>5, <1>6, <1>7, Gather

LEMMA CrashInv == ASSUME IInv, Crash PROVE IInv' /\ RowsKeep
<1>1. Idle \in BatchType /\ Idle.todo = <<>> /\ Idle.at = "off"
  BY DEF Idle, BatchType, NoCopy, Copies
<1>2. batch' \in [Batches -> BatchType] /\ \A b \in Batches : batch'[b].todo = <<>> /\ batch'[b].at = "off"
  BY <1>1 DEF Crash
<1>3. ASSUME NEW b \in Batches PROVE BatchOK(b)'
  <2> DEFINE todo == batch'[b].todo
  <2>1. todo = <<>> /\ batch'[b].at = "off"
    BY <1>2
  <2>2. todo \in Seq(Todo) /\ \A i \in DOMAIN todo : FALSE
    BY <2>1
  <2>3. QED
    BY <2>1, <2>2 DEF BatchOK
<1>4. BatchesOK'
  BY <1>2 DEF BatchesOK
<1>5. EnrType' /\ GoneOK' /\ StepsOK' /\ MailsType' /\ InOrder(steps)' /\ (ToSet(steps) \subseteq made)'
  BY TypeParts DEF IInv, EnrType, GoneOK, StepsOK, MailsType, InOrder, Crash
<1>6. RowsKeep
  BY DEF RowsKeep, Crash
<1>7. QED
  BY <1>3, <1>4, <1>5, <1>6, Gather

LEMMA StutterInv == ASSUME IInv, UNCHANGED vars PROVE IInv' /\ RowsKeep
<1>1. StepsOK' /\ GoneOK' /\ InOrder(steps)' /\ (ToSet(steps) \subseteq made)'
  BY TypeParts DEF IInv, vars, StepsOK, GoneOK, InOrder
<1>2. QED
  BY <1>1, StepsChange DEF vars

\* The actions, one by one.
LEMMA NextCases ==
  ASSUME [Next]_vars
  PROVE  \/ \E c \in Contacts : Enroll(c) \/ Unsubscribe(c) \/ SetConsent(c)
         \/ \E e \in Enrolls : Cancel(e) \/ DayComes(e)
         \/ \E b \in Batches, open \in BOOLEAN : BatchStarts(b, open) \/ BatchGoesOn(b, open)
         \/ \E b \in Batches : MailArrives(b) \/ MailAccepted(b) \/ MailFailed(b)
         \/ AddStep \/ \E s \in StepIds : DeleteStep(s) \/ UpdateStep(s)
         \/ Switch \/ DeleteSequence \/ Crash \/ UNCHANGED vars
BY DEF Next

\* The steps that may tear an enrolment.
LEMMA TornCases ==
  ASSUME [Next]_vars
  PROVE  \/ \E b \in Batches : MailFailed(b)
         \/ \E b \in Batches, open \in BOOLEAN : BatchStarts(b, open)
         \/ Crash \/ torn' = torn
<1>1. CASE \E c \in Contacts : Enroll(c) \/ Unsubscribe(c) \/ SetConsent(c)
  BY <1>1 DEF Enroll, Unsubscribe, SetConsent
<1>2. CASE \E e \in Enrolls : Cancel(e) \/ DayComes(e)
  BY <1>2 DEF Cancel, DayComes
<1>3. CASE \E b \in Batches, open \in BOOLEAN : BatchGoesOn(b, open)
  BY <1>3 DEF BatchGoesOn
<1>4. CASE \E b \in Batches : MailArrives(b) \/ MailAccepted(b)
  BY <1>4 DEF MailArrives, MailAccepted
<1>5. CASE AddStep \/ \E s \in StepIds : DeleteStep(s) \/ UpdateStep(s)
  BY <1>5 DEF AddStep, DeleteStep, UpdateStep
<1>6. CASE Switch \/ DeleteSequence \/ UNCHANGED vars
  BY <1>6 DEF Switch, DeleteSequence, vars
<1>7. QED
  BY <1>1, <1>2, <1>3, <1>4, <1>5, <1>6, NextCases

\* Every step keeps the invariant, and none but Enroll makes a row active.
LEMMA Steps == ASSUME IInv, [Next]_vars PROVE IInv' /\ (RowsKeep \/ \E c \in Contacts : Enroll(c))
<1>1. CASE \E c \in Contacts : Enroll(c) \/ Unsubscribe(c) \/ SetConsent(c)
  BY <1>1, EnrollInv, UnsubscribeInv, SetConsentInv
<1>2. CASE \E e \in Enrolls : Cancel(e) \/ DayComes(e)
  BY <1>2, CancelInv, DayComesInv
<1>3. CASE \E b \in Batches, open \in BOOLEAN : BatchStarts(b, open) \/ BatchGoesOn(b, open)
  BY <1>3, BatchStartsInv, BatchGoesOnInv
<1>4. CASE \E b \in Batches : MailArrives(b) \/ MailAccepted(b) \/ MailFailed(b)
  BY <1>4, MailArrivesInv, MailAcceptedInv, MailFailedInv
<1>5. CASE AddStep \/ \E s \in StepIds : DeleteStep(s) \/ UpdateStep(s)
  BY <1>5, AddStepInv, DeleteStepInv, UpdateStepInv
<1>6. CASE Switch \/ DeleteSequence \/ Crash \/ UNCHANGED vars
  BY <1>6, SwitchInv, DeleteSequenceInv, CrashInv, StutterInv
<1>7. QED
  BY <1>1, <1>2, <1>3, <1>4, <1>5, <1>6, NextCases

\* No step leaves the invariant: what the batches hold, the order of the steps
\* and what is left of a deleted sequence (processDue, enroll, deleteSequence).
THEOREM Inductive == IInv /\ [Next]_vars => IInv'
BY Steps

LEMMA Invariant == Spec => []IInv
<1>1. Init => IInv
  BY InitInv
<1>2. IInv /\ [Next]_vars => IInv'
  BY Inductive
<1>3. QED
  BY <1>1, <1>2, PTL DEF Spec

\* Every state has the types that the tables of the sequences and their
\* enrolments give it, and an active enrolment's step exists (db.js, enroll).
THEOREM TypeCorrect == Spec => []TypeOK
<1>1. Init => TornOK
  BY DEF Init, TornOK
<1>2. IInv /\ TornOK /\ [Next]_vars => TornOK'
  <2> SUFFICES ASSUME IInv, TornOK, [Next]_vars PROVE TornOK'
    OBVIOUS
  <2>1. \A b \in Batches : Torn(b) \subseteq Enrolls
    BY MailingFacts DEF Torn
  <2>2. CASE \E b \in Batches : MailFailed(b)
    BY <2>1, <2>2 DEF MailFailed, TornOK
  <2>3. CASE \E b \in Batches, open \in BOOLEAN : BatchStarts(b, open)
    BY <2>3 DEF BatchStarts, Due, Active, TornOK
  <2>4. CASE Crash
    BY <2>1, <2>4 DEF Crash, TornOK
  <2>5. CASE torn' = torn
    BY <2>5 DEF TornOK
  <2>6. QED
    BY <2>2, <2>3, <2>4, <2>5, TornCases
<1>3. IInv /\ TornOK => TypeOK
  BY DEF IInv, Typed, TornOK, TypeOK
<1>4. QED
  BY <1>1, <1>2, <1>3, Invariant, PTL DEF Spec

\* A contact runs through the sequence once at a time, whatever overlaps
\* (enroll, advanceEnrollment).
THEOREM OneActiveAtATime == Spec => []OneActive
<1>1. Init => OneActive
  <2>1. Init => \A e \in Enrolls : enr[e].status = "none"
    BY DEF Init, NoEnr
  <2>2. QED
    BY <2>1 DEF OneActive, Active
<1>2. IInv /\ OneActive /\ [Next]_vars => OneActive'
  <2> SUFFICES ASSUME IInv, OneActive, [Next]_vars,
                      NEW e \in Enrolls, NEW f \in Enrolls, enr'[e].status = "active", enr'[f].status = "active",
                      enr'[e].contact = enr'[f].contact
               PROVE  e = f
    BY DEF OneActive, Active
  <2>1. CASE RowsKeep
    BY <2>1 DEF RowsKeep, OneActive, Active
  <2>2. ASSUME NEW c \in Contacts, Enroll(c) PROVE e = f
    <3>1. PICK g \in Enrolls :
            enr' = [enr EXCEPT ![g] = [contact |-> c, status |-> "active", index |-> 0, next |-> "later"]]
      BY <2>2 DEF Enroll
    <3>2. \A h \in Enrolls : enr[h].status = "active" => enr[h].contact # c
      BY <2>2 DEF Enroll, Active
    <3>3. enr'[g].contact = c /\ \A h \in Enrolls \ {g} : enr'[h] = enr[h]
      <4>1. enr \in [Enrolls -> Rows]
        BY FollowsItself
      <4>2. QED
        BY <3>1, <4>1
    <3>4. QED
      BY <3>2, <3>3 DEF OneActive, Active
  <2>3. QED
    BY <2>1, <2>2, Steps
<1>3. QED
  BY <1>1, <1>2, Invariant, PTL DEF Spec

\* Consent is looked at for each message when its turn comes (processDue,
\* canMailContact).
THEOREM ConsentKept == Spec => ConsentHolds
<1>1. ASSUME IInv, [Next]_vars, NEW b \in Batches, Mails(b)
      PROVE  enr[batch'[b].copy.enr].contact \in consent
  <2>1. batch[b].at # "mailing" /\ batch'[b].at = "mailing" /\ batch \in [Batches -> BatchType]
    BY <1>1, TypeParts DEF Mails, IInv, BatchesOK
  <2>2. ASSUME NEW c \in Batches, NEW todo \in Seq(Todo), NEW open \in BOOLEAN,
               \A i \in DOMAIN todo : Enrolled(todo[i].enr), Runs(c, todo, open)
        PROVE  enr[batch'[b].copy.enr].contact \in consent
    <3> DEFINE end == Loop(todo, open)
    <3>1. /\ end \in Accs /\ Kept(end)
          /\ batch' = [batch EXCEPT ![c] =
               IF end.copy = NoCopy THEN Idle
               ELSE [at |-> "mailing", todo |-> end.todo, copy |-> end.copy, arrived |-> FALSE]]
      BY <1>1, <2>2, RunsEffect
    <3> HIDE DEF end
    <3>2. c = b
      BY <2>1, <3>1
    <3>3. end.copy # NoCopy /\ batch'[b].copy = end.copy
      BY <2>1, <3>1, <3>2 DEF Idle
    <3>4. QED
      BY <3>1, <3>3 DEF Kept, Picked
  <2>3. ASSUME NEW c \in Batches, NEW open \in BOOLEAN, BatchStarts(c, open)
        PROVE  enr[batch'[b].copy.enr].contact \in consent
    <3>1. PICK order \in SetToSeqs(Due) : Runs(c, [i \in DOMAIN order |-> CopyOf(order[i])], open)
      BY <2>3 DEF BatchStarts
    <3> DEFINE todo == [i \in DOMAIN order |-> CopyOf(order[i])]
    <3>2. todo \in Seq(Todo) /\ (\A i \in DOMAIN todo : Enrolled(todo[i].enr)) /\ Runs(c, todo, open)
      BY <1>1, <3>1, DueCopies
    <3> HIDE DEF todo
    <3>3. QED
      BY <3>2, <2>2
  <2>4. ASSUME NEW c \in Batches, NEW open \in BOOLEAN, BatchGoesOn(c, open)
        PROVE  enr[batch'[b].copy.enr].contact \in consent
    <3>1. /\ batch[c].todo \in Seq(Todo) /\ \A i \in DOMAIN batch[c].todo : Enrolled(batch[c].todo[i].enr)
          /\ Runs(c, batch[c].todo, open)
      BY <1>1, <2>4 DEF IInv, BatchOK, BatchGoesOn
    <3>2. QED
      BY <3>1, <2>2
  <2>5. ASSUME NEW c \in Batches, MailArrives(c) \/ MailAccepted(c) \/ MailFailed(c) PROVE FALSE
    <3>1. CASE MailArrives(c)
      BY <2>1, <3>1 DEF MailArrives
    <3>2. CASE MailAccepted(c) \/ MailFailed(c)
      BY <2>1, <3>2 DEF MailAccepted, MailFailed, Answered
    <3>3. QED
      BY <2>5, <3>1, <3>2
  <2>6. ~Crash
    BY <2>1 DEF Crash, Idle
  <2>7. batch' # batch
    BY <2>1
  <2>8. ~\E c \in Contacts : Enroll(c) \/ Unsubscribe(c) \/ SetConsent(c)
    BY <2>7 DEF Enroll, Unsubscribe, SetConsent
  <2>9. ~\E e \in Enrolls : Cancel(e) \/ DayComes(e)
    BY <2>7 DEF Cancel, DayComes
  <2>10. ~(AddStep \/ \E s \in StepIds : DeleteStep(s) \/ UpdateStep(s))
    BY <2>7 DEF AddStep, DeleteStep, UpdateStep
  <2>11. ~(Switch \/ DeleteSequence \/ UNCHANGED vars)
    BY <2>7 DEF Switch, DeleteSequence, vars
  <2>12. QED
    BY <1>1, <2>3, <2>4, <2>5, <2>6, <2>8, <2>9, <2>10, <2>11, NextCases
<1>2. IInv /\ [Next]_vars => [\A b \in Batches : Mails(b) => enr[batch'[b].copy.enr].contact \in consent]_vars
  BY <1>1
<1>3. QED
  BY <1>2, Invariant, PTL DEF Spec, ConsentHolds

-----------------------------------------------------------------------------
(* No step is jumped over, as long as no step is deleted or blanked. *)

\* What is behind stays behind.
LEMMA BehindStays ==
  ASSUME IInv, IInv', steps' = steps, blank' = blank, NEW e \in Enrolls, owed'[e] = owed[e],
         \A s \in StepIds : mails[<<e, s>>] > 0 => mails'[<<e, s>>] > 0
  PROVE  /\ \A k : Behind(e, k) => Behind(e, k)'
         /\ AllBehind(e) => AllBehind(e)'
<1>1. steps \in Seq(StepIds) /\ owed[e] \subseteq StepIds
  BY TypeParts DEF IInv, StepsOK, MailsType
<1>2. \A j \in DOMAIN steps : steps[j] \in StepIds
  BY <1>1
<1>3. QED
  BY <1>1, <1>2 DEF Behind, AllBehind

\* Behind all the steps there are, all that are owed are behind.
LEMMA Finished ==
  ASSUME Typed, NEW e \in Enrolls, NEW k \in Nat, Behind(e, k), owed[e] \subseteq ToSet(steps), k >= Len(steps)
  PROVE  AllBehind(e)
<1> SUFFICES ASSUME NEW s \in owed[e] \ blank PROVE mails[<<e, s>>] > 0
  BY DEF AllBehind
<1>1. PICK j \in DOMAIN steps : steps[j] = s
  BY DEF ToSet
<1>2. j <= k
  BY <1>1, Facts
<1>3. QED
  BY <1>1, <1>2 DEF Behind

\* One more step behind.
LEMMA OneMore ==
  ASSUME Typed, NEW e \in Enrolls, NEW k \in Nat, Behind(e, k), k < Len(steps),
         steps[k + 1] \in blank \/ mails[<<e, steps[k + 1]>>] > 0
  PROVE  Behind(e, k + 1)
<1> SUFFICES ASSUME NEW j \in DOMAIN steps, j <= k + 1, steps[j] \in owed[e] \ blank
             PROVE  mails[<<e, steps[j]>>] > 0
  BY DEF Behind
<1>1. j <= k \/ j = k + 1
  BY Facts
<1>2. QED
  BY <1>1 DEF Behind

\* The loop keeps it: of the state of a loop, what SkipRows and SkipBatch say.
SkipKept(acc) ==
  /\ \A e \in Enrolls : Behind(e, acc.enr[e].index) /\ (acc.enr[e].status = "completed" => AllBehind(e))
  /\ SkipTodo(acc.todo)
  /\ acc.copy # NoCopy => Behind(acc.copy.enr, acc.copy.index)

\* A row advanced by a copy whose step is behind, too.
LEMMA AdvancedSkips ==
  ASSUME IInv, NEW rows \in [Enrolls -> Rows], NEW copy, copy.enr \in Enrolls, copy.index \in Nat,
         Len(copy.steps) \in Nat, Len(copy.steps) <= Cardinality(StepIds), copy.index < Len(copy.steps),
         \A e \in Enrolls : Behind(e, rows[e].index) /\ (rows[e].status = "completed" => AllBehind(e)),
         Behind(copy.enr, copy.index + 1),
         copy.index + 1 >= Len(copy.steps) => AllBehind(copy.enr)
  PROVE  \A e \in Enrolls : /\ Behind(e, Advanced(rows, copy)[e].index)
                            /\ Advanced(rows, copy)[e].status = "completed" => AllBehind(e)
<1> DEFINE e == copy.enr
           i == copy.index + 1
           n == Len(copy.steps)
           row == rows[e]
           new == StepSet(row, i, n)
<1>1. /\ e \in Enrolls /\ i \in Nat /\ n \in Nat /\ i <= n /\ n <= Cardinality(StepIds)
      /\ Cardinality(StepIds) \in Nat /\ row \in Rows
  <2>1. Cardinality(StepIds) \in Nat
    BY SequencesAssumption, FS_CardinalityType
  <2>2. i \in Nat /\ n \in Nat /\ i <= n
    OBVIOUS
  <2>3. QED
    BY <2>1, <2>2
<1>2. /\ \A f \in Enrolls \ {e} : Advanced(rows, copy)[f] = rows[f]
      /\ Advanced(rows, copy)[e] = new
  BY AdvancedRow
<1> HIDE DEF e, i, n, row
<1>3. /\ row.status = "gone" => new = row
      /\ row.status # "gone" => new.index = i
      /\ new.status = "completed" => row.status = "completed" \/ i >= n
  BY <1>1, StepSetType, SMTT(30)
<1> HIDE DEF new
<1>4. Behind(e, new.index) /\ (new.status = "completed" => AllBehind(e))
  BY <1>1, <1>3 DEF e, i, n, row
<1>5. QED
  BY <1>2, <1>4 DEF e

LEMMA VisitSkips ==
  ASSUME IInv, SkipRows, NEW acc \in Accs, SkipKept(acc), NEW c \in Todo, Behind(c.enr, c.index),
         NEW open \in BOOLEAN
  PROVE  SkipKept(Visit(acc, c, open))
<1> DEFINE e == c.enr
           copy == [c EXCEPT !.steps = steps]
<1>1. /\ e \in Enrolls /\ c.index \in Nat /\ acc.enr \in [Enrolls -> Rows] /\ acc.todo \in Seq(Todo)
      /\ copy.enr = e /\ copy.index = c.index /\ copy.steps = steps
  BY DEF Todo, Accs
<1>2. /\ Len(steps) \in Nat /\ Len(steps) <= Cardinality(StepIds) /\ steps \in Seq(StepIds) /\ Typed
      /\ owed[e] \subseteq ToSet(steps)
  BY <1>1, Facts, LengthBound DEF IInv, SkipRows
<1>3. \A f \in Enrolls : Behind(f, acc.enr[f].index) /\ (acc.enr[f].status = "completed" => AllBehind(f))
  BY DEF SkipKept
<1>4. ASSUME NEW status \in {"cancelled", "completed"}, status = "completed" => AllBehind(e)
      PROVE  \A f \in Enrolls : /\ Behind(f, Ended(acc.enr, e, status)[f].index)
                                /\ Ended(acc.enr, e, status)[f].status = "completed" => AllBehind(f)
  <2> DEFINE rows == Ended(acc.enr, e, status)
  <2>1. /\ \A f \in Enrolls \ {e} : rows[f] = acc.enr[f]
        /\ rows[e].contact = acc.enr[e].contact /\ rows[e].index = acc.enr[e].index
        /\ rows[e].status = IF acc.enr[e].status = "active" THEN status ELSE acc.enr[e].status
    BY <1>1, EndedType
  <2> HIDE DEF rows
  <2>2. QED
    BY <1>1, <1>3, <1>4, <2>1 DEF rows
<1>5. c.index >= Len(steps) => AllBehind(e)
  BY <1>1, <1>2, Finished
<1>6. ASSUME c.index < Len(steps), steps[c.index + 1] \in blank
      PROVE  \A f \in Enrolls : /\ Behind(f, Advanced(acc.enr, copy)[f].index)
                                /\ Advanced(acc.enr, copy)[f].status = "completed" => AllBehind(f)
  <2>1. Behind(e, c.index + 1)
    BY <1>1, <1>2, <1>6, OneMore
  <2>2. c.index + 1 >= Len(steps) => AllBehind(e)
    BY <1>1, <1>2, <2>1, Finished
  <2> HIDE DEF copy, e
  <2>3. QED
    BY <1>1, <1>2, <1>3, <1>6, <2>1, <2>2, AdvancedSkips
<1>7. SkipTodo(acc.todo) /\ SkipTodo(Append(acc.todo, c))
  BY <1>1 DEF SkipKept, SkipTodo
<1> DEFINE new == Visit(acc, c, open)
<1>8. CASE new = [acc EXCEPT !.todo = Append(acc.todo, c)]
  BY <1>8, <1>7 DEF SkipKept, Accs
<1>9. CASE new = [acc EXCEPT !.enr = Ended(acc.enr, e, "cancelled")]
  BY <1>9, <1>4 DEF SkipKept, Accs
<1>10. CASE c.index >= Len(steps) /\ new = [acc EXCEPT !.enr = Ended(acc.enr, e, "completed")]
  BY <1>10, <1>4, <1>5 DEF SkipKept, Accs
<1>11. CASE /\ c.index < Len(steps) /\ steps[c.index + 1] \in blank
            /\ new = [acc EXCEPT !.enr = Advanced(acc.enr, copy)]
  BY <1>11, <1>6 DEF SkipKept, Accs
<1>12. CASE new = [acc EXCEPT !.full = TRUE]
  BY <1>12 DEF SkipKept, Accs
<1>13. CASE new = [acc EXCEPT !.copy = copy]
  BY <1>13, <1>1 DEF SkipKept, Accs
<1>14. QED
  BY <1>2, <1>8, <1>9, <1>10, <1>11, <1>12, <1>13, VisitCases

LEMMA LoopSkips ==
  ASSUME IInv, SkipRows, NEW todo \in Seq(Todo), NEW open \in BOOLEAN, SkipTodo(todo)
  PROVE  SkipKept(Loop(todo, open))
<1> DEFINE K == {acc \in Accs : SkipKept(acc)}
           W == [k \in 0 .. Len(todo) |-> K]
<1>1. Start \in K
  <2>1. \A i \in DOMAIN Start.todo : FALSE
    <3> DEFINE q == Start.todo
    <3>1. q = <<>>
      BY StartType DEF IInv
    <3>2. \A i \in DOMAIN q : FALSE
      BY <3>1
    <3>3. QED
      BY <3>2
  <2>2. QED
    BY <2>1, StartType DEF IInv, SkipKept, SkipRows, SkipTodo
<1>2. \A k \in 1 .. Len(todo) : todo[k] \in Todo /\ Behind(todo[k].enr, todo[k].index)
  BY DEF SkipTodo
<1>3. Len(todo) \in Nat /\ 0 \in 0 .. Len(todo) /\ Len(todo) \in 0 .. Len(todo)
      /\ \A k \in 1 .. Len(todo) : k \in 0 .. Len(todo) /\ k - 1 \in 0 .. Len(todo)
  OBVIOUS
<1>4. ASSUME NEW k \in 1 .. Len(todo), NEW acc \in Accs, acc \in K PROVE Visit(acc, todo[k], open) \in K
  BY <1>2, <1>4, VisitSkips, VisitType DEF IInv
<1> HIDE DEF K
<1>5. /\ Start \in W[0]
      /\ \A k \in 1 .. Len(todo) : \A acc \in Accs : acc \in W[k - 1] => Visit(acc, todo[k], open) \in W[k]
  BY <1>1, <1>3, <1>4
<1>6. Loop(todo, open) \in Accs /\ Loop(todo, open) \in W[Len(todo)]
  <2> HIDE DEF W
  <2>1. QED
    BY <1>5, LoopInduction DEF IInv
<1>7. QED
  BY <1>3, <1>6 DEF K

\* A copy stays what it was while the sequence only grows at its end.
LEMMA CopyStays ==
  ASSUME IInv, IInv', steps' = steps, blank' = blank, NEW copy \in Copies, copy.enr \in Enrolls,
         owed'[copy.enr] = owed[copy.enr], copy.index + 1 \in DOMAIN copy.steps,
         \A s \in StepIds : mails[<<copy.enr, s>>] > 0 => mails'[<<copy.enr, s>>] > 0,
         NEW arrived \in BOOLEAN, SkipCopy(copy, arrived)
  PROVE  SkipCopy(copy, arrived)'
<1>1. copy.steps \in Seq(StepIds)
  BY DEF Copies
<1>2. copy.steps[copy.index + 1] \in StepIds
  BY <1>1
<1>3. Behind(copy.enr, copy.index)'
  BY BehindStays DEF SkipCopy
<1>4. Prefix(copy.steps)' /\ (owed[copy.enr] \subseteq ToSet(copy.steps))'
  BY DEF SkipCopy, Prefix
<1>5. QED
  BY <1>2, <1>3, <1>4 DEF SkipCopy

\* The types that the lemmas ask of a batch's copies.
LEMMA BatchFacts ==
  ASSUME IInv, NEW b \in Batches
  PROVE  /\ batch[b].todo \in Seq(Todo)
         /\ \A i \in DOMAIN batch[b].todo : batch[b].todo[i].enr \in Enrolls /\ Enrolled(batch[b].todo[i].enr)
         /\ batch[b].copy \in Copies /\ batch[b].arrived \in BOOLEAN
         /\ batch[b].at = "mailing" => /\ batch[b].copy.enr \in Enrolls /\ Enrolled(batch[b].copy.enr)
                                       /\ batch[b].copy.index + 1 \in DOMAIN batch[b].copy.steps
<1>1. batch \in [Batches -> BatchType] /\ BatchOK(b)
  BY TypeParts DEF IInv, BatchesOK
<1>2. batch[b] \in BatchType
  BY <1>1
<1>3. batch[b].todo \in Seq(Todo) /\ batch[b].copy \in Copies /\ batch[b].arrived \in BOOLEAN
  BY <1>1, <1>2 DEF BatchOK, BatchType
<1>4. \A i \in DOMAIN batch[b].todo : batch[b].todo[i].enr \in Enrolls /\ Enrolled(batch[b].todo[i].enr)
  BY <1>1, <1>3, TodoFacts DEF BatchOK
<1>5. batch[b].at = "mailing" => /\ batch[b].copy.enr \in Enrolls /\ Enrolled(batch[b].copy.enr)
                                 /\ batch[b].copy.index + 1 \in DOMAIN batch[b].copy.steps
  BY MailingFacts
<1>6. QED
  BY <1>3, <1>4, <1>5

\* A batch that does not move, at a step that mails no less and owes it no more.
LEMMA BatchSkips ==
  ASSUME IInv, IInv', steps' = steps, blank' = blank, NEW b \in Batches, batch'[b] = batch[b],
         \A e \in Enrolls : Enrolled(e) => owed'[e] = owed[e],
         \A e \in Enrolls, s \in StepIds : mails[<<e, s>>] > 0 => mails'[<<e, s>>] > 0,
         SkipBatch(b)
  PROVE  SkipBatch(b)'
<1>1. SkipTodo(batch[b].todo)'
  BY BatchFacts, BehindStays DEF SkipBatch, SkipTodo
<1>2. ASSUME batch[b].at = "mailing" PROVE SkipCopy(batch[b].copy, batch[b].arrived)'
  <2> DEFINE copy == batch[b].copy
             arrived == batch[b].arrived
  <2>1. copy \in Copies /\ copy.enr \in Enrolls /\ arrived \in BOOLEAN /\ copy.index + 1 \in DOMAIN copy.steps
        /\ owed'[copy.enr] = owed[copy.enr]
    BY <1>2, BatchFacts
  <2>2. SkipCopy(copy, arrived)
    BY <1>2 DEF SkipBatch
  <2>3. PICK c, a : c = copy /\ a = arrived
    OBVIOUS
  <2> HIDE DEF copy, arrived
  <2>4. SkipCopy(c, a)'
    BY <2>1, <2>2, <2>3, CopyStays
  <2>5. copy' = copy /\ arrived' = arrived
    BY DEF copy, arrived
  <2>6. SkipCopy(copy, arrived)'
    BY <2>3, <2>4, <2>5
  <2>7. QED
    BY <2>6 DEF copy, arrived
<1>3. QED
  BY <1>1, <1>2 DEF SkipBatch

\* Nothing of what SkipInv is about changes, but rows that keep their index.
LEMMA RowsSkip ==
  ASSUME IInv, IInv', SkipInv, sequence' = "gone" <=> sequence = "gone", UNCHANGED <<steps, blank, mails, owed>>,
         \A e \in Enrolls : enr'[e].index = enr[e].index
                            /\ (enr'[e].status = "completed" => enr[e].status = "completed"),
         \A b \in Batches : batch'[b] = batch[b] \/ (batch'[b].at # "mailing" /\ batch'[b].todo = batch[b].todo)
                                                 \/ (batch'[b].at # "mailing" /\ batch'[b].todo = <<>>)
  PROVE  SkipInv'
<1> SUFFICES ASSUME sequence # "gone" PROVE SkipRows' /\ \A b \in Batches : SkipBatch(b)'
  BY DEF SkipInv
<1>1. SkipRows /\ \A b \in Batches : SkipBatch(b)
  BY DEF SkipInv
<1>2. ASSUME NEW e \in Enrolls
      PROVE  (owed[e] \subseteq ToSet(steps))' /\ Behind(e, enr[e].index)'
             /\ (enr[e].status = "completed" => AllBehind(e))'
  <2>1. (\A k : Behind(e, k) => Behind(e, k)') /\ (AllBehind(e) => AllBehind(e)')
    BY BehindStays
  <2>2. PICK k : k = enr[e].index
    OBVIOUS
  <2>3. Behind(e, k)' /\ k = enr'[e].index
    BY <1>1, <2>1, <2>2 DEF SkipRows
  <2>4. Behind(e, enr[e].index)'
    BY <2>3
  <2>5. QED
    BY <1>1, <2>1, <2>4 DEF SkipRows
<1>3. SkipRows'
  BY <1>2 DEF SkipRows
<1>4. ASSUME NEW b \in Batches PROVE SkipBatch(b)'
  <2>1. CASE batch'[b] = batch[b]
    BY <1>1, <2>1, BatchSkips
  <2>2. CASE batch'[b].at # "mailing" /\ batch'[b].todo = batch[b].todo
    <3>1. SkipTodo(batch[b].todo)'
      BY <1>1, <2>2, BatchFacts, BehindStays DEF SkipBatch, SkipTodo
    <3>2. QED
      BY <2>2, <3>1 DEF SkipBatch
  <2>3. CASE batch'[b].at # "mailing" /\ batch'[b].todo = <<>>
    <3> DEFINE q == batch'[b].todo
    <3>1. q = <<>>
      BY <2>3
    <3>2. \A i \in DOMAIN q : FALSE
      BY <3>1
    <3>3. QED
      BY <2>3, <3>2 DEF SkipBatch, SkipTodo
  <2>4. QED
    BY <2>1, <2>2, <2>3
<1>5. QED
  BY <1>3, <1>4

LEMMA RowActionsSkip ==
  ASSUME IInv, IInv', SkipInv,
         \/ \E c \in Contacts : Unsubscribe(c) \/ SetConsent(c)
         \/ \E e \in Enrolls : Cancel(e) \/ DayComes(e)
         \/ \E b \in Batches : MailFailed(b)
         \/ Switch \/ Crash \/ UNCHANGED vars
  PROVE  SkipInv'
<1>1. ASSUME NEW c \in Contacts, Unsubscribe(c) PROVE SkipInv'
  <2>1. ASSUME NEW e \in Enrolls
        PROVE  enr'[e].index = enr[e].index /\ (enr'[e].status = "completed" => enr[e].status = "completed")
    <3>1. enr'[e] = IF enr[e].contact = c THEN Ended(enr, e, "cancelled")[e] ELSE enr[e]
      BY <1>1 DEF Unsubscribe
    <3>2. /\ Ended(enr, e, "cancelled")[e].index = enr[e].index
          /\ Ended(enr, e, "cancelled")[e].status = IF enr[e].status = "active" THEN "cancelled" ELSE enr[e].status
      BY FollowsItself, EndedType
    <3>3. QED
      BY <3>1, <3>2
  <2>2. QED
    BY <1>1, <2>1, RowsSkip DEF Unsubscribe
<1>2. ASSUME NEW e \in Enrolls, Cancel(e) PROVE SkipInv'
  <2>1. /\ \A f \in Enrolls \ {e} : Ended(enr, e, "cancelled")[f] = enr[f]
        /\ Ended(enr, e, "cancelled")[e].index = enr[e].index
        /\ Ended(enr, e, "cancelled")[e].status = IF enr[e].status = "active" THEN "cancelled" ELSE enr[e].status
    BY FollowsItself, EndedType
  <2>2. \A f \in Enrolls : enr'[f].index = enr[f].index
                           /\ (enr'[f].status = "completed" => enr[f].status = "completed")
    BY <1>2, <2>1 DEF Cancel
  <2>3. QED
    BY <1>2, <2>2, RowsSkip DEF Cancel
<1>3. ASSUME NEW e \in Enrolls, DayComes(e) PROVE SkipInv'
  <2>1. \A f \in Enrolls : enr'[f].index = enr[f].index
                           /\ (enr'[f].status = "completed" => enr[f].status = "completed")
    BY <1>3, FollowsItself DEF DayComes, Rows
  <2>2. QED
    BY <1>3, <2>1, RowsSkip DEF DayComes
<1>4. ASSUME NEW b \in Batches, MailFailed(b) PROVE SkipInv'
  <2>1. \A f \in Enrolls : enr'[f].index = enr[f].index
                           /\ (enr'[f].status = "completed" => enr[f].status = "completed")
    BY <1>4, FollowsItself DEF MailFailed, Rows
  <2>2. batch \in [Batches -> BatchType]
    BY <1>4, MailingFacts DEF MailFailed
  <2>3. batch' = [batch EXCEPT ![b] = [batch[b] EXCEPT !.at = "gap", !.copy = NoCopy, !.arrived = FALSE]]
    BY <1>4 DEF MailFailed, Answered
  <2>4. /\ batch'[b].at = "gap" /\ batch'[b].todo = batch[b].todo
        /\ \A c \in Batches \ {b} : batch'[c] = batch[c]
    BY <2>2, <2>3 DEF BatchType
  <2>5. QED
    BY <1>4, <2>1, <2>4, RowsSkip DEF MailFailed
<1>5. CASE Crash
  <2>1. \A b \in Batches : batch'[b].at # "mailing" /\ batch'[b].todo = <<>>
    BY <1>5 DEF Crash, Idle
  <2>2. QED
    BY <1>5, <2>1, RowsSkip DEF Crash
<1>6. CASE Switch
  BY <1>6, RowsSkip DEF Switch
<1>7. CASE UNCHANGED vars
  BY <1>7, RowsSkip DEF vars
<1>8. ASSUME NEW c \in Contacts, SetConsent(c) PROVE SkipInv'
  BY <1>8, RowsSkip DEF SetConsent
<1>9. QED
  BY <1>1, <1>2, <1>3, <1>4, <1>5, <1>6, <1>7, <1>8

LEMMA EnrollSkips == ASSUME IInv, IInv', SkipInv, NEW c \in Contacts, Enroll(c) PROVE SkipInv'
<1> SUFFICES ASSUME sequence # "gone" PROVE SkipRows' /\ \A b \in Batches : SkipBatch(b)'
  BY DEF SkipInv, Enroll
<1>1. SkipRows /\ \A b \in Batches : SkipBatch(b)
  BY DEF SkipInv
<1>2. PICK g \in Enrolls :
        /\ enr[g].status = "none"
        /\ enr' = [enr EXCEPT ![g] = [contact |-> c, status |-> "active", index |-> 0, next |-> "later"]]
        /\ owed' = [owed EXCEPT ![g] = ToSet(steps)]
  BY DEF Enroll
<1>3. /\ enr'[g].index = 0 /\ enr'[g].status = "active" /\ owed'[g] = ToSet(steps)
      /\ \A e \in Enrolls \ {g} : enr'[e] = enr[e] /\ owed'[e] = owed[e]
  <2>1. enr \in [Enrolls -> Rows] /\ owed \in [Enrolls -> SUBSET StepIds]
    BY TypeParts DEF IInv, EnrType, MailsType
  <2>2. QED
    BY <1>2, <2>1
<1>4. UNCHANGED <<steps, blank, mails, batch, sequence>>
  BY DEF Enroll
<1>5. ASSUME NEW e \in Enrolls
      PROVE  (owed[e] \subseteq ToSet(steps))' /\ Behind(e, enr[e].index)'
             /\ (enr[e].status = "completed" => AllBehind(e))'
  <2>1. CASE e = g
    <3>1. \A j \in DOMAIN steps : ~(j <= 0)
      BY Facts DEF IInv
    <3>2. Behind(e, enr[e].index)'
      BY <1>3, <1>4, <2>1, <3>1 DEF Behind
    <3>3. QED
      BY <1>3, <1>4, <2>1, <3>2
  <2>2. CASE e # g
    <3>1. (\A k : Behind(e, k) => Behind(e, k)') /\ (AllBehind(e) => AllBehind(e)')
      BY <1>3, <1>4, <2>2, BehindStays
    <3>2. PICK k : k = enr[e].index
      OBVIOUS
    <3>3. Behind(e, k)' /\ k = enr'[e].index
      BY <1>1, <1>3, <2>2, <3>1, <3>2 DEF SkipRows
    <3>4. Behind(e, enr[e].index)'
      BY <3>3
    <3>5. QED
      BY <1>1, <1>3, <1>4, <2>2, <3>1, <3>4 DEF SkipRows
  <2>3. QED
    BY <2>1, <2>2
<1>6. SkipRows'
  BY <1>5 DEF SkipRows
<1>7. ASSUME NEW b \in Batches PROVE SkipBatch(b)'
  <2>1. \A e \in Enrolls : Enrolled(e) => owed'[e] = owed[e]
    BY <1>2, <1>3 DEF Enrolled
  <2>2. QED
    BY <1>1, <1>4, <2>1, BatchSkips
<1>8. QED
  BY <1>6, <1>7

LEMMA MailArrivesSkips == ASSUME IInv, IInv', SkipInv, NEW b \in Batches, MailArrives(b) PROVE SkipInv'
<1> SUFFICES ASSUME sequence # "gone" PROVE SkipRows' /\ \A c \in Batches : SkipBatch(c)'
  BY DEF SkipInv, MailArrives
<1>1. SkipRows /\ \A c \in Batches : SkipBatch(c)
  BY DEF SkipInv
<1>2. /\ batch[b].at = "mailing" /\ mails' = [mails EXCEPT ![Mailing(b)] = @ + 1]
      /\ batch' = [batch EXCEPT ![b].arrived = TRUE] /\ UNCHANGED <<steps, blank, owed, enr>>
  BY DEF MailArrives, Mailing
<1>3. mails \in [Enrolls \X StepIds -> Nat] /\ Mailing(b) \in Enrolls \X StepIds /\ batch \in [Batches -> BatchType]
  BY <1>2, MailingFacts, TypeParts DEF IInv, MailsType
<1>4. mails'[Mailing(b)] > 0 /\ \A e \in Enrolls, s \in StepIds : mails[<<e, s>>] > 0 => mails'[<<e, s>>] > 0
  <2>1. mails[Mailing(b)] \in Nat
    BY <1>3
  <2>2. mails'[Mailing(b)] = mails[Mailing(b)] + 1
    BY <1>2, <1>3
  <2>3. mails'[Mailing(b)] > 0
    BY <2>1, <2>2
  <2>4. ASSUME NEW e \in Enrolls, NEW s \in StepIds, mails[<<e, s>>] > 0 PROVE mails'[<<e, s>>] > 0
    <3>1. <<e, s>> \in Enrolls \X StepIds
      OBVIOUS
    <3>2. CASE <<e, s>> = Mailing(b)
      BY <2>3, <3>2
    <3>3. CASE <<e, s>> # Mailing(b)
      <4> DEFINE p == <<e, s>>
                 q == Mailing(b)
      <4>1. p \in Enrolls \X StepIds /\ p # q
        BY <3>1, <3>3
      <4> HIDE DEF p, q
      <4>2. mails'[p] = mails[p]
        BY <1>2, <1>3, <4>1 DEF q
      <4>3. QED
        BY <2>4, <4>2 DEF p
    <3>4. QED
      BY <3>2, <3>3
  <2>5. QED
    BY <2>3, <2>4
<1>5. ASSUME NEW e \in Enrolls
      PROVE  (owed[e] \subseteq ToSet(steps))' /\ Behind(e, enr[e].index)'
             /\ (enr[e].status = "completed" => AllBehind(e))'
  <2>1. (\A k : Behind(e, k) => Behind(e, k)') /\ (AllBehind(e) => AllBehind(e)')
    BY <1>2, <1>4, BehindStays
  <2>2. PICK k : k = enr[e].index
    OBVIOUS
  <2>3. Behind(e, k)' /\ k = enr'[e].index
    BY <1>1, <1>2, <2>1, <2>2 DEF SkipRows
  <2>4. Behind(e, enr[e].index)'
    BY <2>3
  <2>5. QED
    BY <1>1, <1>2, <2>1, <2>4 DEF SkipRows
<1>6. SkipRows'
  BY <1>5 DEF SkipRows
<1>7. ASSUME NEW c \in Batches, c # b PROVE SkipBatch(c)'
  BY <1>1, <1>2, <1>3, <1>4, <1>7, BatchSkips
<1>8. SkipBatch(b)'
  <2>1. /\ batch'[b].at = "mailing" /\ batch'[b].todo = batch[b].todo /\ batch'[b].copy = batch[b].copy
        /\ batch'[b].arrived = TRUE
    BY <1>2, <1>3 DEF BatchType
  <2>2. SkipTodo(batch[b].todo)'
    BY <1>1, <1>2, <1>4, <2>1, BatchFacts, BehindStays DEF SkipBatch, SkipTodo
  <2> DEFINE copy == batch[b].copy
  <2>3. copy \in Copies /\ copy.enr \in Enrolls /\ copy.index + 1 \in DOMAIN copy.steps
    BY <1>2, BatchFacts
  <2>4. SkipCopy(copy, FALSE)
    BY <1>1, <1>2 DEF SkipBatch, SkipCopy
  <2>5. PICK c : c = copy
    OBVIOUS
  <2> HIDE DEF copy
  <2>6. SkipCopy(c, FALSE)'
    BY <1>2, <1>4, <2>3, <2>4, <2>5, CopyStays
  <2>7. mails'[<<c.enr, c.steps[c.index + 1]>>] > 0
    BY <1>4, <2>5 DEF Mailing, copy
  <2>8. SkipCopy(c, TRUE)'
    BY <2>6, <2>7 DEF SkipCopy
  <2>9. copy' = c /\ batch'[b].arrived = TRUE
    BY <2>1, <2>5 DEF copy
  <2>10. SkipCopy(copy, batch[b].arrived)'
    BY <2>8, <2>9
  <2>11. SkipTodo(batch[b].todo)'
    BY <2>2
  <2>12. QED
    BY <2>10, <2>11 DEF SkipBatch, copy
<1>9. QED
  BY <1>6, <1>7, <1>8

LEMMA AddStepSkips == ASSUME IInv, IInv', SkipInv, AddStep PROVE SkipInv'
<1> SUFFICES ASSUME sequence # "gone" PROVE SkipRows' /\ \A b \in Batches : SkipBatch(b)'
  BY DEF SkipInv, AddStep
<1>1. SkipRows /\ \A b \in Batches : SkipBatch(b)
  BY DEF SkipInv
<1>2. PICK s \in StepIds : (\A r \in made : r < s) /\ steps' = Append(steps, s)
  BY DEF AddStep
<1>3. UNCHANGED <<blank, enr, batch, mails, owed>>
  BY DEF AddStep
<1>4. steps \in Seq(StepIds) /\ StepIds \subseteq Nat /\ made \subseteq StepIds /\ ToSet(steps) \subseteq made
  BY TypeParts, SequencesAssumption DEF IInv, StepsOK
<1>5. s \notin made
  BY <1>2, <1>4
<1>6. /\ Len(steps) \in Nat /\ DOMAIN steps = 1 .. Len(steps) /\ DOMAIN steps' = 1 .. Len(steps) + 1
      /\ Len(steps') = Len(steps) + 1
      /\ \A j \in 1 .. Len(steps) : steps'[j] = steps[j]
      /\ steps'[Len(steps) + 1] = s
  BY <1>2, <1>4
<1>7. ASSUME NEW e \in Enrolls PROVE owed[e] \subseteq ToSet(steps) /\ s \notin owed[e] /\ (owed[e] \subseteq ToSet(steps))'
  <2>1. owed[e] \subseteq ToSet(steps) /\ s \notin owed[e]
    BY <1>1, <1>4, <1>5 DEF SkipRows
  <2>2. ToSet(steps) \subseteq ToSet(steps')
    BY <1>6 DEF ToSet
  <2>3. QED
    BY <1>3, <2>1, <2>2
<1>8. ASSUME NEW e \in Enrolls, NEW k, Behind(e, k) PROVE Behind(e, k)'
  <2> SUFFICES ASSUME NEW j \in DOMAIN steps', j <= k, steps'[j] \in owed[e] \ blank
               PROVE  mails[<<e, steps'[j]>>] > 0
    BY <1>3 DEF Behind
  <2>1. j # Len(steps) + 1
    BY <1>6, <1>7
  <2>2. j \in DOMAIN steps /\ steps'[j] = steps[j]
    BY <1>6, <2>1
  <2>3. QED
    BY <1>8, <2>2 DEF Behind
<1>9. ASSUME NEW e \in Enrolls
      PROVE  Behind(e, enr[e].index)' /\ (enr[e].status = "completed" => AllBehind(e))'
  <2>1. PICK k : k = enr[e].index
    OBVIOUS
  <2>2. Behind(e, k)' /\ k = enr'[e].index
    BY <1>1, <1>3, <1>8, <2>1 DEF SkipRows
  <2>3. Behind(e, enr[e].index)'
    BY <2>2
  <2>4. AllBehind(e) => AllBehind(e)'
    BY <1>3 DEF AllBehind
  <2>5. QED
    BY <1>1, <1>3, <2>3, <2>4 DEF SkipRows
<1>10. SkipRows'
  BY <1>7, <1>9 DEF SkipRows
<1>11. ASSUME NEW b \in Batches PROVE SkipBatch(b)'
  <2>1. SkipTodo(batch[b].todo)'
    BY <1>1, <1>3, <1>8, BatchFacts DEF SkipBatch, SkipTodo
  <2>2. ASSUME batch[b].at = "mailing" PROVE SkipCopy(batch[b].copy, batch[b].arrived)'
    <3> DEFINE copy == batch[b].copy
               arrived == batch[b].arrived
    <3>1. copy.enr \in Enrolls /\ copy.steps \in Seq(StepIds)
      BY <2>2, BatchFacts DEF Copies
    <3>2. SkipCopy(copy, arrived)
      BY <1>1, <2>2 DEF SkipBatch
    <3>3. PICK c, a : c = copy /\ a = arrived
      OBVIOUS
    <3> HIDE DEF copy, arrived
    <3>4. Behind(c.enr, c.index)'
      BY <1>8, <3>1, <3>2, <3>3 DEF SkipCopy
    <3>5. Prefix(c.steps)'
      <4>1. Len(c.steps) \in Nat /\ DOMAIN c.steps = 1 .. Len(c.steps)
        BY <3>1, <3>3
      <4>2. Len(c.steps) <= Len(steps) /\ \A j \in DOMAIN c.steps : c.steps[j] = steps[j]
        BY <3>2, <3>3 DEF SkipCopy, Prefix
      <4>3. Len(c.steps) <= Len(steps') /\ \A j \in DOMAIN c.steps : c.steps[j] = steps'[j]
        BY <1>6, <4>1, <4>2
      <4>4. QED
        BY <4>3 DEF Prefix
    <3>6. (owed[c.enr] \subseteq ToSet(c.steps))' /\ (a => mails[<<c.enr, c.steps[c.index + 1]>>] > 0)'
      BY <1>3, <3>2, <3>3 DEF SkipCopy
    <3>7. SkipCopy(c, a)'
      BY <3>4, <3>5, <3>6 DEF SkipCopy
    <3>8. copy' = c /\ arrived' = a
      BY <1>3, <3>3 DEF copy, arrived
    <3>9. SkipCopy(copy, arrived)'
      BY <3>7, <3>8
    <3>10. QED
      BY <3>9 DEF copy, arrived
  <2>3. QED
    BY <1>3, <2>1, <2>2 DEF SkipBatch
<1>12. QED
  BY <1>10, <1>11

LEMMA RunsSkips ==
  ASSUME IInv, IInv', SkipInv, NEW b \in Batches, NEW todo \in Seq(Todo), NEW open \in BOOLEAN,
         \A i \in DOMAIN todo : Enrolled(todo[i].enr), SkipRows => SkipTodo(todo), Runs(b, todo, open),
         UNCHANGED <<sequence, steps, made, blank, consent, mails, owed>>
  PROVE  SkipInv'
<1> SUFFICES ASSUME sequence # "gone" PROVE SkipRows' /\ \A c \in Batches : SkipBatch(c)'
  BY DEF SkipInv
<1>1. SkipRows /\ \A c \in Batches : SkipBatch(c)
  BY DEF SkipInv
<1> DEFINE end == Loop(todo, open)
           new == IF end.copy = NoCopy THEN Idle
                  ELSE [at |-> "mailing", todo |-> end.todo, copy |-> end.copy, arrived |-> FALSE]
<1>2. /\ end \in Accs /\ Kept(end) /\ enr' = end.enr
      /\ batch' = [batch EXCEPT ![b] = new]
  BY RunsEffect
<1>3. SkipKept(end)
  BY <1>1, LoopSkips
<1>4. PICK x : x = end
  OBVIOUS
<1> HIDE DEF end
<1>5. ASSUME NEW e \in Enrolls
      PROVE  (owed[e] \subseteq ToSet(steps))' /\ Behind(e, enr[e].index)'
             /\ (enr[e].status = "completed" => AllBehind(e))'
  <2>1. (\A k : Behind(e, k) => Behind(e, k)') /\ (AllBehind(e) => AllBehind(e)')
    BY BehindStays
  <2>2. Behind(e, x.enr[e].index)' /\ x.enr[e].index = enr'[e].index
    BY <1>2, <1>3, <1>4, <2>1 DEF SkipKept
  <2>3. Behind(e, enr[e].index)'
    BY <2>2
  <2>4. QED
    BY <1>1, <1>2, <1>3, <2>1, <2>3 DEF SkipKept, SkipRows
<1>6. SkipRows'
  BY <1>5 DEF SkipRows
<1>7. batch \in [Batches -> BatchType]
  BY TypeParts DEF IInv, BatchesOK
<1>8. ASSUME NEW c \in Batches, c # b PROVE SkipBatch(c)'
  <2>1. batch'[c] = batch[c]
    BY <1>2, <1>7, <1>8
  <2>2. QED
    BY <1>1, <2>1, BatchSkips
<1>9. SkipBatch(b)'
  <2>1. batch'[b] = new
    BY <1>2, <1>7
  <2>2. CASE end.copy = NoCopy
    <3> DEFINE q == batch'[b].todo
    <3>1. q = <<>> /\ batch'[b].at = "off"
      BY <2>1, <2>2 DEF Idle
    <3>2. \A i \in DOMAIN q : FALSE
      BY <3>1
    <3>3. QED
      BY <3>1, <3>2 DEF SkipBatch, SkipTodo
  <2>3. CASE end.copy # NoCopy
    <3>1. /\ batch'[b].at = "mailing" /\ batch'[b].todo = x.todo /\ batch'[b].copy = x.copy
          /\ batch'[b].arrived = FALSE
      BY <1>4, <2>1, <2>3
    <3>2. Picked(x.copy) /\ x \in Accs /\ SkipKept(x) /\ x.copy # NoCopy
      BY <1>2, <1>3, <1>4, <2>3 DEF Kept
    <3>3. SkipTodo(x.todo)'
      <4>1. \A i \in DOMAIN x.todo : x.todo[i].enr \in Enrolls
        BY <3>2, TodoFacts DEF Accs
      <4>2. QED
        BY <3>2, <4>1, BehindStays DEF SkipKept, SkipTodo
    <3>4. Behind(x.copy.enr, x.copy.index)'
      BY <3>2, BehindStays DEF SkipKept, Picked
    <3>5. Prefix(x.copy.steps)' /\ (owed[x.copy.enr] \subseteq ToSet(x.copy.steps))'
      BY <1>1, <3>2, Facts DEF Picked, Prefix, SkipRows, IInv
    <3>6. SkipCopy(x.copy, FALSE)'
      BY <3>4, <3>5 DEF SkipCopy
    <3>7. SkipCopy(batch[b].copy, batch[b].arrived)' /\ SkipTodo(batch[b].todo)'
      BY <3>1, <3>3, <3>6
    <3>8. QED
      BY <3>7 DEF SkipBatch
  <2>4. QED
    BY <2>2, <2>3
<1>10. QED
  BY <1>6, <1>8, <1>9

LEMMA BatchStartsSkips ==
  ASSUME IInv, IInv', SkipInv, NEW b \in Batches, NEW open \in BOOLEAN, BatchStarts(b, open) PROVE SkipInv'
<1>1. PICK order \in SetToSeqs(Due) : Runs(b, [i \in DOMAIN order |-> CopyOf(order[i])], open)
  BY DEF BatchStarts
<1> DEFINE todo == [i \in DOMAIN order |-> CopyOf(order[i])]
<1>2. /\ todo \in Seq(Todo)
      /\ \A i \in DOMAIN todo : Enrolled(todo[i].enr) /\ todo[i].index = enr[todo[i].enr].index
  BY DueCopies
<1>3. Runs(b, todo, open)
  BY <1>1
<1> HIDE DEF todo
<1>4. SkipRows => SkipTodo(todo)
  BY <1>2, TodoFacts DEF SkipRows, SkipTodo
<1>5. QED
  BY <1>2, <1>3, <1>4, RunsSkips DEF BatchStarts

LEMMA BatchGoesOnSkips ==
  ASSUME IInv, IInv', SkipInv, NEW b \in Batches, NEW open \in BOOLEAN, BatchGoesOn(b, open) PROVE SkipInv'
<1>1. batch[b].todo \in Seq(Todo) /\ \A i \in DOMAIN batch[b].todo : Enrolled(batch[b].todo[i].enr)
  BY BatchFacts
<1>2. ASSUME sequence # "gone" PROVE SkipTodo(batch[b].todo)
  BY <1>2 DEF SkipInv, SkipBatch
<1>3. CASE sequence = "gone"
  BY <1>3 DEF SkipInv, BatchGoesOn
<1>4. CASE sequence # "gone"
  BY <1>1, <1>2, <1>4, RunsSkips DEF BatchGoesOn
<1>5. QED
  BY <1>3, <1>4

LEMMA MailAcceptedSkips == ASSUME IInv, IInv', SkipInv, NEW b \in Batches, MailAccepted(b) PROVE SkipInv'
<1> SUFFICES ASSUME sequence # "gone" PROVE SkipRows' /\ \A c \in Batches : SkipBatch(c)'
  BY DEF SkipInv, MailAccepted
<1>1. SkipRows /\ \A c \in Batches : SkipBatch(c)
  BY DEF SkipInv
<1> DEFINE copy == batch[b].copy
<1>2. /\ batch[b].at = "mailing" /\ batch[b].arrived /\ enr' = Advanced(enr, copy) /\ Answered(b)
      /\ UNCHANGED <<sequence, steps, made, blank, consent, mails, owed>>
  BY DEF MailAccepted
<1>3. /\ copy.enr \in Enrolls /\ copy.index \in Nat /\ copy.steps \in Seq(StepIds) /\ Len(copy.steps) \in Nat
      /\ Len(copy.steps) <= Cardinality(StepIds) /\ copy.index < Len(copy.steps)
      /\ copy.index + 1 \in DOMAIN copy.steps /\ DOMAIN copy.steps = 1 .. Len(copy.steps)
  BY <1>2, MailingFacts
<1>4. SkipCopy(copy, TRUE)
  BY <1>1, <1>2 DEF SkipBatch, SkipCopy
<1> HIDE DEF copy
<1>5. /\ Behind(copy.enr, copy.index) /\ owed[copy.enr] \subseteq ToSet(copy.steps)
      /\ Len(copy.steps) <= Len(steps) /\ \A j \in DOMAIN copy.steps : copy.steps[j] = steps[j]
      /\ mails[<<copy.enr, copy.steps[copy.index + 1]>>] > 0
  BY <1>4 DEF SkipCopy, Prefix
<1>6. Behind(copy.enr, copy.index + 1)
  <2>1. Typed /\ copy.index < Len(steps)
    BY <1>3, <1>5, Facts DEF IInv
  <2>2. copy.steps[copy.index + 1] = steps[copy.index + 1]
    BY <1>3, <1>5
  <2>3. QED
    BY <1>3, <1>5, <2>1, <2>2, OneMore
<1>7. ASSUME copy.index + 1 >= Len(copy.steps) PROVE AllBehind(copy.enr)
  <2> SUFFICES ASSUME NEW s \in owed[copy.enr] \ blank PROVE mails[<<copy.enr, s>>] > 0
    BY DEF AllBehind
  <2>1. PICK j \in DOMAIN copy.steps : copy.steps[j] = s
    BY <1>5 DEF ToSet
  <2>2. j <= copy.index + 1 /\ j \in DOMAIN steps
    BY <1>3, <1>5, <1>7, <2>1, Facts DEF IInv
  <2>3. steps[j] = s
    BY <1>5, <2>1
  <2>4. QED
    BY <1>6, <2>2, <2>3 DEF Behind
<1>8. \A e \in Enrolls : /\ Behind(e, enr'[e].index)
                         /\ enr'[e].status = "completed" => AllBehind(e)
  <2>1. enr \in [Enrolls -> Rows]
    BY TypeParts DEF IInv, EnrType
  <2>2. \A e \in Enrolls : Behind(e, enr[e].index) /\ (enr[e].status = "completed" => AllBehind(e))
    BY <1>1 DEF SkipRows
  <2>3. \A e \in Enrolls : /\ Behind(e, Advanced(enr, copy)[e].index)
                           /\ Advanced(enr, copy)[e].status = "completed" => AllBehind(e)
    BY <1>3, <1>6, <1>7, <2>1, <2>2, AdvancedSkips
  <2>4. QED
    BY <1>2, <2>3
<1>9. ASSUME NEW e \in Enrolls
      PROVE  (owed[e] \subseteq ToSet(steps))' /\ Behind(e, enr[e].index)'
             /\ (enr[e].status = "completed" => AllBehind(e))'
  <2>1. (\A k : Behind(e, k) => Behind(e, k)') /\ (AllBehind(e) => AllBehind(e)')
    BY <1>2, BehindStays
  <2>2. PICK k : k = enr'[e].index
    OBVIOUS
  <2>3. Behind(e, k)'
    BY <1>8, <2>1, <2>2
  <2>4. Behind(e, enr[e].index)'
    BY <2>2, <2>3
  <2>5. QED
    BY <1>1, <1>2, <1>8, <2>1, <2>4 DEF SkipRows
<1>10. SkipRows'
  BY <1>9 DEF SkipRows
<1>11. batch \in [Batches -> BatchType]
  BY TypeParts DEF IInv, BatchesOK
<1>12. /\ batch'[b].at = "gap" /\ batch'[b].todo = batch[b].todo
       /\ \A c \in Batches \ {b} : batch'[c] = batch[c]
  BY <1>2, <1>11 DEF Answered, BatchType
<1>13. ASSUME NEW c \in Batches, c # b PROVE SkipBatch(c)'
  BY <1>1, <1>2, <1>12, <1>13, BatchSkips
<1>14. SkipBatch(b)'
  <2>1. SkipTodo(batch[b].todo)'
    BY <1>1, <1>2, <1>12, BatchFacts, BehindStays DEF SkipBatch, SkipTodo
  <2>2. QED
    BY <1>12, <2>1 DEF SkipBatch
<1>15. QED
  BY <1>10, <1>13, <1>14

LEMMA SkipSteps ==
  ASSUME IInv, SkipInv, [Next]_vars, Edits \cap {"delete", "blank"} = {}
  PROVE  SkipInv'
<1>1. IInv'
  BY Inductive
<1>2. CASE \E c \in Contacts : Enroll(c) \/ Unsubscribe(c) \/ SetConsent(c)
  BY <1>1, <1>2, EnrollSkips, RowActionsSkip
<1>3. CASE \E e \in Enrolls : Cancel(e) \/ DayComes(e)
  BY <1>1, <1>3, RowActionsSkip
<1>4. CASE \E b \in Batches, open \in BOOLEAN : BatchStarts(b, open) \/ BatchGoesOn(b, open)
  BY <1>1, <1>4, BatchStartsSkips, BatchGoesOnSkips
<1>5. CASE \E b \in Batches : MailArrives(b) \/ MailAccepted(b) \/ MailFailed(b)
  BY <1>1, <1>5, MailArrivesSkips, MailAcceptedSkips, RowActionsSkip
<1>6. CASE AddStep \/ \E s \in StepIds : DeleteStep(s) \/ UpdateStep(s)
  BY <1>1, <1>6, AddStepSkips DEF DeleteStep, UpdateStep
<1>7. CASE Switch \/ Crash \/ UNCHANGED vars
  BY <1>1, <1>7, RowActionsSkip
<1>8. CASE DeleteSequence
  BY <1>8 DEF DeleteSequence, SkipInv
<1>9. QED
  BY <1>2, <1>3, <1>4, <1>5, <1>6, <1>7, <1>8, NextCases

\* Where no step is deleted or blanked meanwhile, a finished drip has mailed all it
\* owed: batches that overlap, failures, crashes, a batch that comes late to a row
\* and steps added behind never make it jump over one (processDue, advanceEnrollment).
THEOREM NothingIsSkipped ==
  ASSUME Edits \cap {"delete", "blank"} = {}
  PROVE  Spec => []NothingSkipped
<1>1. Init => SkipInv
  <2> SUFFICES ASSUME Init PROVE SkipInv
    OBVIOUS
  <2>1. \A e \in Enrolls : owed[e] = {} /\ enr[e].status = "none"
    BY DEF Init, NoEnr
  <2>2. SkipRows
    BY <2>1 DEF SkipRows, Behind
  <2>3. ASSUME NEW b \in Batches PROVE SkipBatch(b)
    <3> DEFINE q == batch[b].todo
    <3>1. q = <<>> /\ batch[b].at = "off"
      BY DEF Init, Idle
    <3>2. \A i \in DOMAIN q : FALSE
      BY <3>1
    <3>3. QED
      BY <3>1, <3>2 DEF SkipBatch, SkipTodo
  <2>4. QED
    BY <2>2, <2>3 DEF SkipInv
<1>2. IInv /\ SkipInv /\ [Next]_vars => SkipInv'
  BY SkipSteps
<1>3. IInv /\ SkipInv => NothingSkipped
  BY DEF IInv, GoneOK, SkipInv, SkipRows, AllBehind, NothingSkipped
<1>4. QED
  BY <1>1, <1>2, <1>3, Invariant, PTL DEF Spec

-----------------------------------------------------------------------------
(* No step is mailed twice to an enrolment that no two batches held and    *)
(* that lost no answer of the mail server.                                 *)

\* The index of a row that is advanced by a copy that has it right.
LEMMA AdvancedIndex ==
  ASSUME NEW rows \in [Enrolls -> Rows], NEW copy, copy.enr \in Enrolls, copy.index \in Nat,
         Len(copy.steps) \in Nat, Len(copy.steps) <= Cardinality(StepIds),
         copy.index < Len(copy.steps), rows[copy.enr].index = copy.index
  PROVE  /\ Advanced(rows, copy)[copy.enr].index \in {copy.index, copy.index + 1}
         /\ rows[copy.enr].status # "gone" => Advanced(rows, copy)[copy.enr].index = copy.index + 1
         /\ \A f \in Enrolls \ {copy.enr} : Advanced(rows, copy)[f] = rows[f]
<1> DEFINE e == copy.enr
           i == copy.index + 1
           n == Len(copy.steps)
           row == rows[e]
           new == StepSet(row, i, n)
<1>1. /\ i \in Nat /\ n \in Nat /\ i <= n /\ n <= Cardinality(StepIds)
      /\ Cardinality(StepIds) \in Nat /\ row \in Rows
  <2>1. Cardinality(StepIds) \in Nat
    BY SequencesAssumption, FS_CardinalityType
  <2>2. i \in Nat /\ n \in Nat /\ i <= n
    OBVIOUS
  <2>3. QED
    BY <2>1, <2>2
<1>2. /\ \A f \in Enrolls \ {e} : Advanced(rows, copy)[f] = rows[f]
      /\ Advanced(rows, copy)[e] = new
  BY AdvancedRow
<1> HIDE DEF e, i, n, row
<1>3. (row.status = "gone" => new = row) /\ (row.status # "gone" => new.index = i)
  <2>1. /\ i \in Nat /\ n \in Nat /\ i <= n /\ n <= Cardinality(StepIds)
        /\ Cardinality(StepIds) \in Nat /\ row \in Rows
    BY <1>1
  <2> HIDE DEF new
  <2>2. row.status = "gone" => StepSet(row, i, n) = row
    BY DEF StepSet
  <2>3. row.status # "gone" => StepSet(row, i, n).index = i
    BY <2>1 DEF StepSet, Rows
  <2>4. QED
    BY <2>2, <2>3 DEF new
<1> HIDE DEF new
<1>4. QED
  BY <1>2, <1>3 DEF e, i, row

\* The state of the loop after k of its turns.
OnceKept(acc, todo, k) ==
  /\ \A e \in Enrolls \ torn : acc.enr[e].index >= enr[e].index
  /\ \A m \in k + 1 .. Len(todo) :
       /\ todo[m].enr \notin torn => acc.enr[todo[m].enr].index = todo[m].index
       /\ \A i \in DOMAIN acc.todo : acc.todo[i].enr # todo[m].enr
       /\ acc.copy # NoCopy => acc.copy.enr # todo[m].enr
  /\ \A i \in DOMAIN acc.todo :
       acc.todo[i].enr \notin torn => acc.todo[i].index = acc.enr[acc.todo[i].enr].index
  /\ \A i, j \in DOMAIN acc.todo : i # j => acc.todo[i].enr # acc.todo[j].enr
  /\ acc.copy # NoCopy =>
       /\ acc.copy.enr \notin torn => acc.copy.index = acc.enr[acc.copy.enr].index
       /\ \A i \in DOMAIN acc.todo : acc.todo[i].enr # acc.copy.enr

\* The loop touches no row but those it has copies of.
Among(todo) == {todo[m].enr : m \in DOMAIN todo}
Within(acc, todo) ==
  /\ \A e \in Enrolls \ Among(todo) : acc.enr[e] = enr[e]
  /\ \A i \in DOMAIN acc.todo : acc.todo[i].enr \in Among(todo)
  /\ acc.copy # NoCopy => acc.copy.enr \in Among(todo)

LEMMA VisitWithin ==
  ASSUME Typed, NEW acc \in Accs, NEW todo \in Seq(Todo), NEW k \in 1 .. Len(todo),
         Within(acc, todo), NEW open \in BOOLEAN
  PROVE  Within(Visit(acc, todo[k], open), todo)
<1> DEFINE c == todo[k]
           e == c.enr
           copy == [c EXCEPT !.steps = steps]
           new == Visit(acc, c, open)
<1> SUFFICES Within(new, todo)
  OBVIOUS
<1>1. /\ c \in Todo /\ e \in Enrolls /\ c.index \in Nat /\ acc.enr \in [Enrolls -> Rows]
      /\ acc.todo \in Seq(Todo) /\ e \in Among(todo)
  <2>1. k \in DOMAIN todo
    OBVIOUS
  <2>2. QED
    BY <2>1, TodoFacts DEF Accs, Among
<1>2. copy.enr = e /\ copy.index = c.index /\ copy.steps = steps
  BY <1>1 DEF Todo
<1>3. /\ \A f \in Enrolls \ Among(todo) : acc.enr[f] = enr[f]
      /\ \A i \in DOMAIN acc.todo : acc.todo[i].enr \in Among(todo)
      /\ acc.copy # NoCopy => acc.copy.enr \in Among(todo)
  BY DEF Within
<1>4. ASSUME NEW rows, \A f \in Enrolls \ {e} : rows[f] = acc.enr[f], new = [acc EXCEPT !.enr = rows]
      PROVE  Within(new, todo)
  <2>1. new.enr = rows /\ new.todo = acc.todo /\ new.copy = acc.copy
    BY <1>4 DEF Accs
  <2> HIDE DEF new, e
  <2>2. QED
    BY <1>1, <1>3, <1>4, <2>1 DEF Within
<1>5. CASE new = [acc EXCEPT !.todo = Append(acc.todo, c)]
  <2> DEFINE q == Append(acc.todo, c)
  <2>1. new.enr = acc.enr /\ new.todo = q /\ new.copy = acc.copy
    BY <1>5 DEF Accs
  <2>2. \A i \in DOMAIN q : (i \in DOMAIN acc.todo /\ q[i] = acc.todo[i]) \/ q[i] = c
    BY <1>1
  <2> HIDE DEF q, new
  <2>3. QED
    BY <1>1, <1>3, <2>1, <2>2 DEF Within
<1>6. ASSUME NEW status \in {"cancelled", "completed"}, new = [acc EXCEPT !.enr = Ended(acc.enr, e, status)]
      PROVE  Within(new, todo)
  <2>1. \A f \in Enrolls \ {e} : Ended(acc.enr, e, status)[f] = acc.enr[f]
    BY <1>1, EndedType
  <2> HIDE DEF new, e
  <2>2. QED
    BY <1>4, <1>6, <2>1
<1>7. CASE new = [acc EXCEPT !.enr = Advanced(acc.enr, copy)]
  <2>1. \A f \in Enrolls \ {e} : Advanced(acc.enr, copy)[f] = acc.enr[f]
    BY <1>1, <1>2 DEF Advanced
  <2> HIDE DEF new, e, copy
  <2>2. QED
    BY <1>4, <1>7, <2>1
<1>8. CASE new = [acc EXCEPT !.full = TRUE]
  <2>1. new.enr = acc.enr /\ new.todo = acc.todo /\ new.copy = acc.copy
    BY <1>8 DEF Accs
  <2> HIDE DEF new
  <2>2. QED
    BY <1>3, <2>1 DEF Within
<1>9. CASE new = [acc EXCEPT !.copy = copy]
  <2>1. new.enr = acc.enr /\ new.todo = acc.todo /\ new.copy = copy
    BY <1>9 DEF Accs
  <2> HIDE DEF new, copy
  <2>2. QED
    BY <1>1, <1>2, <1>3, <2>1 DEF Within
<1>10. \/ new = [acc EXCEPT !.todo = Append(acc.todo, c)]
       \/ new = [acc EXCEPT !.enr = Ended(acc.enr, e, "cancelled")]
       \/ new = [acc EXCEPT !.enr = Ended(acc.enr, e, "completed")]
       \/ new = [acc EXCEPT !.enr = Advanced(acc.enr, copy)]
       \/ new = [acc EXCEPT !.full = TRUE]
       \/ new = [acc EXCEPT !.copy = copy]
  <2>1. c \in Todo
    BY <1>1
  <2> HIDE DEF c
  <2>2. QED
    BY <2>1, VisitCases
<1> HIDE DEF new, copy, e, c
<1>11. QED
  BY <1>5, <1>6, <1>7, <1>8, <1>9, <1>10

LEMMA VisitOnce ==
  ASSUME Typed, InOrder(steps), NEW acc \in Accs, NEW todo \in Seq(Todo), NEW k \in 1 .. Len(todo),
         \A i, j \in DOMAIN todo : i # j => todo[i].enr # todo[j].enr,
         OnceKept(acc, todo, k - 1), NEW open \in BOOLEAN
  PROVE  OnceKept(Visit(acc, todo[k], open), todo, k)
<1> DEFINE c == todo[k]
           e == c.enr
           copy == [c EXCEPT !.steps = steps]
           new == Visit(acc, c, open)
<1> SUFFICES OnceKept(new, todo, k)
  OBVIOUS
<1>1. /\ c \in Todo /\ e \in Enrolls /\ c.index \in Nat /\ acc.enr \in [Enrolls -> Rows] /\ acc.todo \in Seq(Todo)
      /\ \A m \in 1 .. Len(todo) : todo[m] \in Todo /\ todo[m].enr \in Enrolls
  <2>1. \A m \in 1 .. Len(todo) : todo[m] \in Todo /\ todo[m].enr \in Enrolls /\ todo[m].index \in Nat
    BY TodoFacts
  <2>2. QED
    BY <2>1 DEF Accs
<1>2. copy.enr = e /\ copy.index = c.index /\ copy.steps = steps
  BY <1>1 DEF Todo
<1>3. /\ Len(todo) \in Nat /\ k \in (k - 1) + 1 .. Len(todo)
      /\ \A m \in k + 1 .. Len(todo) : m \in (k - 1) + 1 .. Len(todo) /\ m \in 1 .. Len(todo) /\ m # k
  OBVIOUS
<1>4. \A m \in k + 1 .. Len(todo) : todo[m].enr # e /\ todo[m].enr \in Enrolls
  BY <1>1, <1>3
<1>5. /\ \A f \in Enrolls \ torn : acc.enr[f].index >= enr[f].index
      /\ e \notin torn => acc.enr[e].index = c.index
      /\ \A i \in DOMAIN acc.todo : acc.todo[i].enr # e
      /\ acc.copy # NoCopy => acc.copy.enr # e
      /\ \A m \in k + 1 .. Len(todo) : /\ todo[m].enr \notin torn => acc.enr[todo[m].enr].index = todo[m].index
                                       /\ \A i \in DOMAIN acc.todo : acc.todo[i].enr # todo[m].enr
                                       /\ acc.copy # NoCopy => acc.copy.enr # todo[m].enr
      /\ \A i \in DOMAIN acc.todo :
           acc.todo[i].enr \notin torn => acc.todo[i].index = acc.enr[acc.todo[i].enr].index
      /\ \A i, j \in DOMAIN acc.todo : i # j => acc.todo[i].enr # acc.todo[j].enr
      /\ acc.copy # NoCopy => /\ acc.copy.enr \notin torn => acc.copy.index = acc.enr[acc.copy.enr].index
                              /\ \A i \in DOMAIN acc.todo : acc.todo[i].enr # acc.copy.enr
  BY <1>3 DEF OnceKept
<1>6. ASSUME NEW rows \in [Enrolls -> Rows], \A f \in Enrolls \ {e} : rows[f].index = acc.enr[f].index,
             e \notin torn => rows[e].index >= acc.enr[e].index, new = [acc EXCEPT !.enr = rows], acc.copy = NoCopy
      PROVE  OnceKept(new, todo, k)
  <2>1. new.enr = rows /\ new.todo = acc.todo /\ new.copy = acc.copy
    BY <1>6 DEF Accs
  <2>2. \A i \in DOMAIN acc.todo : acc.todo[i].enr \in Enrolls \ {e}
    BY <1>1, <1>5, TodoFacts
  <2>3. \A f \in Enrolls \ torn : rows[f].index >= enr[f].index
    <3>1. enr \in [Enrolls -> Rows]
      BY Facts
    <3>2. \A f \in Enrolls : rows[f].index \in Int /\ enr[f].index \in Int /\ acc.enr[f].index \in Int
      BY <1>1, <1>6, <3>1 DEF Rows
    <3>3. QED
      <4> SUFFICES ASSUME NEW f \in Enrolls \ torn PROVE rows[f].index >= enr[f].index
        OBVIOUS
      <4>1. rows[f].index >= acc.enr[f].index
        <5>1. CASE f = e
          BY <1>6, <5>1
        <5>2. CASE f # e
          BY <1>6, <3>2, <5>2
        <5>3. QED
          BY <5>1, <5>2
      <4>2. acc.enr[f].index >= enr[f].index
        BY <1>5
      <4>3. QED
        BY <3>2, <4>1, <4>2
  <2> HIDE DEF new
  <2>4. QED
    BY <1>4, <1>5, <1>6, <2>1, <2>2, <2>3 DEF OnceKept
<1>7. CASE new = [acc EXCEPT !.todo = Append(acc.todo, c)]
  <2> DEFINE q == Append(acc.todo, c)
  <2>1. new.enr = acc.enr /\ new.todo = q /\ new.copy = acc.copy
    BY <1>7 DEF Accs
  <2>2. /\ DOMAIN q = 1 .. Len(acc.todo) + 1 /\ DOMAIN acc.todo = 1 .. Len(acc.todo) /\ Len(acc.todo) \in Nat
        /\ \A i \in DOMAIN acc.todo : q[i] = acc.todo[i]
        /\ q[Len(acc.todo) + 1] = c
    BY <1>1
  <2> HIDE DEF q, c, new, e
  <2>3. \A i \in DOMAIN q : (i \in DOMAIN acc.todo /\ q[i] = acc.todo[i]) \/ (i = Len(acc.todo) + 1 /\ q[i] = c)
    BY <2>2
  <2>4. c.enr = e
    BY DEF e
  <2>5. \A i, j \in DOMAIN q : i # j => q[i].enr # q[j].enr
    BY <1>5, <2>3, <2>4
  <2>6. \A i \in DOMAIN q : q[i].enr \notin torn => q[i].index = acc.enr[q[i].enr].index
    BY <1>5, <2>3, <2>4
  <2>7. \A m \in k + 1 .. Len(todo) : \A i \in DOMAIN q : q[i].enr # todo[m].enr
    BY <1>4, <1>5, <2>3, <2>4
  <2>8. acc.copy # NoCopy => \A i \in DOMAIN q : q[i].enr # acc.copy.enr
    BY <1>5, <2>3, <2>4
  <2>9. QED
    BY <1>5, <2>1, <2>5, <2>6, <2>7, <2>8 DEF OnceKept
<1>8. ASSUME acc.copy = NoCopy, NEW status \in {"cancelled", "completed"},
             new = [acc EXCEPT !.enr = Ended(acc.enr, e, status)]
      PROVE  OnceKept(new, todo, k)
  <2> DEFINE rows == Ended(acc.enr, e, status)
  <2>1. /\ rows \in [Enrolls -> Rows] /\ \A f \in Enrolls \ {e} : rows[f] = acc.enr[f]
        /\ rows[e].index = acc.enr[e].index
    BY <1>1, EndedType
  <2>2. rows[e].index >= acc.enr[e].index
    BY <1>1, <2>1 DEF Rows
  <2> HIDE DEF rows
  <2>3. QED
    BY <1>6, <1>8, <2>1, <2>2 DEF rows
<1>9. ASSUME acc.copy = NoCopy, c.index < Len(steps), new = [acc EXCEPT !.enr = Advanced(acc.enr, copy)]
      PROVE  OnceKept(new, todo, k)
  <2> DEFINE rows == Advanced(acc.enr, copy)
  <2>1. Len(steps) \in Nat /\ Len(steps) <= Cardinality(StepIds)
    BY Facts, LengthBound
  <2>2. /\ e \notin torn => rows[e].index \in {c.index, c.index + 1}
        /\ (\A f \in Enrolls \ {e} : rows[f] = acc.enr[f]) /\ rows \in [Enrolls -> Rows]
    <3> HIDE DEF copy
    <3>1. /\ copy.enr \in Enrolls /\ copy.index \in Nat /\ Len(copy.steps) \in Nat
          /\ Len(copy.steps) <= Cardinality(StepIds) /\ copy.index < Len(copy.steps)
      BY <1>1, <1>2, <1>9, <2>1
    <3>2. /\ \A f \in Enrolls \ {copy.enr} : Advanced(acc.enr, copy)[f] = acc.enr[f]
          /\ Advanced(acc.enr, copy) \in [Enrolls -> Rows]
      BY <1>1, <3>1, AdvancedRow
    <3>3. acc.enr[copy.enr].index = copy.index =>
            Advanced(acc.enr, copy)[copy.enr].index \in {copy.index, copy.index + 1}
      BY <1>1, <3>1, AdvancedIndex
    <3>4. QED
      BY <1>2, <1>5, <3>2, <3>3
  <2>3. e \notin torn => rows[e].index >= acc.enr[e].index
    BY <1>1, <1>5, <2>2
  <2> HIDE DEF rows
  <2>4. QED
    BY <1>6, <1>9, <2>2, <2>3 DEF rows
<1>10. CASE new = [acc EXCEPT !.full = TRUE]
  <2>1. new.enr = acc.enr /\ new.todo = acc.todo /\ new.copy = acc.copy
    BY <1>10 DEF Accs
  <2> HIDE DEF new
  <2>2. QED
    BY <1>5, <2>1 DEF OnceKept
<1>11. CASE new = [acc EXCEPT !.copy = copy]
  <2>1. new.enr = acc.enr /\ new.todo = acc.todo /\ new.copy = copy
    BY <1>11 DEF Accs
  <2> HIDE DEF new, copy
  <2>2. QED
    BY <1>2, <1>4, <1>5, <2>1 DEF OnceKept
<1>12. \/ new = [acc EXCEPT !.todo = Append(acc.todo, c)]
       \/ acc.copy = NoCopy /\ new = [acc EXCEPT !.enr = Ended(acc.enr, e, "cancelled")]
       \/ acc.copy = NoCopy /\ new = [acc EXCEPT !.enr = Ended(acc.enr, e, "completed")]
       \/ acc.copy = NoCopy /\ c.index < Len(steps) /\ new = [acc EXCEPT !.enr = Advanced(acc.enr, copy)]
       \/ new = [acc EXCEPT !.full = TRUE]
       \/ new = [acc EXCEPT !.copy = copy]
  <2>1. c \in Todo
    BY <1>1
  <2> HIDE DEF c
  <2>2. QED
    BY <2>1, VisitCases
<1> HIDE DEF new, copy, e, c
<1>13. QED
  BY <1>7, <1>8, <1>9, <1>10, <1>11, <1>12

LEMMA LoopOnce ==
  ASSUME Typed, InOrder(steps), NEW todo \in Seq(Todo), NEW open \in BOOLEAN, OnceTodo(todo)
  PROVE  OnceKept(Loop(todo, open), todo, Len(todo)) /\ Within(Loop(todo, open), todo)
<1> DEFINE W == [k \in 0 .. Len(todo) |-> {acc \in Accs : OnceKept(acc, todo, k) /\ Within(acc, todo)}]
<1>1. /\ Len(todo) \in Nat /\ 0 \in 0 .. Len(todo) /\ Len(todo) \in 0 .. Len(todo)
      /\ \A k \in 1 .. Len(todo) : k \in 0 .. Len(todo) /\ k - 1 \in 0 .. Len(todo)
      /\ \A m \in 0 + 1 .. Len(todo) : m \in DOMAIN todo
  OBVIOUS
<1>2. Start \in Accs /\ OnceKept(Start, todo, 0) /\ Within(Start, todo)
  <2> DEFINE q == Start.todo
  <2>1. q = <<>> /\ Start \in Accs /\ Start.enr = enr /\ Start.copy = NoCopy
    BY StartType
  <2>2. \A i \in DOMAIN q : FALSE
    BY <2>1
  <2>3. \A e \in Enrolls : enr[e].index >= enr[e].index
    BY Facts DEF Rows
  <2>4. QED
    BY <1>1, <2>1, <2>2, <2>3 DEF OnceKept, OnceTodo, Within
<1>3. ASSUME NEW k \in 1 .. Len(todo), NEW acc \in Accs, OnceKept(acc, todo, k - 1), Within(acc, todo)
      PROVE  /\ Visit(acc, todo[k], open) \in Accs /\ OnceKept(Visit(acc, todo[k], open), todo, k)
             /\ Within(Visit(acc, todo[k], open), todo)
  <2>1. todo[k] \in Todo
    OBVIOUS
  <2>2. QED
    BY <1>3, <2>1, VisitOnce, VisitWithin, VisitType DEF OnceTodo
<1>4. /\ Start \in W[0]
      /\ \A k \in 1 .. Len(todo) : \A acc \in Accs : acc \in W[k - 1] => Visit(acc, todo[k], open) \in W[k]
  BY <1>1, <1>2, <1>3
<1>5. Loop(todo, open) \in W[Len(todo)]
  <2> HIDE DEF W
  <2>1. QED
    BY <1>4, LoopInduction
<1>6. QED
  BY <1>1, <1>5

\* Two different steps of a sequence have two different ids.
LEMMA StepsDiffer ==
  ASSUME IInv, NEW i \in DOMAIN steps, NEW j \in DOMAIN steps, steps[i] = steps[j]
  PROVE  i = j
<1>1. steps[i] \in Nat /\ steps[j] \in Nat /\ i \in Nat /\ j \in Nat
  BY Facts DEF IInv
<1>2. i < j \/ j < i \/ i = j
  BY <1>1
<1>3. (i < j => steps[i] < steps[j]) /\ (j < i => steps[j] < steps[i])
  BY DEF IInv, InOrder
<1>4. QED
  BY <1>1, <1>2, <1>3

\* Rows keep their index, no batch moves, and steps only change places towards the first.
LEMMA OnceStays ==
  ASSUME IInv, IInv', TwiceInv, UNCHANGED <<batch, mails, torn>>, made \subseteq made',
         \A e \in Enrolls : enr'[e].index = enr[e].index \/ ~Enrolled(e),
         \A e \in Enrolls : Enrolled(e) => Enrolled(e)',
         \A j \in DOMAIN steps' : j \in Nat /\ \/ steps'[j] \notin made
                                               \/ \E i \in DOMAIN steps : steps[i] = steps'[j] /\ j <= i
  PROVE  TwiceInv'
<1>1. OnceMails'
  BY DEF TwiceInv, OnceMails
<1>2. OnceBehind'
  <2> SUFFICES ASSUME NEW e \in Enrolls \ torn, NEW j \in DOMAIN steps', mails[<<e, steps'[j]>>] > 0
               PROVE  j <= enr'[e].index \/ \E b \in Batches : Flying(b) /\ Mailing(b) = <<e, steps'[j]>>
    BY DEF OnceBehind, Flying, Mailing
  <2>1. steps'[j] \in StepIds
    <3>1. steps' \in Seq(StepIds)
      BY TypePartsNext DEF IInv, StepsOK
    <3>2. QED
      BY <3>1
  <2>2. steps'[j] \in made /\ Enrolled(e)
    BY <2>1 DEF TwiceInv, OnceMails
  <2>3. PICK i \in DOMAIN steps : steps[i] = steps'[j] /\ j <= i
    BY <2>2
  <2>4. i <= enr[e].index \/ \E b \in Batches : Flying(b) /\ Mailing(b) = <<e, steps'[j]>>
    BY <2>3 DEF TwiceInv, OnceBehind
  <2>5. enr'[e].index = enr[e].index /\ enr[e].index \in Int /\ i \in Int /\ j \in Int
    BY <2>2, Facts DEF Rows, IInv
  <2>6. QED
    BY <2>3, <2>4, <2>5
<1>3. ASSUME NEW b \in Batches PROVE OnceBatch(b)'
  <2>1. OnceBatch(b)
    BY DEF TwiceInv
  <2>2. OnceTodo(batch[b].todo)'
    BY <2>1, BatchFacts DEF OnceBatch, OnceTodo
  <2>3. ASSUME batch[b].at = "mailing"
        PROVE  /\ OnceCopy(batch[b].copy, batch[b].todo)'
               /\ (~batch[b].arrived /\ batch[b].copy.enr \notin torn => mails[Mailing(b)] = 0)'
    <3>1. /\ batch[b].copy.enr \in Enrolls /\ Enrolled(batch[b].copy.enr)
          /\ batch[b].copy.steps[batch[b].copy.index + 1] \in made /\ batch[b].copy.index \in Nat
      BY <2>3, MailingFacts DEF ToSet
    <3>2. /\ OnceCopy(batch[b].copy, batch[b].todo)
          /\ ~batch[b].arrived /\ batch[b].copy.enr \notin torn => mails[Mailing(b)] = 0
      BY <2>1, <2>3 DEF OnceBatch
    <3>3. batch[b].copy.enr \notin torn => \A j \in DOMAIN steps' : steps'[j] = batch[b].copy.steps[batch[b].copy.index + 1] => j <= batch[b].copy.index + 1
      <4> SUFFICES ASSUME batch[b].copy.enr \notin torn, NEW j \in DOMAIN steps', steps'[j] = batch[b].copy.steps[batch[b].copy.index + 1]
                   PROVE  j <= batch[b].copy.index + 1
        OBVIOUS
      <4>1. PICK i \in DOMAIN steps : steps[i] = steps'[j] /\ j <= i
        BY <3>1
      <4>2. i <= batch[b].copy.index + 1 /\ i \in Int /\ j \in Int
        BY <3>2, <4>1, Facts DEF OnceCopy, IInv
      <4>3. QED
        BY <3>1, <4>1, <4>2
    <3>4. OnceCopy(batch[b].copy, batch[b].todo)'
      BY <3>1, <3>2, <3>3 DEF OnceCopy
    <3>5. (~batch[b].arrived /\ batch[b].copy.enr \notin torn => mails[Mailing(b)] = 0)'
      BY <3>2 DEF Mailing
    <3>6. QED
      BY <3>4, <3>5
  <2>4. QED
    BY <2>2, <2>3 DEF OnceBatch
<1>4. Apart'
  BY DEF TwiceInv, Apart, Holds
<1>5. QED
  BY <1>1, <1>2, <1>3, <1>4 DEF TwiceInv

\* The actions that leave the steps, the batches and the indices alone.
LEMMA SameIndexOnce ==
  ASSUME IInv, IInv', TwiceInv, UNCHANGED <<batch, mails, steps, made, torn>>,
         \A e \in Enrolls : enr'[e].index = enr[e].index \/ ~Enrolled(e),
         \A e \in Enrolls : Enrolled(e) => Enrolled(e)'
  PROVE  TwiceInv'
<1>1. \A j \in DOMAIN steps' : j \in Nat /\ \E i \in DOMAIN steps : steps[i] = steps'[j] /\ j <= i
  <2> SUFFICES ASSUME NEW j \in DOMAIN steps
               PROVE  j \in Nat /\ j <= j
    OBVIOUS
  <2>1. j \in Nat
    BY Facts DEF IInv
  <2>2. QED
    BY <2>1
<1>2. QED
  BY <1>1, OnceStays

LEMMA RowActionsOnce ==
  ASSUME IInv, IInv', TwiceInv,
         \/ \E c \in Contacts : Enroll(c) \/ Unsubscribe(c) \/ SetConsent(c)
         \/ \E e \in Enrolls : Cancel(e) \/ DayComes(e)
         \/ \E s \in StepIds : UpdateStep(s)
         \/ Switch \/ UNCHANGED vars
  PROVE  TwiceInv'
<1>1. ASSUME NEW c \in Contacts, Unsubscribe(c) PROVE TwiceInv'
  <2>1. ASSUME NEW e \in Enrolls
        PROVE  enr'[e].index = enr[e].index /\ (Enrolled(e) => Enrolled(e)')
    <3>1. enr'[e] = IF enr[e].contact = c THEN Ended(enr, e, "cancelled")[e] ELSE enr[e]
      BY <1>1 DEF Unsubscribe
    <3>2. /\ Ended(enr, e, "cancelled")[e].index = enr[e].index
          /\ Ended(enr, e, "cancelled")[e].status = IF enr[e].status = "active" THEN "cancelled" ELSE enr[e].status
      BY FollowsItself, EndedType
    <3>3. QED
      BY <3>1, <3>2 DEF Enrolled
  <2>2. QED
    BY <1>1, <2>1, SameIndexOnce DEF Unsubscribe
<1>2. ASSUME NEW e \in Enrolls, Cancel(e) PROVE TwiceInv'
  <2>1. /\ \A f \in Enrolls \ {e} : Ended(enr, e, "cancelled")[f] = enr[f]
        /\ Ended(enr, e, "cancelled")[e].index = enr[e].index
        /\ Ended(enr, e, "cancelled")[e].status = IF enr[e].status = "active" THEN "cancelled" ELSE enr[e].status
    BY FollowsItself, EndedType
  <2>2. \A f \in Enrolls : enr'[f].index = enr[f].index /\ (Enrolled(f) => Enrolled(f)')
    BY <1>2, <2>1 DEF Cancel, Enrolled
  <2>3. QED
    BY <1>2, <2>2, SameIndexOnce DEF Cancel
<1>3. ASSUME NEW e \in Enrolls, DayComes(e) PROVE TwiceInv'
  <2>1. \A f \in Enrolls : enr'[f].index = enr[f].index /\ (Enrolled(f) => Enrolled(f)')
    BY <1>3, FollowsItself DEF DayComes, Rows, Enrolled
  <2>2. QED
    BY <1>3, <2>1, SameIndexOnce DEF DayComes
<1>4. ASSUME NEW c \in Contacts, Enroll(c) PROVE TwiceInv'
  <2>1. PICK g \in Enrolls :
          /\ enr[g].status = "none"
          /\ enr' = [enr EXCEPT ![g] = [contact |-> c, status |-> "active", index |-> 0, next |-> "later"]]
    BY <1>4 DEF Enroll
  <2>2. \A f \in Enrolls : (enr'[f].index = enr[f].index \/ ~Enrolled(f)) /\ (Enrolled(f) => Enrolled(f)')
    BY <2>1, FollowsItself DEF Enrolled
  <2>3. QED
    BY <1>4, <2>2, SameIndexOnce DEF Enroll
<1>5. CASE Switch
  BY <1>5, SameIndexOnce DEF Switch, Enrolled
<1>6. CASE UNCHANGED vars
  BY <1>6, SameIndexOnce DEF vars, Enrolled
<1>7. ASSUME NEW c \in Contacts, SetConsent(c) PROVE TwiceInv'
  BY <1>7, SameIndexOnce DEF SetConsent, Enrolled
<1>8. ASSUME NEW s \in StepIds, UpdateStep(s) PROVE TwiceInv'
  BY <1>8, SameIndexOnce DEF UpdateStep, Enrolled
<1>9. QED
  BY <1>1, <1>2, <1>3, <1>4, <1>5, <1>6, <1>7, <1>8

LEMMA StepActionsOnce ==
  ASSUME IInv, IInv', TwiceInv, AddStep \/ DeleteSequence \/ \E s \in StepIds : DeleteStep(s)
  PROVE  TwiceInv'
<1>1. steps \in Seq(StepIds) /\ Len(steps) \in Nat /\ DOMAIN steps = 1 .. Len(steps) /\ made \subseteq StepIds
      /\ StepIds \subseteq Nat
  BY TypeParts, SequencesAssumption DEF IInv, StepsOK
<1>2. CASE AddStep
  <2>1. PICK s \in StepIds : (\A r \in made : r < s) /\ steps' = Append(steps, s)
    BY <1>2 DEF AddStep
  <2>2. s \notin made
    BY <1>1, <2>1
  <2>3. ASSUME NEW j \in DOMAIN steps'
        PROVE  j \in Nat /\ (steps'[j] \notin made \/ \E i \in DOMAIN steps : steps[i] = steps'[j] /\ j <= i)
    <3>1. j \in 1 .. Len(steps) + 1 /\ j \in Nat
      BY <1>1, <2>1
    <3>2. CASE j = Len(steps) + 1
      <4>1. steps'[j] = s
        BY <1>1, <2>1, <3>2
      <4>2. QED
        BY <2>2, <3>1, <4>1
    <3>3. CASE j \in DOMAIN steps
      <4>1. steps'[j] = steps[j] /\ j <= j
        BY <1>1, <2>1, <3>1, <3>3
      <4>2. QED
        BY <3>1, <3>3, <4>1
    <3>4. QED
      BY <1>1, <3>1, <3>2, <3>3
  <2>4. QED
    BY <1>2, <2>3, OnceStays DEF AddStep, Enrolled
<1>3. ASSUME NEW s \in StepIds, DeleteStep(s) PROVE TwiceInv'
  <2>1. PICK r \in DOMAIN steps : steps[r] = s /\ steps' = RemoveAt(steps, r)
    BY <1>3 DEF DeleteStep
  <2>2. /\ DOMAIN steps' = 1 .. Len(steps) - 1
        /\ \A k \in 1 .. Len(steps) - 1 : steps'[k] = IF k < r THEN steps[k] ELSE steps[k + 1]
    BY <1>1, <2>1, Removed
  <2>3. ASSUME NEW j \in DOMAIN steps'
        PROVE  j \in Nat /\ \E i \in DOMAIN steps : steps[i] = steps'[j] /\ j <= i
    <3>1. j \in Nat /\ j \in DOMAIN steps /\ j + 1 \in DOMAIN steps /\ j <= j /\ j <= j + 1
      BY <1>1, <2>2
    <3>2. steps'[j] = steps[j] \/ steps'[j] = steps[j + 1]
      BY <2>2
    <3>3. QED
      BY <3>1, <3>2
  <2>4. QED
    BY <1>3, <2>3, OnceStays DEF DeleteStep, Enrolled
<1>4. CASE DeleteSequence
  <2>1. ASSUME NEW e \in Enrolls PROVE enr'[e].index = enr[e].index /\ (Enrolled(e) => Enrolled(e)')
    <3>1. enr[e] \in Rows
      BY FollowsItself
    <3>2. enr'[e] = IF enr[e].status = "none" THEN enr[e] ELSE [enr[e] EXCEPT !.status = "gone", !.next = "gone"]
      BY <1>4 DEF DeleteSequence
    <3>3. QED
      BY <3>1, <3>2 DEF Rows, Enrolled
  <2>2. \A j \in DOMAIN steps' : FALSE
    <3> DEFINE q == steps'
    <3>1. q = <<>>
      BY <1>4 DEF DeleteSequence
    <3>2. \A j \in DOMAIN q : FALSE
      BY <3>1
    <3>3. QED
      BY <3>2
  <2>3. QED
    BY <1>4, <2>1, <2>2, OnceStays DEF DeleteSequence
<1>5. QED
  BY <1>2, <1>3, <1>4

\* A batch that moves leaves the rows that others hold apart.
LEMMA ApartMoves ==
  ASSUME TwiceInv, NEW b \in Batches, torn \subseteq torn', batch \in [Batches -> BatchType],
         \A c \in Batches \ {b} : batch'[c] = batch[c],
         \A e \in Enrolls : Holds(b, e)' => Holds(b, e) \/ \A c \in Batches \ {b} : Holds(c, e) => e \in torn'
  PROVE  Apart'
<1> SUFFICES ASSUME NEW x \in Batches, NEW y \in Batches, NEW e \in Enrolls, x # y, Holds(x, e)', Holds(y, e)'
             PROVE  e \in torn'
  BY DEF Apart
<1>1. \A c \in Batches \ {b} : Holds(c, e)' => Holds(c, e)
  BY DEF Holds
<1>2. \A c \in Batches \ {b} : Holds(b, e)' /\ Holds(c, e) => e \in torn'
  BY DEF TwiceInv, Apart
<1>3. CASE x = b
  BY <1>1, <1>2, <1>3
<1>4. CASE y = b
  BY <1>1, <1>2, <1>4
<1>5. CASE x # b /\ y # b
  BY <1>1, <1>5 DEF TwiceInv, Apart
<1>6. QED
  BY <1>3, <1>4, <1>5

\* What another batch holds is its own, as long as the rows of b alone have changed.
LEMMA OthersOnce ==
  ASSUME IInv, TwiceInv, NEW b \in Batches, NEW c \in Batches \ {b}, batch'[c] = batch[c],
         torn \subseteq torn', UNCHANGED steps,
         \A e \in Enrolls \ torn' : Holds(c, e) =>
           /\ enr'[e].index = enr[e].index
           /\ \A s \in StepIds : mails'[<<e, s>>] = mails[<<e, s>>]
  PROVE  OnceBatch(c)'
<1>1. OnceBatch(c)
  BY DEF TwiceInv
<1>2. \A i \in DOMAIN batch[c].todo : batch[c].todo[i].enr \in Enrolls /\ Holds(c, batch[c].todo[i].enr)
  BY BatchFacts DEF Holds
<1>3. ASSUME NEW i \in DOMAIN batch[c].todo, batch[c].todo[i].enr \notin torn'
      PROVE  batch[c].todo[i].index = enr'[batch[c].todo[i].enr].index
  <2>1. PICK e \in Enrolls : e = batch[c].todo[i].enr
    BY <1>2
  <2>2. e \notin torn /\ Holds(c, e) /\ e \notin torn'
    BY <1>2, <1>3, <2>1
  <2>3. batch[c].todo[i].index = enr[e].index
    BY <1>1, <2>1, <2>2 DEF OnceBatch, OnceTodo
  <2>4. enr'[e].index = enr[e].index
    BY <2>2
  <2>5. QED
    BY <2>1, <2>3, <2>4
<1>4. OnceTodo(batch[c].todo)'
  BY <1>1, <1>3 DEF OnceBatch, OnceTodo
<1>5. CASE batch[c].at # "mailing"
  BY <1>4, <1>5 DEF OnceBatch
<1>6. CASE batch[c].at = "mailing"
  <2>1. PICK e \in Enrolls, s \in StepIds :
          /\ e = batch[c].copy.enr /\ s = batch[c].copy.steps[batch[c].copy.index + 1]
          /\ Mailing(c) = <<e, s>>
    BY <1>6, MailingFacts DEF Mailing
  <2>2. Holds(c, e)
    BY <1>6, <2>1 DEF Holds
  <2>3. OnceCopy(batch[c].copy, batch[c].todo) /\ (~batch[c].arrived /\ e \notin torn => mails[<<e, s>>] = 0)
    BY <1>1, <1>6, <2>1 DEF OnceBatch
  <2>4. OnceCopy(batch[c].copy, batch[c].todo)'
    <3>1. \A i \in DOMAIN batch[c].todo : batch[c].todo[i].enr # batch[c].copy.enr
      BY <2>3 DEF OnceCopy
    <3>2. e \notin torn' => /\ batch[c].copy.index = enr'[e].index
                            /\ \A j \in DOMAIN steps :
                                 steps[j] = batch[c].copy.steps[batch[c].copy.index + 1] => j <= batch[c].copy.index + 1
      BY <2>1, <2>2, <2>3 DEF OnceCopy
    <3>3. QED
      BY <2>1, <3>1, <3>2 DEF OnceCopy
  <2>5. ~batch[c].arrived /\ e \notin torn' => mails'[<<e, s>>] = 0
    BY <2>2, <2>3
  <2>6. Mailing(c)' = <<e, s>>
    BY <2>1 DEF Mailing
  <2>7. QED
    BY <1>4, <1>6, <2>1, <2>4, <2>5, <2>6 DEF OnceBatch
<1>7. QED
  BY <1>5, <1>6

LEMMA MailArrivesOnce ==
  ASSUME IInv, IInv', TwiceInv, NEW b \in Batches, MailArrives(b) PROVE TwiceInv'
<1>1. /\ batch[b].at = "mailing" /\ ~batch[b].arrived /\ mails' = [mails EXCEPT ![Mailing(b)] = @ + 1]
      /\ batch' = [batch EXCEPT ![b].arrived = TRUE] /\ UNCHANGED <<steps, made, enr, torn>>
  BY DEF MailArrives, Mailing
<1>2. mails \in [Enrolls \X StepIds -> Nat] /\ batch \in [Batches -> BatchType] /\ enr \in [Enrolls -> Rows]
  BY <1>1, MailingFacts, TypeParts DEF IInv, MailsType, EnrType
<1>3. /\ batch'[b].at = "mailing" /\ batch'[b].todo = batch[b].todo /\ batch'[b].copy = batch[b].copy
      /\ batch'[b].arrived = TRUE /\ \A c \in Batches \ {b} : batch'[c] = batch[c]
  BY <1>1, <1>2 DEF BatchType
<1>4. PICK e \in Enrolls, s \in StepIds :
        e = batch[b].copy.enr /\ s = batch[b].copy.steps[batch[b].copy.index + 1] /\ Mailing(b) = <<e, s>>
  BY <1>1, MailingFacts DEF Mailing
<1>5. s \in made /\ Enrolled(e) /\ Holds(b, e) /\ (e \notin torn => mails[<<e, s>>] = 0)
  <2>1. s \in made /\ Enrolled(e) /\ Holds(b, e)
    BY <1>1, <1>4, MailingFacts DEF ToSet, Holds
  <2>2. batch[b].copy.enr \notin torn => mails[Mailing(b)] = 0
    BY <1>1 DEF TwiceInv, OnceBatch
  <2>3. QED
    BY <1>4, <2>1, <2>2
<1>6. /\ e \notin torn => mails'[<<e, s>>] = 1
      /\ \A f \in Enrolls, r \in StepIds : <<f, r>> # <<e, s>> => mails'[<<f, r>>] = mails[<<f, r>>]
  BY <1>1, <1>2, <1>4, <1>5
<1>7. OnceMails'
  <2> SUFFICES ASSUME NEW f \in Enrolls, NEW r \in StepIds
               PROVE  /\ mails'[<<f, r>>] > 0 => r \in made /\ Enrolled(f)
                      /\ f \notin torn => mails'[<<f, r>>] <= 1
    BY <1>1 DEF OnceMails, Enrolled
  <2>1. CASE <<f, r>> = <<e, s>>
    BY <1>5, <1>6, <2>1
  <2>2. CASE <<f, r>> # <<e, s>>
    BY <1>6, <2>2 DEF TwiceInv, OnceMails
  <2>3. QED
    BY <2>1, <2>2
<1>8. OnceBehind'
  <2> SUFFICES ASSUME NEW f \in Enrolls \ torn, NEW j \in DOMAIN steps, mails'[<<f, steps[j]>>] > 0
               PROVE  j <= enr[f].index \/ \E c \in Batches : Flying(c)' /\ Mailing(c)' = <<f, steps[j]>>
    BY <1>1 DEF OnceBehind
  <2>1. CASE <<f, steps[j]>> = <<e, s>>
    <3>1. Flying(b)' /\ Mailing(b)' = <<e, s>>
      BY <1>3, <1>4 DEF Flying, Mailing
    <3>2. QED
      BY <2>1, <3>1
  <2>2. CASE <<f, steps[j]>> # <<e, s>>
    <3>1. steps[j] \in StepIds
      BY Facts DEF IInv
    <3>2. mails[<<f, steps[j]>>] > 0
      BY <1>6, <2>2, <3>1
    <3>3. \A c \in Batches : Flying(c) => c # b /\ Flying(c)' /\ Mailing(c)' = Mailing(c)
      BY <1>1, <1>3 DEF Flying, Mailing
    <3>4. QED
      BY <3>2, <3>3 DEF TwiceInv, OnceBehind
  <2>3. QED
    BY <2>1, <2>2
<1>9. OnceBatch(b)'
  <2>1. OnceTodo(batch[b].todo) /\ OnceCopy(batch[b].copy, batch[b].todo)
    BY <1>1 DEF TwiceInv, OnceBatch
  <2>2. OnceTodo(batch[b].todo)' /\ OnceCopy(batch[b].copy, batch[b].todo)'
    BY <1>1, <1>3, <2>1 DEF OnceTodo, OnceCopy
  <2>3. QED
    BY <1>3, <2>2 DEF OnceBatch
<1>10. ASSUME NEW c \in Batches \ {b} PROVE OnceBatch(c)'
  <2>1. ASSUME NEW f \in Enrolls \ torn', Holds(c, f)
        PROVE  enr'[f].index = enr[f].index /\ \A r \in StepIds : mails'[<<f, r>>] = mails[<<f, r>>]
    <3>1. f # e
      BY <1>1, <1>5, <2>1 DEF TwiceInv, Apart
    <3>2. QED
      BY <1>1, <1>6, <3>1
  <2>2. QED
    BY <1>1, <1>3, <2>1, OthersOnce
<1>11. Apart'
  <2>1. \A f \in Enrolls : Holds(b, f)' => Holds(b, f)
    BY <1>1, <1>3 DEF Holds
  <2>2. QED
    BY <1>1, <1>2, <1>3, <2>1, ApartMoves
<1>12. QED
  BY <1>7, <1>8, <1>9, <1>10, <1>11 DEF TwiceInv

\* The batch has its answer, and the row of its copy is where the message was, or torn.
LEMMA AnswerOnce ==
  ASSUME IInv, IInv', TwiceInv, NEW b \in Batches, batch[b].at = "mailing", Answered(b),
         UNCHANGED <<steps, made, mails>>, torn \subseteq torn',
         \A f \in Enrolls : Enrolled(f) => Enrolled(f)',
         \A f \in Enrolls : f # batch[b].copy.enr => enr'[f].index = enr[f].index,
         batch[b].copy.enr \notin torn' =>
           /\ enr'[batch[b].copy.enr].index >= enr[batch[b].copy.enr].index
           /\ batch[b].arrived /\ steps # <<>> => enr'[batch[b].copy.enr].index = batch[b].copy.index + 1
  PROVE  TwiceInv'
<1>1. enr \in [Enrolls -> Rows] /\ enr' \in [Enrolls -> Rows] /\ batch \in [Batches -> BatchType]
      /\ \A f \in Enrolls : enr[f].index \in Int /\ enr'[f].index \in Int
  <2>1. enr \in [Enrolls -> Rows] /\ enr' \in [Enrolls -> Rows] /\ batch \in [Batches -> BatchType]
    BY TypeParts, TypePartsNext DEF IInv, EnrType, BatchesOK
  <2>2. QED
    BY <2>1 DEF Rows
<1>2. /\ batch'[b].at = "gap" /\ batch'[b].todo = batch[b].todo
      /\ \A c \in Batches \ {b} : batch'[c] = batch[c]
  BY <1>1 DEF Answered, BatchType
<1>3. OnceMails'
  BY DEF TwiceInv, OnceMails
<1>4. \A f \in Enrolls \ torn' : enr'[f].index >= enr[f].index
  BY <1>1
<1>5. OnceCopy(batch[b].copy, batch[b].todo) /\ OnceTodo(batch[b].todo)
  BY DEF TwiceInv, OnceBatch
<1>6. OnceBehind'
  <2> SUFFICES ASSUME NEW f \in Enrolls \ torn', NEW j \in DOMAIN steps, mails[<<f, steps[j]>>] > 0
               PROVE  j <= enr'[f].index \/ \E c \in Batches : Flying(c)' /\ Mailing(c)' = <<f, steps[j]>>
    BY DEF OnceBehind
  <2>1. j \in Int
    BY Facts DEF IInv
  <2>2. \/ j <= enr[f].index
        \/ batch[b].arrived /\ Mailing(b) = <<f, steps[j]>>
        \/ \E c \in Batches \ {b} : Flying(c) /\ Mailing(c) = <<f, steps[j]>>
    BY DEF TwiceInv, OnceBehind, Flying
  <2>3. CASE j <= enr[f].index
    BY <1>1, <1>4, <2>1, <2>3
  <2>4. CASE batch[b].arrived /\ Mailing(b) = <<f, steps[j]>>
    <3>1. f = batch[b].copy.enr /\ steps[j] = batch[b].copy.steps[batch[b].copy.index + 1]
      BY <2>4 DEF Mailing
    <3>2. j <= batch[b].copy.index + 1
      BY <1>5, <3>1 DEF OnceCopy
    <3>3. steps # <<>>
      <4>1. Len(steps) # 0
        BY Facts DEF IInv
      <4>2. QED
        BY <4>1
    <3>4. QED
      BY <2>4, <3>1, <3>2, <3>3
  <2>5. CASE \E c \in Batches \ {b} : Flying(c) /\ Mailing(c) = <<f, steps[j]>>
    BY <1>2, <2>5 DEF Flying, Mailing
  <2>6. QED
    BY <2>2, <2>3, <2>4, <2>5
<1>7. OnceBatch(b)'
  <2>1. \A i \in DOMAIN batch[b].todo : batch[b].todo[i].enr \in Enrolls /\ batch[b].todo[i].enr # batch[b].copy.enr
    BY <1>5, BatchFacts DEF OnceCopy
  <2>2. OnceTodo(batch[b].todo)'
    BY <1>2, <1>5, <2>1 DEF OnceTodo
  <2>3. QED
    BY <1>2, <2>2 DEF OnceBatch
<1>8. Holds(b, batch[b].copy.enr) /\ batch[b].copy.enr \in Enrolls
  BY MailingFacts DEF Holds
<1>9. ASSUME NEW c \in Batches \ {b} PROVE OnceBatch(c)'
  <2>1. ASSUME NEW f \in Enrolls \ torn', Holds(c, f)
        PROVE  enr'[f].index = enr[f].index /\ \A r \in StepIds : mails'[<<f, r>>] = mails[<<f, r>>]
    <3>1. f # batch[b].copy.enr
      BY <1>8, <2>1 DEF TwiceInv, Apart
    <3>2. QED
      BY <3>1
  <2>2. QED
    BY <1>2, <2>1, OthersOnce
<1>10. Apart'
  <2>1. \A f \in Enrolls : Holds(b, f)' => Holds(b, f)
    BY <1>2 DEF Holds
  <2>2. QED
    BY <1>1, <1>2, <2>1, ApartMoves
<1>11. QED
  BY <1>3, <1>6, <1>7, <1>9, <1>10 DEF TwiceInv

LEMMA MailAcceptedOnce ==
  ASSUME IInv, IInv', TwiceInv, NEW b \in Batches, MailAccepted(b) PROVE TwiceInv'
<1> DEFINE copy == batch[b].copy
<1>1. /\ batch[b].at = "mailing" /\ Answered(b) /\ enr' = Advanced(enr, copy)
      /\ UNCHANGED <<sequence, steps, made, mails, torn>>
  BY DEF MailAccepted
<1>2. /\ copy.enr \in Enrolls /\ copy.index \in Nat /\ Len(copy.steps) \in Nat
      /\ Len(copy.steps) <= Cardinality(StepIds) /\ copy.index < Len(copy.steps)
      /\ enr \in [Enrolls -> Rows] /\ (copy.enr \notin torn => enr[copy.enr].index = copy.index)
  <2>1. copy.enr \notin torn => enr[copy.enr].index = copy.index
    BY <1>1 DEF TwiceInv, OnceBatch, OnceCopy
  <2>2. enr \in [Enrolls -> Rows]
    BY TypeParts DEF IInv, EnrType
  <2>3. QED
    BY <1>1, <2>1, <2>2, MailingFacts
<1>3. \A f \in Enrolls \ {copy.enr} : enr'[f] = enr[f]
  <2> HIDE DEF copy
  <2>1. QED
    BY <1>1, <1>2, AdvancedRow
<1>4. steps # <<>> => enr[copy.enr].status # "gone"
  BY <1>2 DEF IInv, GoneOK
<1>5. \A f \in Enrolls : Enrolled(f) => Enrolled(f)'
  <2>1. Enrolled(copy.enr) /\ Enrolled(copy.enr) => Follows(Advanced(enr, copy)[copy.enr], enr[copy.enr])
    <3>1. Follows(enr[copy.enr], enr[copy.enr])
      BY <1>2, FollowsItself
    <3> HIDE DEF copy
    <3>2. QED
      BY <1>2, <3>1, AdvancedRow
  <2>2. Enrolled(copy.enr) => enr'[copy.enr].status # "none"
    BY <1>1, <2>1 DEF Follows, Enrolled
  <2>3. QED
    BY <1>3, <2>2 DEF Enrolled
<1>6. copy.enr \notin torn => /\ enr'[copy.enr].index \in {copy.index, copy.index + 1}
                              /\ enr[copy.enr].status # "gone" => enr'[copy.enr].index = copy.index + 1
  <2> HIDE DEF copy
  <2>1. QED
    BY <1>1, <1>2, AdvancedIndex
<1>7. copy.enr \notin torn' => /\ enr'[copy.enr].index >= enr[copy.enr].index
                               /\ steps # <<>> => enr'[copy.enr].index = copy.index + 1
  BY <1>1, <1>2, <1>4, <1>6
<1>8. QED
  BY <1>1, <1>3, <1>5, <1>7, AnswerOnce

LEMMA MailFailedOnce ==
  ASSUME IInv, IInv', TwiceInv, NEW b \in Batches, MailFailed(b) PROVE TwiceInv'
<1>1. /\ batch[b].at = "mailing" /\ Answered(b) /\ UNCHANGED <<steps, made, mails>>
      /\ torn' = torn \cup Torn(b)
  BY DEF MailFailed
<1>2. \A f \in Enrolls : enr'[f].index = enr[f].index /\ (Enrolled(f) => Enrolled(f)')
  BY FollowsItself DEF MailFailed, Rows, Enrolled
<1>3. enr'[batch[b].copy.enr].index >= enr[batch[b].copy.enr].index
  BY <1>1, <1>2, MailingFacts, FollowsItself DEF Rows
<1>4. batch[b].copy.enr \notin torn' => ~batch[b].arrived
  BY <1>1 DEF Torn
<1>5. QED
  BY <1>1, <1>2, <1>3, <1>4, AnswerOnce

LEMMA RunsOnce ==
  ASSUME IInv, IInv', TwiceInv, NEW b \in Batches, batch[b].at # "mailing",
         NEW todo \in Seq(Todo), NEW open \in BOOLEAN,
         \A i \in DOMAIN todo : Enrolled(todo[i].enr), OnceTodo(todo), Runs(b, todo, open),
         torn \subseteq torn',
         \A e \in Among(todo), c \in Batches \ {b} : Holds(c, e) => e \in torn',
         UNCHANGED <<sequence, steps, made, blank, consent, mails, owed>>
  PROVE  TwiceInv'
<1> DEFINE end == Loop(todo, open)
           new == IF end.copy = NoCopy THEN Idle
                  ELSE [at |-> "mailing", todo |-> end.todo, copy |-> end.copy, arrived |-> FALSE]
<1>1. /\ end \in Accs /\ Kept(end) /\ enr' = end.enr
      /\ batch' = [batch EXCEPT ![b] = new]
  BY RunsEffect
<1>2. OnceKept(end, todo, Len(todo)) /\ Within(end, todo)
  BY LoopOnce DEF IInv
<1> HIDE DEF end
<1>3. /\ \A e \in Enrolls \ torn : enr'[e].index >= enr[e].index
      /\ \A i \in DOMAIN end.todo :
           end.todo[i].enr \notin torn => end.todo[i].index = enr'[end.todo[i].enr].index
      /\ \A i, j \in DOMAIN end.todo : i # j => end.todo[i].enr # end.todo[j].enr
      /\ end.copy # NoCopy => /\ end.copy.enr \notin torn => end.copy.index = enr'[end.copy.enr].index
                              /\ \A i \in DOMAIN end.todo : end.todo[i].enr # end.copy.enr
  BY <1>1, <1>2 DEF OnceKept
<1>4. /\ batch \in [Batches -> BatchType] /\ enr \in [Enrolls -> Rows] /\ enr' \in [Enrolls -> Rows]
      /\ \A e \in Enrolls : enr[e].index \in Int /\ enr'[e].index \in Int
  <2>1. batch \in [Batches -> BatchType] /\ enr \in [Enrolls -> Rows] /\ enr' \in [Enrolls -> Rows]
    BY TypeParts, TypePartsNext DEF IInv, EnrType, BatchesOK
  <2>2. QED
    BY <2>1 DEF Rows
<1>5. batch'[b] = new /\ \A c \in Batches \ {b} : batch'[c] = batch[c]
  BY <1>1, <1>4
<1>6. OnceMails'
  <2>1. \A e \in Enrolls : Enrolled(e) => Enrolled(e)'
    BY <1>1 DEF Kept, Follows, Enrolled
  <2>2. QED
    BY <2>1 DEF TwiceInv, OnceMails
<1>7. \A c \in Batches : Flying(c) => c # b /\ Flying(c)' /\ Mailing(c)' = Mailing(c)
  BY <1>5 DEF Flying, Mailing
<1>8. OnceBehind'
  <2> SUFFICES ASSUME NEW e \in Enrolls \ torn', NEW j \in DOMAIN steps, mails[<<e, steps[j]>>] > 0
               PROVE  j <= enr'[e].index \/ \E c \in Batches : Flying(c)' /\ Mailing(c)' = <<e, steps[j]>>
    BY DEF OnceBehind
  <2>1. j \in Int /\ e \in Enrolls \ torn
    BY Facts DEF IInv
  <2>2. j <= enr[e].index \/ \E c \in Batches : Flying(c) /\ Mailing(c) = <<e, steps[j]>>
    BY <2>1 DEF TwiceInv, OnceBehind
  <2>3. CASE j <= enr[e].index
    BY <1>3, <1>4, <2>1, <2>3
  <2>4. CASE \E c \in Batches : Flying(c) /\ Mailing(c) = <<e, steps[j]>>
    BY <1>7, <2>4
  <2>5. QED
    BY <2>2, <2>3, <2>4
<1>9. ASSUME NEW c \in Batches \ {b} PROVE OnceBatch(c)'
  <2>1. ASSUME NEW f \in Enrolls \ torn', Holds(c, f)
        PROVE  enr'[f].index = enr[f].index /\ \A r \in StepIds : mails'[<<f, r>>] = mails[<<f, r>>]
    <3>1. f \notin Among(todo)
      BY <2>1
    <3>2. QED
      BY <1>1, <1>2, <3>1 DEF Within
  <2>2. QED
    BY <1>5, <2>1, OthersOnce
<1>10. Apart'
  <2>1. ASSUME NEW f \in Enrolls, Holds(b, f)' PROVE f \in Among(todo)
    <3>1. CASE end.copy = NoCopy
      <4> DEFINE q == batch'[b].todo
      <4>1. q = <<>> /\ batch'[b].at = "off"
        BY <1>5, <3>1 DEF Idle
      <4>2. \A i \in DOMAIN q : FALSE
        BY <4>1
      <4>3. QED
        BY <2>1, <4>1, <4>2 DEF Holds
    <3>2. CASE end.copy # NoCopy
      <4>1. batch'[b].todo = end.todo /\ batch'[b].copy = end.copy
        BY <1>5, <3>2
      <4>2. QED
        BY <1>2, <2>1, <3>2, <4>1 DEF Within, Holds
    <3>3. QED
      BY <3>1, <3>2
  <2>2. \A f \in Enrolls : Holds(b, f)' => \A c \in Batches \ {b} : Holds(c, f) => f \in torn'
    BY <2>1
  <2>3. QED
    BY <1>4, <1>5, <2>2, ApartMoves
<1>11. CASE end.copy = NoCopy
  <2> DEFINE q == batch'[b].todo
  <2>1. q = <<>> /\ batch'[b].at = "off"
    BY <1>5, <1>11 DEF Idle
  <2>2. \A i \in DOMAIN q : FALSE
    BY <2>1
  <2>3. OnceBatch(b)'
    BY <2>1, <2>2 DEF OnceBatch, OnceTodo
  <2>4. QED
    BY <1>6, <1>8, <1>9, <1>10, <2>3 DEF TwiceInv
<1>12. CASE end.copy # NoCopy
  <2>1. /\ batch'[b].at = "mailing" /\ batch'[b].todo = end.todo /\ batch'[b].copy = end.copy
        /\ batch'[b].arrived = FALSE
    BY <1>5, <1>12
  <2>2. Picked(end.copy) /\ end.copy.index \in Nat
    BY <1>1, <1>12 DEF Kept, Accs, Copies
  <2>3. OnceTodo(batch[b].todo)'
    BY <1>3, <2>1 DEF OnceTodo
  <2>4. /\ end.copy.enr \in Enrolls /\ end.copy.steps = steps /\ end.copy.index + 1 \in DOMAIN steps
        /\ steps[end.copy.index + 1] \in StepIds
    BY <2>2, Facts DEF Picked, IInv
  <2>5. \A j \in DOMAIN steps : steps[j] = end.copy.steps[end.copy.index + 1] => j <= end.copy.index + 1
    <3> SUFFICES ASSUME NEW j \in DOMAIN steps, steps[j] = steps[end.copy.index + 1]
                 PROVE  j <= end.copy.index + 1
      BY <2>4
    <3>1. j = end.copy.index + 1
      BY <2>4, StepsDiffer
    <3>2. QED
      BY <2>2, <3>1
  <2>6. OnceCopy(batch[b].copy, batch[b].todo)'
    BY <1>3, <1>12, <2>1, <2>5 DEF OnceCopy
  <2>7. end.copy.enr \notin torn' => mails[<<end.copy.enr, steps[end.copy.index + 1]>>] = 0
    <3> SUFFICES ASSUME end.copy.enr \notin torn'
                 PROVE  mails[<<end.copy.enr, steps[end.copy.index + 1]>>] = 0
      OBVIOUS
    <3>1. end.copy.enr \in Enrolls \ torn /\ end.copy.enr \in Among(todo)
      BY <1>2, <1>12, <2>4 DEF Within
    <3>2. ~(end.copy.index + 1 <= enr[end.copy.enr].index)
      BY <1>3, <1>4, <1>12, <2>2, <2>4, <3>1
    <3>3. ~\E c \in Batches : Flying(c) /\ Mailing(c) = <<end.copy.enr, steps[end.copy.index + 1]>>
      <4>1. \A c \in Batches : Flying(c) /\ Mailing(c)[1] = end.copy.enr => c # b /\ Holds(c, end.copy.enr)
        BY <1>7 DEF Flying, Mailing, Holds
      <4>2. \A c \in Batches : c # b => ~Holds(c, end.copy.enr)
        BY <3>1
      <4>3. QED
        BY <4>1, <4>2
    <3>4. ~(mails[<<end.copy.enr, steps[end.copy.index + 1]>>] > 0)
      BY <2>4, <3>1, <3>2, <3>3 DEF TwiceInv, OnceBehind
    <3>5. mails[<<end.copy.enr, steps[end.copy.index + 1]>>] \in Nat
      BY <2>4, TypeParts DEF IInv, MailsType
    <3>6. QED
      BY <3>4, <3>5
  <2>8. end.copy.enr \notin torn' => mails'[Mailing(b)'] = 0
    BY <2>1, <2>4, <2>7 DEF Mailing
  <2>9. OnceBatch(b)'
    BY <2>1, <2>3, <2>6, <2>8 DEF OnceBatch
  <2>10. QED
    BY <1>6, <1>8, <1>9, <1>10, <2>9 DEF TwiceInv
<1>13. QED
  BY <1>11, <1>12

LEMMA BatchStartsOnce ==
  ASSUME IInv, IInv', TwiceInv, NEW b \in Batches, NEW open \in BOOLEAN, BatchStarts(b, open)
  PROVE  TwiceInv'
<1>1. PICK order \in SetToSeqs(Due) : Runs(b, [i \in DOMAIN order |-> CopyOf(order[i])], open)
  BY DEF BatchStarts
<1> DEFINE todo == [i \in DOMAIN order |-> CopyOf(order[i])]
<1>2. /\ todo \in Seq(Todo) /\ \A i \in DOMAIN todo : Enrolled(todo[i].enr) /\ todo[i].enr \in Due
      /\ OnceTodo(todo)
  BY DueCopies DEF OnceTodo
<1>3. Runs(b, todo, open)
  BY <1>1
<1> HIDE DEF todo
<1>4. Among(todo) \subseteq Due
  BY <1>2 DEF Among
<1>5. \A e \in Among(todo), c \in Batches \ {b} : Holds(c, e) => e \in torn'
  BY <1>4 DEF BatchStarts
<1>6. torn \subseteq torn' /\ batch[b].at # "mailing"
  BY DEF BatchStarts
<1>7. QED
  BY <1>2, <1>3, <1>5, <1>6, RunsOnce DEF BatchStarts

LEMMA BatchGoesOnOnce ==
  ASSUME IInv, IInv', TwiceInv, NEW b \in Batches, NEW open \in BOOLEAN, BatchGoesOn(b, open)
  PROVE  TwiceInv'
<1>1. batch[b].todo \in Seq(Todo) /\ \A i \in DOMAIN batch[b].todo : Enrolled(batch[b].todo[i].enr)
  BY BatchFacts
<1>2. OnceTodo(batch[b].todo) /\ batch[b].at # "mailing"
  BY DEF TwiceInv, OnceBatch, BatchGoesOn
<1>3. \A e \in Among(batch[b].todo) : e \in Enrolls /\ Holds(b, e)
  BY BatchFacts DEF Among, Holds
<1>4. \A e \in Among(batch[b].todo), c \in Batches \ {b} : Holds(c, e) => e \in torn'
  BY <1>3 DEF TwiceInv, Apart, BatchGoesOn
<1>5. torn \subseteq torn'
  BY DEF BatchGoesOn
<1>6. QED
  BY <1>1, <1>2, <1>4, <1>5, RunsOnce DEF BatchGoesOn

LEMMA CrashOnce == ASSUME IInv, TwiceInv, Crash PROVE TwiceInv'
<1>1. /\ batch' = [b \in Batches |-> Idle] /\ torn' = torn \cup UNION {Torn(b) : b \in Batches}
      /\ UNCHANGED <<steps, made, mails, enr>>
  BY DEF Crash
<1>2. OnceMails'
  BY <1>1 DEF TwiceInv, OnceMails, Enrolled
<1>3. OnceBehind'
  <2> SUFFICES ASSUME NEW e \in Enrolls \ torn', NEW j \in DOMAIN steps, mails[<<e, steps[j]>>] > 0
               PROVE  j <= enr[e].index
    BY <1>1 DEF OnceBehind
  <2>1. \A b \in Batches : Flying(b) => Mailing(b)[1] \in torn'
    BY <1>1 DEF Flying, Mailing, Torn
  <2>2. e \in Enrolls \ torn
    BY <1>1
  <2>3. QED
    BY <2>1, <2>2 DEF TwiceInv, OnceBehind
<1>4. ASSUME NEW b \in Batches PROVE OnceBatch(b)' /\ \A e : ~Holds(b, e)'
  <2> DEFINE q == batch'[b].todo
  <2>1. q = <<>> /\ batch'[b].at = "off"
    BY <1>1 DEF Idle
  <2>2. \A i \in DOMAIN q : FALSE
    BY <2>1
  <2>3. QED
    BY <2>1, <2>2 DEF OnceBatch, OnceTodo, Holds
<1>5. Apart'
  BY <1>4 DEF Apart
<1>6. QED
  BY <1>2, <1>3, <1>4, <1>5 DEF TwiceInv

LEMMA OnceSteps == ASSUME IInv, TwiceInv, [Next]_vars PROVE TwiceInv'
<1>1. IInv'
  BY Inductive
<1>2. CASE \E c \in Contacts : Enroll(c) \/ Unsubscribe(c) \/ SetConsent(c)
  BY <1>1, <1>2, RowActionsOnce
<1>3. CASE \E e \in Enrolls : Cancel(e) \/ DayComes(e)
  BY <1>1, <1>3, RowActionsOnce
<1>4. CASE \E b \in Batches, open \in BOOLEAN : BatchStarts(b, open) \/ BatchGoesOn(b, open)
  BY <1>1, <1>4, BatchStartsOnce, BatchGoesOnOnce
<1>5. CASE \E b \in Batches : MailArrives(b) \/ MailAccepted(b) \/ MailFailed(b)
  BY <1>1, <1>5, MailArrivesOnce, MailAcceptedOnce, MailFailedOnce
<1>6. CASE AddStep \/ DeleteSequence \/ \E s \in StepIds : DeleteStep(s)
  BY <1>1, <1>6, StepActionsOnce
<1>7. CASE Switch \/ UNCHANGED vars \/ \E s \in StepIds : UpdateStep(s)
  BY <1>1, <1>7, RowActionsOnce
<1>8. CASE Crash
  BY <1>8, CrashOnce
<1>9. QED
  BY <1>2, <1>3, <1>4, <1>5, <1>6, <1>7, <1>8, NextCases

\* No step is mailed twice to an enrolment, unless two batches held it together or
\* an answer to its message was lost: whatever else overlaps, fails, crashes, or is
\* edited, deleted or switched (processDue, advanceEnrollment, deleteStep).
THEOREM MailedOnce == Spec => []StepMailedOnce
<1>1. Init => TwiceInv
  <2> SUFFICES ASSUME Init PROVE TwiceInv
    OBVIOUS
  <2>1. \A e \in Enrolls, s \in StepIds : mails[<<e, s>>] = 0
    BY DEF Init
  <2>2. \A j \in DOMAIN steps : steps[j] \in StepIds
    BY InitInv, Facts DEF IInv
  <2>3. OnceMails /\ OnceBehind
    BY <2>1, <2>2 DEF OnceMails, OnceBehind
  <2>4. ASSUME NEW b \in Batches PROVE OnceBatch(b) /\ \A e : ~Holds(b, e)
    <3> DEFINE q == batch[b].todo
    <3>1. q = <<>> /\ batch[b].at = "off"
      BY DEF Init, Idle
    <3>2. \A i \in DOMAIN q : FALSE
      BY <3>1
    <3>3. QED
      BY <3>1, <3>2 DEF OnceBatch, OnceTodo, Holds
  <2>5. QED
    BY <2>3, <2>4 DEF TwiceInv, Apart
<1>2. IInv /\ TwiceInv /\ [Next]_vars => TwiceInv'
  BY OnceSteps
<1>3. TwiceInv => StepMailedOnce
  BY DEF TwiceInv, OnceMails, StepMailedOnce
<1>4. QED
  BY <1>1, <1>2, <1>3, Invariant, PTL DEF Spec

=============================================================================
