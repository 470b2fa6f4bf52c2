--------------------------- MODULE AllKeys_proofs ---------------------------
(***************************************************************************)
(* Proofs about AllKeys, for any names, threads and numbers of records:    *)
(* however the accesses interleave, the list behind head_ is a set that    *)
(* changes at single instants, what delete_all() frees is not in it, and   *)
(* a rebuild of toMatch_ misses no name that was there.                    *)
(***************************************************************************)
EXTENDS AllKeys, TLAPS

-----------------------------------------------------------------------------
(* Lists.                                                                  *)

Nexts == [Recs -> Recs \union {Nil}]

(* The list from r on is r and the list from r->next on.                   *)
LEMMA ListStep ==
    ASSUME NEW nx \in Nexts, NEW r \in Recs
    PROVE  ListFrom(nx, r) = {r} \union ListFrom(nx, nx[r])
<1>1. r # Nil
    BY AllKeysAssumption DEF Recs, WaRec, Nil
<1>2. ASSUME NEW s \in ListFrom(nx, r), s # r
      PROVE  s \in ListFrom(nx, nx[r])
  <2> SUFFICES ASSUME NEW S \in SUBSET Recs, Closed(nx, nx[r], S)
               PROVE  s \in S
    BY <1>2 DEF ListFrom
  <2>1. Closed(nx, r, S \union {r})
    BY <1>1 DEF Closed
  <2> QED
    BY <1>2, <2>1 DEF ListFrom
<1>3. r \in ListFrom(nx, r)
    BY <1>1 DEF ListFrom, Closed
<1>4. ASSUME NEW s \in ListFrom(nx, nx[r])
      PROVE  s \in ListFrom(nx, r)
  <2> SUFFICES ASSUME NEW S \in SUBSET Recs, Closed(nx, r, S)
               PROVE  s \in S
    BY DEF ListFrom
  <2>1. Closed(nx, nx[r], S)
    BY <1>1 DEF Closed
  <2> QED
    BY <2>1 DEF ListFrom
<1> QED
    BY <1>2, <1>3, <1>4

(* A list stays within a set that the pointers do not leave.               *)
LEMMA ListWithin ==
    ASSUME NEW nx, NEW r, NEW S \in SUBSET Recs, Closed(nx, r, S)
    PROVE  ListFrom(nx, r) \subseteq S
BY DEF ListFrom

(* The empty list.                                                         *)
LEMMA ListNil ==
    ASSUME NEW nx
    PROVE  ListFrom(nx, Nil) = {}
<1>1. Closed(nx, Nil, {})
    BY DEF Closed
<1> QED
    BY <1>1, ListWithin

(* A list does not change when pointers outside such a set do.             *)
LEMMA ListKept ==
    ASSUME NEW nx, NEW ny, NEW r, NEW S \in SUBSET Recs, Closed(nx, r, S),
           \A s \in S : ny[s] = nx[s]
    PROVE  ListFrom(ny, r) = ListFrom(nx, r)
<1>1. ASSUME NEW s \in ListFrom(nx, r), NEW T \in SUBSET Recs, Closed(ny, r, T)
      PROVE  s \in T
  <2>1. Closed(nx, r, S \intersect T)
    BY <1>1 DEF Closed
  <2> QED
    BY <2>1 DEF ListFrom
<1>2. ASSUME NEW s \in ListFrom(ny, r), NEW T \in SUBSET Recs, Closed(nx, r, T)
      PROVE  s \in T
  <2>1. Closed(ny, r, S \intersect T)
    BY <1>2 DEF Closed
  <2> QED
    BY <2>1 DEF ListFrom
<1> QED
    BY <1>1, <1>2 DEF ListFrom

-----------------------------------------------------------------------------
(* The records a thread is still adding, and those that are or were in the *)
(* list.                                                                   *)
Pending == {adder[a].rec : a \in {a \in Adders : adder[a].pc # "idle"}}

Linked == {r \in Recs : data[r] # Nil} \ Pending

Swapped == xpc \in {"clear", "free", "done"}

(* The threads' records are distinct and not in the list, and no pointer   *)
(* leads from a record of the list to one of theirs.  The list they were   *)
(* compared with and the one of exchange() do not share a record.          *)
LinkInv ==
    /\ \A a \in Adders : adder[a].pc # "idle" => adder[a].rec # Nil /\ data[adder[a].rec] # Nil
    /\ \A a, b \in Adders : a # b /\ adder[a].pc # "idle" /\ adder[b].pc # "idle" =>
                                adder[a].rec # adder[b].rec
    /\ Closed(next, head, Linked) /\ Closed(next, oldHead, Linked)
    /\ \A m \in Matchers : Closed(next, matcher[m].cur, Linked)
    /\ \A a \in Adders : adder[a].pc = "cas" => Closed(next, next[adder[a].rec], Linked)
    /\ settled \subseteq Linked
    /\ data[WaRec] # Nil /\ next[WaRec] = Nil

SwapInv ==
    /\ ~Swapped => WaRec \notin Chain(head) /\ freed = {}
    /\ Swapped => Chain(head) \intersect Chain(oldHead) = {} /\ freed \subseteq Chain(oldHead)

(* What a rebuild has still to find is ahead of it in the list.            *)
RebuildInv ==
    xpc = "idle" =>
        /\ settled \subseteq Chain(head)
        /\ \A m \in Matchers : matcher[m].rebuilt =>
              /\ matcher[m].pc = "head" => matcher[m].due \subseteq {data[r] : r \in Chain(head)}
              /\ matcher[m].pc = "visit" =>
                    matcher[m].due \subseteq toMatch \union {data[r] : r \in Chain(matcher[m].cur)}
              /\ matcher[m].pc = "extract" => matcher[m].due \subseteq toMatch

IInv == TypeOK /\ LinkInv /\ SwapInv /\ RebuildInv

(* What delete_all() has freed is not in the list.                         *)
ListNotFreed == freed \intersect Chain(head) = {}

-----------------------------------------------------------------------------
(* What each step of the threads does to the records.                      *)

Adding(a) == adder[a].pc # "idle"

(* exchange() brings in a record that no add() allocates.                  *)
LEMMA RecFacts ==
    /\ Nil \notin Recs /\ 1 .. NumRecs \subseteq Recs
    /\ WaRec \in Recs /\ WaRec \notin 0 .. NumRecs /\ WaRec \notin 1 .. NumRecs
BY AllKeysAssumption DEF Recs, WaRec, Nil

(* A new record: it is nobody's yet and not in the list.                   *)
LEMMA BeginRecords ==
    ASSUME TypeOK, LinkInv, NEW a \in Adders, NEW k \in Keys, AddBegin(a, k)
    PROVE  \E r \in 1 .. NumRecs :
              /\ data[r] = Nil /\ data' = [data EXCEPT ![r] = k] /\ k # Nil
              /\ adder' = [adder EXCEPT ![a] = [pc |-> "read", rec |-> r]]
              /\ Linked' = Linked /\ \A s \in Linked : s # r
<1> DEFINE r == CHOOSE r \in 1 .. NumRecs : data[r] = Nil
<1>1. r \in 1 .. NumRecs /\ data[r] = Nil
    BY DEF AddBegin
<1>2. data' = [data EXCEPT ![r] = k] /\ adder' = [adder EXCEPT ![a] = [pc |-> "read", rec |-> r]]
    BY DEF AddBegin
<1>3. k # Nil
    BY AllKeysAssumption DEF Nil
<1> HIDE DEF r
<1>4. \A s \in Recs : data'[s] = IF s = r THEN k ELSE data[s]
    BY <1>1, <1>2, RecFacts DEF TypeOK
<1>5. \A b \in Adders : adder'[b] = IF b = a THEN [pc |-> "read", rec |-> r] ELSE adder[b]
    BY <1>2 DEF TypeOK
<1>6. adder[a].pc = "idle"
    BY DEF AddBegin
<1>7. \A s : s \in Pending' <=> s \in Pending \/ s = r
    BY <1>5, <1>6 DEF Pending
<1>8. Linked' = Linked
    BY <1>1, <1>4, <1>7 DEF Linked
<1> QED
    BY <1>1, <1>2, <1>3, <1>8 DEF Linked

(* The record of a thread leaves the list alone while it is not linked.    *)
LEMMA ReadRecords ==
    ASSUME TypeOK, LinkInv, NEW a \in Adders, AddRead(a)
    PROVE  /\ Linked' = Linked /\ adder[a].rec \in Recs \ Linked
           /\ \A s \in Linked : next'[s] = next[s]
           /\ next'[adder[a].rec] = head
<1>1. adder[a].rec \in Recs /\ adder[a].rec \in Pending
    BY RecFacts DEF AddRead, TypeOK, LinkInv, Pending, Nil
<1>2. \A b \in Adders : adder'[b].rec = adder[b].rec /\ (Adding(b)' <=> Adding(b))
    BY DEF AddRead, TypeOK, Adding
<1>3. Pending' = Pending
    BY <1>2 DEF Pending, Adding
<1>4. Linked' = Linked
    BY <1>3 DEF Linked, AddRead
<1>5. \A s \in Recs : next'[s] = IF s = adder[a].rec THEN head ELSE next[s]
    BY <1>1 DEF AddRead, TypeOK
<1> QED
    BY <1>1, <1>4, <1>5 DEF Linked

(* A successful compare-and-exchange links the record.                     *)
LEMMA CasRecords ==
    ASSUME TypeOK, LinkInv, NEW a \in Adders, AddCas(a), head = next[adder[a].rec]
    PROVE  /\ Linked' = Linked \union {adder[a].rec}
           /\ adder[a].rec \in Recs \ Linked /\ adder[a].rec \in 1 .. NumRecs
           /\ head' = adder[a].rec /\ settled' = settled \union {adder[a].rec}
           /\ adder' = [adder EXCEPT ![a] = [pc |-> "idle", rec |-> Nil]]
<1> DEFINE r == adder[a].rec
<1>1. head' = r /\ settled' = settled \union {r}
      /\ adder' = [adder EXCEPT ![a] = [pc |-> "idle", rec |-> Nil]]
    BY DEF AddCas
<1>2. adder[a].pc = "cas" /\ data' = data
    BY DEF AddCas
<1>3. r \in 1 .. NumRecs /\ r \in Recs /\ r \in Pending /\ data[r] # Nil
    BY <1>2, RecFacts DEF TypeOK, LinkInv, Pending, Nil
<1>4. \A b \in Adders : adder'[b] = IF b = a THEN [pc |-> "idle", rec |-> Nil] ELSE adder[b]
    BY <1>1 DEF TypeOK
<1>5. \A s : s \in Pending' <=> s \in Pending /\ s # r
    BY <1>2, <1>4 DEF Pending, LinkInv
<1>6. Linked' = Linked \union {r}
    BY <1>2, <1>3, <1>5 DEF Linked
<1> QED
    BY <1>1, <1>3, <1>6 DEF Linked

(* A failed one changes nothing but the thread's place.                    *)
LEMMA RetryRecords ==
    ASSUME TypeOK, LinkInv, NEW a \in Adders, AddCas(a), head # next[adder[a].rec]
    PROVE  Linked' = Linked /\ UNCHANGED <<head, settled>>
           /\ adder' = [adder EXCEPT ![a].pc = "read"]
<1>1. adder' = [adder EXCEPT ![a].pc = "read"] /\ data' = data /\ adder[a].pc = "cas"
      /\ UNCHANGED <<head, settled>>
    BY DEF AddCas
<1>2. \A b \in Adders : adder'[b].rec = adder[b].rec /\ (Adding(b)' <=> Adding(b))
    BY <1>1 DEF TypeOK, Adding
<1>3. Pending' = Pending
    BY <1>2 DEF Pending, Adding
<1> QED
    BY <1>1, <1>3 DEF Linked

(* The lists the threads hold do not change while theirs is not linked.    *)
LEMMA ListsKept ==
    ASSUME \A s \in Linked : next'[s] = next[s], NEW x, Closed(next, x, Linked)
    PROVE  ListFrom(next', x) = ListFrom(next, x) /\ ListFrom(next, x) \subseteq Linked
<1>1. Linked \in SUBSET Recs
    BY DEF Linked
<1> QED
    BY <1>1, ListKept, ListWithin

-----------------------------------------------------------------------------
(* Every step keeps the types and the records apart.                       *)

(* The empty list, before any call.                                        *)
LEMMA InitInv == Init => IInv
<1> SUFFICES ASSUME Init PROVE IInv
    OBVIOUS
<1>1. TypeOK
    BY AllKeysAssumption, RecFacts DEF Init, TypeOK, Nil
<1>2. Pending = {} /\ Linked \subseteq Recs
    BY DEF Init, Pending, Linked
<1>3. \A s \in Linked : next[s] = Nil
    BY <1>2 DEF Init
<1>4. Closed(next, Nil, Linked)
    BY <1>3 DEF Closed
<1>5. data[WaRec] # Nil /\ next[WaRec] = Nil
    BY AllKeysAssumption, RecFacts DEF Init, Nil
<1>6. LinkInv
    BY <1>4, <1>5 DEF Init, LinkInv
<1>7. Chain(head) = {}
    BY ListNil DEF Init, Chain
<1>8. SwapInv /\ RebuildInv
    BY <1>7 DEF Init, SwapInv, RebuildInv, Swapped
<1> QED
    BY <1>1, <1>6, <1>8 DEF IInv

(* Every step of add(), match(), exchange() and delete_all() keeps the     *)
(* types.                                                                  *)
LEMMA NextType == TypeOK /\ LinkInv /\ [Next]_vars => TypeOK'
<1> SUFFICES ASSUME TypeOK, LinkInv, [Next]_vars PROVE TypeOK'
    OBVIOUS
<1>0. Nil \in 0 .. NumRecs /\ 1 .. NumRecs \subseteq 0 .. NumRecs
    BY AllKeysAssumption DEF Nil
<1>1. ASSUME NEW a \in Adders, NEW k \in Keys, AddBegin(a, k) PROVE TypeOK'
  <2>1. PICK r \in 1 .. NumRecs : /\ data' = [data EXCEPT ![r] = k]
                                  /\ adder' = [adder EXCEPT ![a] = [pc |-> "read", rec |-> r]]
    BY <1>1, BeginRecords
  <2>2. data' \in [Recs -> Keys \union {Nil}]
    BY <2>1 DEF TypeOK
  <2>3. adder' \in [Adders -> [pc : {"idle", "read", "cas"}, rec : 0 .. NumRecs]]
    BY <1>0, <2>1 DEF TypeOK
  <2> QED
    BY <1>1, <2>2, <2>3 DEF AddBegin, matchVars, TypeOK
<1>2. ASSUME NEW a \in Adders, AddRead(a) PROVE TypeOK'
    BY <1>2 DEF AddRead, matchVars, TypeOK
<1>3. ASSUME NEW a \in Adders, AddCas(a) PROVE TypeOK'
  <2>1. CASE head = next[adder[a].rec]
    <3>1. head' \in Recs /\ settled' \subseteq Recs
      BY <1>3, <2>1, CasRecords DEF TypeOK
    <3>2. adder' \in [Adders -> [pc : {"idle", "read", "cas"}, rec : 0 .. NumRecs]]
      BY <1>0, <1>3, <2>1, CasRecords DEF TypeOK
    <3> QED
      BY <1>3, <3>1, <3>2 DEF AddCas, matchVars, TypeOK
  <2>2. CASE head # next[adder[a].rec]
    <3>1. adder' \in [Adders -> [pc : {"idle", "read", "cas"}, rec : 0 .. NumRecs]]
      BY <1>3, <2>2, RetryRecords DEF TypeOK
    <3> QED
      BY <1>3, <2>2, <3>1, RetryRecords DEF AddCas, matchVars, TypeOK
  <2> QED
    BY <2>1, <2>2
<1> DEFINE M == [pc : {"idle", "head", "visit", "extract"}, rebuilt : BOOLEAN,
                 cur : Recs \union {Nil}, due : SUBSET Keys, got : SUBSET Keys]
<1>4. \A s \in Linked : data[s] \in Keys
    BY DEF Linked, TypeOK
<1>5. ASSUME NEW m \in Matchers, MatchBegin(m) PROVE TypeOK'
  <2>1. {data[r] : r \in settled} \in SUBSET Keys
    BY <1>4 DEF LinkInv
  <2>2. matcher' \in [Matchers -> M]
    BY <1>5, <2>1 DEF MatchBegin, TypeOK
  <2>3. lock' \in Matchers /\ dirty' \in BOOLEAN
    BY <1>5, Zenon DEF MatchBegin
  <2>4. matches' \in Nat
    BY <1>5 DEF MatchBegin, TypeOK
  <2> QED
    BY <1>5, <2>2, <2>3, <2>4 DEF MatchBegin, listVars, TypeOK
<1>6. ASSUME NEW m \in Matchers, MatchHead(m) PROVE TypeOK'
  <2>1. matcher' \in [Matchers -> M]
    <3>1. matcher \in [Matchers -> M] /\ head \in Recs \union {Nil}
      BY DEF TypeOK
    <3>2. [matcher[m] EXCEPT !.pc = "visit", !.cur = head] \in M
      BY <3>1
    <3>3. matcher' = [matcher EXCEPT ![m] = [matcher[m] EXCEPT !.pc = "visit", !.cur = head]]
      BY <1>6, <3>1 DEF MatchHead
    <3> HIDE DEF M
    <3> QED
      BY <3>1, <3>2, <3>3
  <2> QED
    BY <1>6, <2>1 DEF MatchHead, listVars, TypeOK
<1>7. ASSUME NEW m \in Matchers, MatchVisit(m) PROVE TypeOK'
  <2>1. matcher[m].cur \in Recs \union {Nil}
    BY DEF TypeOK
  <2>2. matcher' \in [Matchers -> M]
    BY <1>7, <2>1 DEF MatchVisit, TypeOK
  <2>3. toMatch' \subseteq Keys
    BY <1>4, <1>7 DEF MatchVisit, TypeOK, LinkInv, Closed
  <2> QED
    BY <1>7, <2>2, <2>3 DEF MatchVisit, listVars, TypeOK
<1>8. ASSUME NEW m \in Matchers, MatchExtract(m) PROVE TypeOK'
  <2>1. matcher' \in [Matchers -> M]
    <3>1. matcher \in [Matchers -> M] /\ toMatch \in SUBSET Keys
      BY DEF TypeOK
    <3>2. [matcher[m] EXCEPT !.pc = "idle", !.got = toMatch] \in M
      BY <3>1
    <3>3. matcher' = [matcher EXCEPT ![m] = [matcher[m] EXCEPT !.pc = "idle", !.got = toMatch]]
      BY <1>8, <3>1 DEF MatchExtract
    <3> HIDE DEF M
    <3> QED
      BY <3>1, <3>2, <3>3
  <2> QED
    BY <1>8, <2>1 DEF MatchExtract, listVars, TypeOK
<1>9. CASE ExchangeRead
    BY <1>9 DEF ExchangeRead, listVars, matchVars, TypeOK
<1>10. CASE ExchangeDirty
    BY <1>10 DEF ExchangeDirty, listVars, matchVars, TypeOK
<1>11. CASE ExchangeCas
    BY <1>11, RecFacts DEF ExchangeCas, matchVars, TypeOK
<1>12. CASE ExchangeClear
    BY <1>12, RecFacts DEF ExchangeClear, listVars, TypeOK
<1>13. CASE DeleteAll
    BY <1>13 DEF DeleteAll, matchVars, TypeOK, Chain, ListFrom
<1>14. CASE UNCHANGED vars
    BY <1>14 DEF vars, TypeOK
<1> QED
    BY <1>1, <1>2, <1>3, <1>5, <1>6, <1>7, <1>8, <1>9, <1>10, <1>11, <1>12, <1>13, <1>14
    DEF Next, AddStep, MatchStep, ExchangeStep

(* Every step keeps what is linked and what is still private to an add().  *)
LEMMA NextLink == TypeOK /\ LinkInv /\ [Next]_vars => LinkInv'
<1> SUFFICES ASSUME TypeOK, LinkInv, [Next]_vars PROVE LinkInv'
    OBVIOUS
<1>1. ASSUME NEW a \in Adders, NEW k \in Keys, AddBegin(a, k) PROVE LinkInv'
  <2>1. PICK r \in 1 .. NumRecs :
            /\ data[r] = Nil /\ data' = [data EXCEPT ![r] = k] /\ k # Nil
            /\ adder' = [adder EXCEPT ![a] = [pc |-> "read", rec |-> r]]
            /\ Linked' = Linked
    BY <1>1, BeginRecords
  <2>2. \A b \in Adders : adder'[b] = IF b = a THEN [pc |-> "read", rec |-> r] ELSE adder[b]
    BY <2>1 DEF TypeOK
  <2>3. r \in Recs /\ r # Nil /\ r # WaRec /\ \A s \in Recs : data'[s] = IF s = r THEN k ELSE data[s]
    BY <2>1, RecFacts DEF TypeOK
  <2>4. \A b \in Adders : adder[b].pc # "idle" => adder[b].rec \in Recs /\ adder[b].rec # r
    BY <2>1, RecFacts DEF TypeOK, LinkInv, Nil
  <2>5. UNCHANGED <<next, head, oldHead, matcher, settled>>
    BY <1>1 DEF AddBegin, matchVars
  <2> QED
    BY <2>1, <2>2, <2>3, <2>4, <2>5, RecFacts DEF LinkInv
<1>2. ASSUME NEW a \in Adders, AddRead(a) PROVE LinkInv'
  <2>1. /\ Linked' = Linked /\ adder[a].rec \in Recs \ Linked
        /\ \A s \in Linked : next'[s] = next[s]
        /\ next'[adder[a].rec] = head
    BY <1>2, ReadRecords
  <2>2. \A b \in Adders : /\ adder'[b].rec = adder[b].rec
                          /\ adder'[b].pc = IF b = a THEN "cas" ELSE adder[b].pc
    BY <1>2 DEF AddRead, TypeOK
  <2>3. adder[a].pc = "read" /\ UNCHANGED <<head, oldHead, matcher, settled, data>>
    BY <1>2 DEF AddRead, matchVars
  <2>4. \A x : Closed(next, x, Linked) => Closed(next', x, Linked)
    BY <2>1 DEF Closed
  <2>5. ASSUME NEW b \in Adders, b # a, adder[b].pc = "cas"
        PROVE  next'[adder[b].rec] = next[adder[b].rec]
    BY <1>2, <2>3, <2>5 DEF AddRead, TypeOK, LinkInv
  <2>6. next'[WaRec] = next[WaRec]
    BY <1>2, RecFacts DEF AddRead, TypeOK
  <2>7. \A b \in Adders : adder'[b].pc = "cas" => Closed(next', next'[adder[b].rec], Linked)
    BY <2>1, <2>2, <2>4, <2>5 DEF LinkInv
  <2> QED
    BY <2>1, <2>2, <2>3, <2>4, <2>6, <2>7 DEF LinkInv
<1>3. ASSUME NEW a \in Adders, AddCas(a), head = next[adder[a].rec] PROVE LinkInv'
  <2> DEFINE r == adder[a].rec
  <2>1. /\ Linked' = Linked \union {r}
        /\ head' = r /\ settled' = settled \union {r}
        /\ adder' = [adder EXCEPT ![a] = [pc |-> "idle", rec |-> Nil]]
    BY <1>3, CasRecords
  <2>2. \A b \in Adders : adder'[b] = IF b = a THEN [pc |-> "idle", rec |-> Nil] ELSE adder[b]
    BY <2>1 DEF TypeOK
  <2>3. UNCHANGED <<next, data, oldHead, matcher>>
    BY <1>3 DEF AddCas, matchVars
  <2>4. Closed(next, head, Linked) /\ head = next[r]
    BY <1>3 DEF LinkInv
  <2> HIDE DEF r
  <2>5. \A x : Closed(next, x, Linked) => Closed(next, x, Linked \union {r})
    BY <2>4 DEF Closed
  <2>6. Closed(next, r, Linked \union {r})
    BY <2>4 DEF Closed
  <2>7. \A b \in Adders : adder'[b].pc # "idle" =>
            b # a /\ adder'[b] = adder[b] /\ adder[b].pc # "idle"
    BY <2>2
  <2>8. /\ Closed(next', head', Linked') /\ Closed(next', oldHead', Linked')
        /\ \A m \in Matchers : Closed(next', matcher'[m].cur, Linked')
        /\ settled' \subseteq Linked'
    BY <2>1, <2>3, <2>5, <2>6 DEF LinkInv
  <2>9. \A b \in Adders : adder'[b].pc = "cas" => Closed(next', next'[adder'[b].rec], Linked')
    BY <2>1, <2>3, <2>5, <2>7 DEF LinkInv
  <2> QED
    BY <2>3, <2>7, <2>8, <2>9 DEF LinkInv
<1>4. ASSUME NEW a \in Adders, AddCas(a), head # next[adder[a].rec] PROVE LinkInv'
  <2>1. Linked' = Linked /\ UNCHANGED <<head, settled>> /\ adder' = [adder EXCEPT ![a].pc = "read"]
    BY <1>4, RetryRecords
  <2>2. \A b \in Adders : /\ adder'[b].rec = adder[b].rec
                          /\ adder'[b].pc = IF b = a THEN "read" ELSE adder[b].pc
    BY <2>1 DEF TypeOK
  <2>3. adder[a].pc = "cas" /\ UNCHANGED <<next, data, oldHead, matcher>>
    BY <1>4 DEF AddCas, matchVars
  <2> QED
    BY <2>1, <2>2, <2>3 DEF LinkInv
<1>5. ASSUME UNCHANGED <<next, data, adder>>, Closed(next, head', Linked),
             Closed(next, oldHead', Linked), settled' \subseteq Linked,
             \A m \in Matchers : Closed(next, matcher'[m].cur, Linked)
      PROVE  LinkInv'
  <2>1. Linked' = Linked
    BY <1>5 DEF Linked, Pending
  <2> QED
    BY <1>5, <2>1 DEF LinkInv
<1>6. Closed(next, Nil, Linked) /\ Closed(next, head, Linked) /\ Closed(next, oldHead, Linked)
    BY DEF LinkInv, Closed
<1>7. ASSUME NEW m \in Matchers, MatchBegin(m) \/ MatchStep(m) PROVE LinkInv'
  <2>1. \/ matcher'[m].cur = Nil \/ matcher'[m].cur = head \/ matcher'[m].cur = matcher[m].cur
        \/ matcher[m].cur # Nil /\ matcher'[m].cur = next[matcher[m].cur]
    <3>1. CASE MatchBegin(m)
      BY <3>1 DEF MatchBegin, TypeOK
    <3>2. CASE MatchHead(m)
      BY <3>2 DEF MatchHead, TypeOK
    <3>3. CASE MatchVisit(m)
      BY <3>3 DEF MatchVisit, TypeOK
    <3>4. CASE MatchExtract(m)
      BY <3>4 DEF MatchExtract, TypeOK
    <3> QED
      BY <1>7, <3>1, <3>2, <3>3, <3>4 DEF MatchStep
  <2>2. \A n \in Matchers : n # m => matcher'[n] = matcher[n]
    BY <1>7 DEF MatchBegin, MatchStep, MatchHead, MatchVisit, MatchExtract, TypeOK
  <2>3. Closed(next, matcher[m].cur, Linked)
    BY DEF LinkInv
  <2>4. Closed(next, matcher'[m].cur, Linked)
    BY <1>6, <2>1, <2>3 DEF Closed
  <2>5. UNCHANGED <<next, data, adder, head, oldHead, settled>>
    BY <1>7 DEF MatchBegin, MatchStep, MatchHead, MatchVisit, MatchExtract, listVars
  <2> QED
    BY <1>5, <1>6, <2>2, <2>4, <2>5 DEF LinkInv
<1>8. CASE ExchangeStep
  <2>1. UNCHANGED <<next, data, adder, matcher>>
    BY <1>8 DEF ExchangeStep, ExchangeRead, ExchangeDirty, ExchangeCas, ExchangeClear, DeleteAll,
                listVars, matchVars
  <2>2. WaRec \in Linked /\ Closed(next, WaRec, Linked)
    <3>1. WaRec \notin Pending
      BY RecFacts, AllKeysAssumption DEF Pending, TypeOK, WaRec
    <3>2. WaRec \in Linked
      BY <3>1, RecFacts DEF Linked, LinkInv
    <3> QED
      BY <3>2 DEF LinkInv, Closed
  <2>3. head' \in {head, WaRec} /\ oldHead' \in {head, oldHead}
        /\ settled' \subseteq settled \union {WaRec}
    BY <1>8 DEF ExchangeStep, ExchangeRead, ExchangeDirty, ExchangeCas, ExchangeClear, DeleteAll,
                listVars
  <2> QED
    BY <1>5, <1>6, <2>1, <2>2, <2>3 DEF LinkInv
<1>9. CASE UNCHANGED vars
    BY <1>5, <1>9 DEF vars, LinkInv
<1> QED
    BY <1>1, <1>2, <1>3, <1>4, <1>7, <1>8, <1>9 DEF Next, AddStep

-----------------------------------------------------------------------------
(* The list, before and after each step.                                   *)

(* add() pushes its record in front.                                       *)
LEMMA CasChain ==
    ASSUME TypeOK, LinkInv, NEW a \in Adders, AddCas(a), head = next[adder[a].rec]
    PROVE  /\ Chain(head)' = {adder[a].rec} \union Chain(head)
           /\ Chain(oldHead)' = Chain(oldHead)
           /\ \A m \in Matchers : Chain(matcher[m].cur)' = Chain(matcher[m].cur)
<1> DEFINE r == adder[a].rec
<1>1. head' = r /\ UNCHANGED <<next, oldHead, matcher>> /\ r \in Recs /\ next \in Nexts
    BY CasRecords DEF AddCas, matchVars, TypeOK, Nexts
<1>2. ListFrom(next, r) = {r} \union ListFrom(next, head)
    BY <1>1, ListStep
<1> QED
    BY <1>1, <1>2 DEF Chain

(* No other step of add() or match() changes it.                           *)
LEMMA SameChain ==
    ASSUME TypeOK, LinkInv, \A s \in Linked : next'[s] = next[s], head' = head, oldHead' = oldHead
    PROVE  /\ Chain(head)' = Chain(head) /\ Chain(oldHead)' = Chain(oldHead)
           /\ Chain(head) \subseteq Linked /\ Chain(oldHead) \subseteq Linked
           /\ \A m \in Matchers : ListFrom(next', matcher[m].cur) = Chain(matcher[m].cur)
                                  /\ Chain(matcher[m].cur) \subseteq Linked
BY ListsKept DEF LinkInv, Chain

(* What add() does but for its successful compare-and-exchange, and        *)
(* match(), do not touch the records of the list.                          *)
Tries(a) ==
    (\E k \in Keys : AddBegin(a, k)) \/ AddRead(a) \/ (AddCas(a) /\ head # next[adder[a].rec])

Quiet ==
    \/ \E a \in Adders : Tries(a)
    \/ \E m \in Matchers : MatchBegin(m) \/ MatchStep(m)
    \/ UNCHANGED vars

Pushes(a) == AddCas(a) /\ head = next[adder[a].rec]

(* A step either links a record, or leaves the list alone, or is one of    *)
(* exchange() and delete_all().                                            *)
LEMMA StepKinds == [Next]_vars => (\E a \in Adders : Pushes(a)) \/ Quiet \/ ExchangeStep
<1> SUFFICES ASSUME [Next]_vars PROVE (\E a \in Adders : Pushes(a)) \/ Quiet \/ ExchangeStep
    OBVIOUS
<1>1. ASSUME NEW a \in Adders, AddStep(a) \/ \E k \in Keys : AddBegin(a, k)
      PROVE  Pushes(a) \/ Tries(a)
    BY <1>1 DEF AddStep, Pushes, Tries
<1> QED
    BY <1>1 DEF Next, Quiet

(* A step that leaves the list alone changes no linked record.             *)
LEMMA ListUntouched ==
    ASSUME TypeOK, LinkInv, Quiet
    PROVE  /\ \A s \in Linked : next'[s] = next[s] /\ data'[s] = data[s]
           /\ UNCHANGED <<head, oldHead, xpc, settled, freed>>
<1>1. ASSUME NEW a \in Adders, NEW k \in Keys, AddBegin(a, k)
      PROVE  /\ \A s \in Linked : next'[s] = next[s] /\ data'[s] = data[s]
             /\ UNCHANGED <<head, oldHead, xpc, settled, freed>>
  <2>1. \A s \in Linked : data'[s] = data[s]
    BY <1>1, BeginRecords DEF TypeOK, Linked
  <2> QED
    BY <1>1, <2>1 DEF AddBegin
<1>2. ASSUME NEW a \in Adders, AddRead(a)
      PROVE  /\ \A s \in Linked : next'[s] = next[s] /\ data'[s] = data[s]
             /\ UNCHANGED <<head, oldHead, xpc, settled, freed>>
    BY <1>2, ReadRecords DEF AddRead
<1>3. ASSUME NEW a \in Adders, AddCas(a), head # next[adder[a].rec]
      PROVE  /\ \A s \in Linked : next'[s] = next[s] /\ data'[s] = data[s]
             /\ UNCHANGED <<head, oldHead, xpc, settled, freed>>
    BY <1>3 DEF AddCas
<1>4. ASSUME NEW m \in Matchers, MatchBegin(m) \/ MatchStep(m)
      PROVE  /\ \A s \in Linked : next'[s] = next[s] /\ data'[s] = data[s]
             /\ UNCHANGED <<head, oldHead, xpc, settled, freed>>
    BY <1>4 DEF MatchBegin, MatchStep, MatchHead, MatchVisit, MatchExtract, listVars
<1>5. CASE UNCHANGED vars
    BY <1>5 DEF vars
<1> QED
    BY <1>1, <1>2, <1>3, <1>4, <1>5 DEF Quiet, Tries

(* No step puts a record of the old list into the new one, or back.        *)
LEMMA NextSwap == TypeOK /\ LinkInv /\ SwapInv /\ [Next]_vars => SwapInv'
<1> SUFFICES ASSUME TypeOK, LinkInv, SwapInv, [Next]_vars PROVE SwapInv'
    OBVIOUS
<1>1. ASSUME UNCHANGED <<xpc, freed>>, Chain(head)' = Chain(head), Chain(oldHead)' = Chain(oldHead)
      PROVE  SwapInv'
    BY <1>1 DEF SwapInv, Swapped
<1>2. ASSUME NEW a \in Adders, AddCas(a), head = next[adder[a].rec] PROVE SwapInv'
  <2>1. adder[a].rec \notin Linked /\ adder[a].rec # WaRec
    BY <1>2, CasRecords, RecFacts
  <2>2. Chain(oldHead) \subseteq Linked
    BY ListWithin DEF LinkInv, Chain, Linked
  <2>3. UNCHANGED <<xpc, freed>>
    BY <1>2 DEF AddCas
  <2> QED
    BY <1>2, <2>1, <2>2, <2>3, CasChain DEF SwapInv, Swapped
<1>3. CASE ExchangeRead \/ ExchangeDirty
  <2>1. ~Swapped /\ ~Swapped' /\ UNCHANGED <<head, next, freed>>
    BY <1>3 DEF ExchangeRead, ExchangeDirty, Swapped, listVars
  <2> QED
    BY <2>1 DEF SwapInv, Chain
<1>4. CASE ExchangeCas
  <2>1. head' = WaRec /\ oldHead' = head /\ next' = next /\ freed' = freed /\ ~Swapped /\ Swapped'
    BY <1>4 DEF ExchangeCas, Swapped
  <2>2. ListFrom(next, WaRec) = {WaRec}
    BY ListStep, ListNil, RecFacts DEF TypeOK, LinkInv, Nexts
  <2> QED
    BY <2>1, <2>2 DEF SwapInv, Chain
<1>5. CASE ExchangeClear \/ DeleteAll
  <2>1. Swapped /\ Swapped' /\ UNCHANGED <<head, oldHead, next>> /\ freed' \subseteq freed \union Chain(oldHead)
    BY <1>5 DEF ExchangeClear, DeleteAll, Swapped, listVars
  <2> QED
    BY <2>1 DEF SwapInv, Chain
<1>6. ASSUME Quiet
      PROVE  SwapInv'
    BY <1>1, <1>6, ListUntouched, SameChain
<1> QED
    BY <1>2, <1>3, <1>4, <1>5, <1>6, StepKinds DEF Pushes, ExchangeStep

-----------------------------------------------------------------------------
(* A rebuild of toMatch_.                                                  *)

Behind(m) ==
    matcher[m].rebuilt =>
        /\ matcher[m].pc = "head" => matcher[m].due \subseteq {data[r] : r \in Chain(head)}
        /\ matcher[m].pc = "visit" =>
              matcher[m].due \subseteq toMatch \union {data[r] : r \in Chain(matcher[m].cur)}
        /\ matcher[m].pc = "extract" => matcher[m].due \subseteq toMatch

(* A matcher that does not move loses nothing when the list and toMatch_   *)
(* only grow.                                                              *)
LEMMA BehindKept ==
    ASSUME NEW m \in Matchers, Behind(m), matcher'[m] = matcher[m],
           \A s \in Linked : data'[s] = data[s],
           Chain(head) \subseteq Linked, Chain(head) \subseteq Chain(head)',
           Chain(matcher[m].cur) \subseteq Linked, Chain(matcher[m].cur)' = Chain(matcher[m].cur),
           toMatch \subseteq toMatch'
    PROVE  Behind(m)'
BY DEF Behind

(* The steps of a matcher.                                                 *)
LEMMA BehindMoves ==
    ASSUME TypeOK, LinkInv, settled \subseteq Chain(head),
           NEW m \in Matchers, Behind(m), MatchBegin(m) \/ MatchStep(m)
    PROVE  Behind(m)' /\ toMatch \subseteq toMatch'
<1>1. UNCHANGED <<next, data, head>>
    BY DEF MatchBegin, MatchStep, MatchHead, MatchVisit, MatchExtract, listVars
<1>2. Chain(head)' = Chain(head)
    BY <1>1 DEF Chain
<1>3. CASE MatchBegin(m)
  <2>1. /\ matcher'[m].rebuilt = dirty /\ matcher'[m].due = {data[r] : r \in settled}
        /\ matcher'[m].pc = IF dirty THEN "head" ELSE "extract"
        /\ toMatch' = toMatch
    BY <1>3 DEF MatchBegin, TypeOK
  <2> QED
    BY <1>1, <1>2, <2>1 DEF Behind
<1>4. CASE MatchHead(m)
  <2>1. /\ matcher'[m].pc = "visit" /\ matcher'[m].cur = head /\ matcher[m].pc = "head"
        /\ matcher'[m].rebuilt = matcher[m].rebuilt /\ matcher'[m].due = matcher[m].due
        /\ toMatch' = toMatch
    BY <1>4 DEF MatchHead, TypeOK
  <2>2. Chain(matcher[m].cur)' = Chain(head)
    BY <1>1, <2>1 DEF Chain
  <2> QED
    BY <1>1, <2>1, <2>2 DEF Behind
<1>5. CASE MatchVisit(m) /\ matcher[m].cur = Nil
  <2>1. /\ matcher'[m].pc = "extract" /\ matcher[m].pc = "visit"
        /\ matcher'[m].rebuilt = matcher[m].rebuilt /\ matcher'[m].due = matcher[m].due
        /\ toMatch' = toMatch
    BY <1>5 DEF MatchVisit, TypeOK
  <2>2. Chain(matcher[m].cur) = {}
    BY <1>5, ListNil DEF Chain
  <2> QED
    BY <2>1, <2>2 DEF Behind
<1>6. CASE MatchVisit(m) /\ matcher[m].cur # Nil
  <2> DEFINE r == matcher[m].cur
  <2>1. /\ matcher'[m].pc = "visit" /\ matcher[m].pc = "visit" /\ matcher'[m].cur = next[r]
        /\ matcher'[m].rebuilt = matcher[m].rebuilt /\ matcher'[m].due = matcher[m].due
        /\ toMatch' = toMatch \union {data[r]}
    BY <1>6 DEF MatchVisit, TypeOK
  <2>2. r \in Recs /\ next \in Nexts
    BY <1>6 DEF TypeOK, Nexts
  <2>3. Chain(r) = {r} \union Chain(next[r])
    BY <2>2, ListStep DEF Chain
  <2>4. Chain(matcher[m].cur)' = Chain(next[r])
    BY <1>1, <2>1 DEF Chain
  <2> QED
    BY <1>1, <2>1, <2>3, <2>4 DEF Behind
<1>7. CASE MatchExtract(m)
  <2>1. matcher'[m].pc = "idle" /\ toMatch' = toMatch
    BY <1>7 DEF MatchExtract, TypeOK
  <2> QED
    BY <2>1 DEF Behind
<1> QED
    BY <1>3, <1>4, <1>5, <1>6, <1>7 DEF MatchStep

(* No step loses a key that was in the list when the new one was begun.    *)
LEMMA NextRebuild == TypeOK /\ LinkInv /\ RebuildInv /\ [Next]_vars => RebuildInv'
<1> SUFFICES ASSUME TypeOK, LinkInv, RebuildInv, [Next]_vars, xpc' = "idle"
             PROVE  settled' \subseteq Chain(head)' /\ \A m \in Matchers : Behind(m)'
    BY DEF RebuildInv, Behind
<1>1. xpc = "idle" /\ ~ExchangeStep
    BY DEF ExchangeStep, ExchangeRead, ExchangeDirty, ExchangeCas, ExchangeClear, DeleteAll,
           Next, AddStep, AddBegin, AddRead, AddCas, MatchStep, MatchBegin, MatchHead, MatchVisit,
           MatchExtract, vars
<1>2. settled \subseteq Chain(head) /\ \A m \in Matchers : Behind(m)
    BY <1>1 DEF RebuildInv, Behind
<1>3. /\ Chain(head) \subseteq Linked
      /\ \A m \in Matchers : Chain(matcher[m].cur) \subseteq Linked
    BY ListWithin DEF LinkInv, Chain, Linked
<1>4. ASSUME NEW a \in Adders, AddCas(a), head = next[adder[a].rec]
      PROVE  settled' \subseteq Chain(head)' /\ \A m \in Matchers : Behind(m)'
  <2>1. UNCHANGED <<data, toMatch, matcher>>
    BY <1>4 DEF AddCas, matchVars
  <2>2. /\ Chain(head)' = {adder[a].rec} \union Chain(head)
        /\ \A m \in Matchers : Chain(matcher[m].cur)' = Chain(matcher[m].cur)
    BY <1>4, CasChain
  <2>3. settled' = settled \union {adder[a].rec}
    BY <1>4, CasRecords
  <2> QED
    BY <1>2, <1>3, <2>1, <2>2, <2>3, BehindKept
<1>5. ASSUME Quiet
      PROVE  /\ \A s \in Linked : next'[s] = next[s] /\ data'[s] = data[s]
             /\ UNCHANGED settled /\ Chain(head)' = Chain(head)
             /\ \A m \in Matchers : ListFrom(next', matcher[m].cur) = Chain(matcher[m].cur)
  <2>1. /\ \A s \in Linked : next'[s] = next[s] /\ data'[s] = data[s]
        /\ UNCHANGED <<head, oldHead, settled>>
    BY <1>5, ListUntouched
  <2> QED
    BY <2>1, SameChain
<1>6. ASSUME Quiet, UNCHANGED <<toMatch, matcher>>
      PROVE  settled' \subseteq Chain(head)' /\ \A m \in Matchers : Behind(m)'
  <2>1. \A m \in Matchers : Chain(matcher[m].cur)' = Chain(matcher[m].cur)
    BY <1>5, <1>6 DEF Chain
  <2> QED
    BY <1>2, <1>3, <1>5, <1>6, <2>1, BehindKept
<1>7. ASSUME NEW m \in Matchers, MatchBegin(m) \/ MatchStep(m)
      PROVE  settled' \subseteq Chain(head)' /\ \A n \in Matchers : Behind(n)'
  <2>1. UNCHANGED <<next, data, head, settled>>
    BY <1>7 DEF MatchBegin, MatchStep, MatchHead, MatchVisit, MatchExtract, listVars
  <2>2. \A n \in Matchers : n # m => matcher'[n] = matcher[n]
    BY <1>7 DEF MatchBegin, MatchStep, MatchHead, MatchVisit, MatchExtract, TypeOK
  <2>3. Behind(m)' /\ toMatch \subseteq toMatch'
    BY <1>2, <1>7, BehindMoves
  <2>4. ASSUME NEW n \in Matchers, n # m PROVE Behind(n)'
    BY <1>2, <1>3, <2>1, <2>2, <2>3, <2>4, BehindKept DEF Chain
  <2> QED
    BY <1>2, <2>1, <2>3, <2>4 DEF Chain
<1>8. ASSUME NEW a \in Adders, Tries(a) PROVE UNCHANGED <<toMatch, matcher>>
    BY <1>8 DEF Tries, AddBegin, AddRead, AddCas, matchVars
<1>9. CASE Quiet
    BY <1>6, <1>7, <1>8, <1>9 DEF Quiet, vars
<1> QED
    BY <1>1, <1>4, <1>9, StepKinds DEF Pushes

(* Every step keeps the inductive invariant.                               *)
LEMMA NextInv == IInv /\ [Next]_vars => IInv'
BY NextType, NextLink, NextSwap, NextRebuild DEF IInv

-----------------------------------------------------------------------------
(* A match() that found dirty_ set has every name whose add() returned     *)
(* before it began, for any number of threads and of pushes that race with *)
(* it, as long as no exchange() interferes.                                *)
THEOREM RebuildsComplete == Spec => []RebuildComplete
<1>1. IInv => RebuildComplete
    BY DEF IInv, RebuildInv, RebuildComplete
<1> QED
    BY <1>1, InitInv, NextInv, PTL DEF Spec

(* delete_all(), called with the list exchange() gave back, frees no       *)
(* record that is in the list of the others.                               *)
THEOREM FreedIsUnlinked == Spec => []ListNotFreed
<1>1. IInv => ListNotFreed
    BY DEF IInv, SwapInv, ListNotFreed
<1> QED
    BY <1>1, InitInv, NextInv, PTL DEF Spec

(* The list implements a set of names that changes at single instants: a   *)
(* compare-and-exchange of add() adds its name, that of exchange()         *)
(* replaces the set, and no other access changes it.                       *)
THEOREM ListImplementsKeySet == Spec => ImplementsKeySet
<1> DEFINE e == IF xpc \in {"clear", "free", "done"} THEN 1 ELSE 0
<1>1. Init => K!Init
  <2> SUFFICES ASSUME Init PROVE K!Init
    OBVIOUS
  <2>1. Chain(head) = {}
    BY ListNil DEF Init, Chain
  <2>2. Contents = {} /\ e = 0
    BY <2>1 DEF Init, Contents
  <2> QED
    BY <2>2 DEF K!Init
<1>2. IInv /\ [Next]_vars => [K!Add \/ K!Exchange]_<<Contents, e>>
  <2> SUFFICES ASSUME IInv, [Next]_vars PROVE (K!Add \/ K!Exchange) \/ UNCHANGED <<Contents, e>>
    OBVIOUS
  <2>0. TypeOK /\ LinkInv /\ SwapInv
    BY DEF IInv
  <2>1. ASSUME NEW a \in Adders, AddCas(a), head = next[adder[a].rec] PROVE K!Add
    <3>1. data' = data /\ xpc' = xpc /\ Chain(head)' = {adder[a].rec} \union Chain(head)
      BY <2>0, <2>1, CasChain DEF AddCas
    <3>2. data[adder[a].rec] \in Keys
      BY <2>0, <2>1, CasRecords DEF TypeOK, LinkInv, AddCas
    <3>3. Contents' = Contents \union {data[adder[a].rec]} /\ e' = e
      BY <3>1 DEF Contents
    <3> QED
      BY <3>2, <3>3 DEF K!Add
  <2>2. ASSUME Quiet
        PROVE  UNCHANGED <<Contents, e>>
    <3>1. /\ \A s \in Linked : next'[s] = next[s] /\ data'[s] = data[s]
          /\ UNCHANGED <<head, oldHead, xpc>>
      BY <2>0, <2>2, ListUntouched
    <3>2. Chain(head)' = Chain(head) /\ Chain(head) \subseteq Linked
      BY <2>0, <3>1, SameChain
    <3>3. Contents' = Contents
      BY <3>1, <3>2 DEF Contents
    <3> QED
      BY <3>1, <3>3
  <2>3. CASE ExchangeCas
    <3>1. head' = WaRec /\ next' = next /\ data' = data /\ xpc = "cas" /\ xpc' = "clear"
      BY <2>3 DEF ExchangeCas
    <3>2. ListFrom(next, WaRec) = {WaRec} /\ data[WaRec] \in Keys
      BY <2>0, ListStep, ListNil, RecFacts DEF TypeOK, LinkInv, Nexts
    <3>3. Contents' = {data[WaRec]}
      BY <3>1, <3>2 DEF Contents, Chain
    <3>4. e = 0 /\ e' = 1
      BY <3>1
    <3> QED
      BY <3>2, <3>3, <3>4 DEF K!Exchange
  <2>4. CASE ExchangeRead \/ ExchangeDirty \/ ExchangeClear \/ DeleteAll
    <3>1. UNCHANGED <<head, next, data>> /\ e' = e
      BY <2>4 DEF ExchangeRead, ExchangeDirty, ExchangeClear, DeleteAll, listVars
    <3> QED
      BY <3>1 DEF Contents, Chain
  <2> QED
    BY <2>1, <2>2, <2>3, <2>4, StepKinds DEF Pushes, ExchangeStep
<1> QED
    BY InitInv, NextInv, <1>1, <1>2, PTL DEF Spec, ImplementsKeySet, K!Spec

=============================================================================
