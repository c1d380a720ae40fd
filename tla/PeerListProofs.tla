--------------------------- MODULE PeerListProofs ---------------------------
(***************************************************************************)
(* Theorems about the list of peers: what its operations make of it, what  *)
(* the Manager of Discovery puts there for every set of reports, callers   *)
(* and nicknames, and what App sends to, shows and starts, for every set   *)
(* of peers, directories and filters.                                      *)
(***************************************************************************)
EXTENDS Discovery, App, FiniteSetTheorems, SequenceTheorems, WellFoundedInduction, TLAPS

---------------------------------------------------------------------------
(* The operations of PeerList.                                             *)

LEMMA NatMin ==
  ASSUME NEW T \in SUBSET Nat, T # {}
  PROVE  \E x \in T : \A y \in T : x <= y
<1>1. IsWellFoundedOn(OpToRel(<, Nat), Nat)
  BY NatLessThanWellFounded
<1>2. PICK x \in T : \A y \in T : ~(<<y, x>> \in OpToRel(<, Nat))
  BY <1>1, WFMin
<1>3. \A y \in T : <<y, x>> \in OpToRel(<, Nat) <=> y < x
  BY DEF OpToRel
<1>4. \A y \in T : ~(y < x)
  BY <1>2, <1>3
<1>. QED BY <1>4

(* The positions of kept up to i, and how many they are.                   *)
UpTo(kept, i) == {j \in kept : j <= i}

LEMMA RankType ==
  ASSUME NEW n \in Nat, NEW kept \in SUBSET (1..n)
  PROVE  /\ IsFiniteSet(kept) /\ Cardinality(kept) \in Nat
         /\ \A i \in kept : /\ IsFiniteSet(UpTo(kept, i))
                           /\ Cardinality(UpTo(kept, i)) \in 1..Cardinality(kept)
<1>1. IsFiniteSet(1..n)
  BY FS_Interval
<1>2. IsFiniteSet(kept) /\ Cardinality(kept) \in Nat
  BY <1>1, FS_Subset, FS_CardinalityType
<1>3. ASSUME NEW i \in kept
      PROVE  /\ IsFiniteSet(UpTo(kept, i))
             /\ Cardinality(UpTo(kept, i)) \in 1..Cardinality(kept)
  <2>1. UpTo(kept, i) \subseteq kept /\ i \in UpTo(kept, i)
    BY DEF UpTo
  <2>2. /\ IsFiniteSet(UpTo(kept, i))
        /\ Cardinality(UpTo(kept, i)) <= Cardinality(kept)
        /\ Cardinality(UpTo(kept, i)) \in Nat
    BY <1>2, <2>1, FS_Subset, FS_CardinalityType
  <2>3. Cardinality(UpTo(kept, i)) # 0
    BY <2>1, <2>2, FS_EmptySet
  <2>. QED BY <1>2, <2>2, <2>3
<1>. QED BY <1>2, <1>3

(* A later position has a higher rank.                                     *)
LEMMA RankGrows ==
  ASSUME NEW n \in Nat, NEW kept \in SUBSET (1..n), NEW i \in kept, NEW j \in kept, i < j
  PROVE  Cardinality(UpTo(kept, i)) < Cardinality(UpTo(kept, j))
<1>0. \A k \in kept : k \in Nat /\ k <= k
  OBVIOUS
<1>1. UpTo(kept, i) \in SUBSET UpTo(kept, j)
  <2>1. \A k \in kept : k <= i => k <= j
    BY <1>0
  <2>. QED BY <2>1 DEF UpTo
<1>2. j \in UpTo(kept, j) /\ j \notin UpTo(kept, i)
  BY <1>0 DEF UpTo
<1>3. IsFiniteSet(UpTo(kept, j)) /\ IsFiniteSet(UpTo(kept, i))
  BY RankType
<1>4. /\ Cardinality(UpTo(kept, i)) <= Cardinality(UpTo(kept, j))
      /\ Cardinality(UpTo(kept, j)) = Cardinality(UpTo(kept, i)) =>
            UpTo(kept, j) = UpTo(kept, i)
  BY <1>1, <1>3, FS_Subset
<1>5. Cardinality(UpTo(kept, i)) \in Nat /\ Cardinality(UpTo(kept, j)) \in Nat
  BY <1>3, FS_CardinalityType
<1>. QED BY <1>2, <1>4, <1>5

(* Every rank up to the number of positions is one position's: were k the  *)
(* first that is not, the position after that of rank k - 1 would have it. *)
LEMMA RankExists ==
  ASSUME NEW n \in Nat, NEW kept \in SUBSET (1..n), NEW k \in 1..Cardinality(kept)
  PROVE  \E i \in kept : Cardinality(UpTo(kept, i)) = k
<1> DEFINE Missing == {m \in 1..Cardinality(kept) :
                         ~\E i \in kept : Cardinality(UpTo(kept, i)) = m}
<1> SUFFICES ASSUME Missing # {} PROVE FALSE
  OBVIOUS
<1>0. IsFiniteSet(kept) /\ Cardinality(kept) \in Nat
  BY RankType
<1>1. PICK m \in Missing : \A y \in Missing : m <= y
  <2>1. Missing \in SUBSET Nat
    BY <1>0
  <2>. QED BY <2>1, NatMin
<1>2. m \in 1..Cardinality(kept) /\ ~\E i \in kept : Cardinality(UpTo(kept, i)) = m
  OBVIOUS
<1> HIDE DEF Missing
(* The positions before: those of rank below m.                            *)
<1>3. PICK before \in SUBSET kept :
        /\ Cardinality(before) = m - 1
        /\ \A i \in before : \A j \in kept : j <= i => j \in before
  <2>1. CASE m = 1
    <3>1. {} \in SUBSET kept /\ Cardinality({}) = m - 1
      BY <2>1, FS_EmptySet
    <3>. QED BY <3>1
  <2>2. CASE m # 1
    <3>1. m - 1 \in 1..Cardinality(kept) /\ m - 1 \notin Missing
      BY <1>0, <1>1, <1>2, <2>2
    <3>2. PICK i \in kept : Cardinality(UpTo(kept, i)) = m - 1
      BY <3>1 DEF Missing
    <3>3. \A x \in UpTo(kept, i) : \A j \in kept : j <= x => j \in UpTo(kept, i)
      BY DEF UpTo
    <3>4. UpTo(kept, i) \in SUBSET kept
      BY DEF UpTo
    <3>. QED BY <3>2, <3>3, <3>4
  <2>. QED BY <2>1, <2>2
<1>4. IsFiniteSet(before)
  BY <1>0, FS_Subset
<1>5. PICK i \in kept \ before : \A j \in kept \ before : i <= j
  <2>1. kept \ before # {}
    <3>1. before # kept
      BY <1>0, <1>2, <1>3
    <3>. QED BY <3>1
  <2>2. kept \ before \in SUBSET Nat
    OBVIOUS
  <2>. QED BY <2>1, <2>2, NatMin
<1>6. UpTo(kept, i) = before \cup {i}
  <2>1. ASSUME NEW j \in kept, j <= i PROVE j \in before \cup {i}
    BY <1>5, <2>1
  <2>2. ASSUME NEW j \in before PROVE j <= i
    <3>1. i <= j => i \in before
      BY <1>3
    <3>. QED BY <1>5, <3>1
  <2>3. i <= i
    OBVIOUS
  <2>4. \A j : j \in UpTo(kept, i) <=> j \in before \cup {i}
    BY <2>1, <2>2, <2>3 DEF UpTo
  <2>. QED BY <2>4
<1>7. Cardinality(UpTo(kept, i)) = m
  <2>1. Cardinality(before \cup {i}) = Cardinality(before) + 1
    BY <1>4, <1>5, FS_AddElement
  <2>. QED BY <1>0, <1>2, <1>3, <1>6, <2>1
<1>. QED BY <1>2, <1>5, <1>7

(* Picked is a sequence of what was kept, all of it, in its order.         *)
LEMMA PickedProperties ==
  ASSUME NEW S, NEW list \in Seq(S), NEW kept \in SUBSET (DOMAIN list)
  PROVE  /\ Picked(list, kept) \in Seq(S)
         /\ DOMAIN Picked(list, kept) = 1..Cardinality(kept)
         /\ Cardinality(kept) \in Nat
         /\ \E at \in [1..Cardinality(kept) -> kept] :
              /\ \A k \in 1..Cardinality(kept) : Picked(list, kept)[k] = list[at[k]]
              /\ \A j, k \in 1..Cardinality(kept) : at[j] = at[k] => j = k
              /\ \A i \in kept : \E k \in 1..Cardinality(kept) : at[k] = i
<1> DEFINE c == Cardinality(kept)
           at == [k \in 1..c |-> CHOOSE i \in kept : Cardinality(UpTo(kept, i)) = k]
<1>0. Len(list) \in Nat /\ kept \in SUBSET (1..Len(list))
  OBVIOUS
<1>1. c \in Nat /\ \A i \in kept : Cardinality(UpTo(kept, i)) \in 1..c
  BY <1>0, RankType
<1>2. \A k \in 1..c : at[k] \in kept /\ Cardinality(UpTo(kept, at[k])) = k
  BY <1>0, RankExists
<1>3. ASSUME NEW i \in kept PROVE \E k \in 1..c : at[k] = i
  <2> DEFINE k == Cardinality(UpTo(kept, i))
  <2>1. k \in 1..c
    BY <1>1
  <2>2. at[k] \in kept /\ Cardinality(UpTo(kept, at[k])) = k
    BY <1>2, <2>1
  <2>3. ~(at[k] < i) /\ ~(i < at[k])
    <3>1. PICK p \in kept : p = at[k] /\ Cardinality(UpTo(kept, p)) = k
      BY <2>2
    <3>2. ~(k < k)
      BY <1>1, <2>1
    <3>3. ~(p < i)
      BY <1>0, <3>1, <3>2, RankGrows
    <3>4. ~(i < p)
      BY <1>0, <3>1, <3>2, RankGrows
    <3>. QED BY <3>1, <3>3, <3>4
  <2>4. at[k] \in Nat /\ i \in Nat
    BY <1>0, <2>2
  <2>. QED BY <2>1, <2>3, <2>4
<1>4. Picked(list, kept) = [k \in 1..c |-> list[at[k]]]
  BY DEF Picked, UpTo
<1>5. \A k \in 1..c : list[at[k]] \in S
  BY <1>0, <1>2
<1>6. at \in [1..c -> kept]
  BY <1>2
<1>7. \A j, k \in 1..c : at[j] = at[k] => j = k
  BY <1>2
<1> HIDE DEF at
<1>8. \A k \in 1..c : Picked(list, kept)[k] = list[at[k]]
  BY <1>4
<1>9. Picked(list, kept) \in Seq(S) /\ DOMAIN Picked(list, kept) = 1..c
  BY <1>1, <1>4, <1>5
<1>. QED BY <1>1, <1>3, <1>6, <1>7, <1>8, <1>9

(* What remains are the rows without that ID, each in a place of its own.  *)
LEMMA RemoveProperties ==
  ASSUME NEW S, NEW list \in Seq(S), NEW id
  PROVE  LET left == removePeer(list, id) IN
         /\ left \in Seq(S)
         /\ \A i \in DOMAIN list : list[i].id # id => \E k \in DOMAIN left : left[k] = list[i]
         /\ \A k \in DOMAIN left : \E i \in DOMAIN list :
              left[k] = list[i] /\ list[i].id # id
         /\ \A j, k \in DOMAIN left : j # k =>
              \E h, i \in DOMAIN list : h # i /\ left[j] = list[h] /\ left[k] = list[i]
<1> DEFINE kept == {i \in DOMAIN list : list[i].id # id}
           c == Cardinality(kept)
           left == removePeer(list, id)
<1>1. kept \in SUBSET (DOMAIN list) /\ left = Picked(list, kept)
  BY DEF removePeer
<1>2. /\ \A i \in kept : i \in DOMAIN list /\ list[i].id # id
      /\ \A i \in DOMAIN list : list[i].id # id => i \in kept
  OBVIOUS
<1> HIDE DEF kept, left
<1>3. /\ left \in Seq(S) /\ DOMAIN left = 1..c
      /\ \E at \in [1..c -> kept] :
           /\ \A k \in 1..c : left[k] = list[at[k]]
           /\ \A j, k \in 1..c : at[j] = at[k] => j = k
           /\ \A i \in kept : \E k \in 1..c : at[k] = i
  BY <1>1, PickedProperties
<1>4. PICK at \in [1..c -> kept] :
           /\ \A k \in 1..c : left[k] = list[at[k]]
           /\ \A j, k \in 1..c : at[j] = at[k] => j = k
           /\ \A i \in kept : \E k \in 1..c : at[k] = i
  BY <1>3
<1>5. \A i \in DOMAIN list : list[i].id # id => \E k \in DOMAIN left : left[k] = list[i]
  BY <1>2, <1>3, <1>4
<1>6. \A k \in DOMAIN left : \E i \in DOMAIN list : left[k] = list[i] /\ list[i].id # id
  BY <1>2, <1>3, <1>4
<1>7. \A j, k \in DOMAIN left : j # k =>
        \E h, i \in DOMAIN list : h # i /\ left[j] = list[h] /\ left[k] = list[i]
  BY <1>2, <1>3, <1>4
<1>. QED BY <1>3, <1>5, <1>6, <1>7 DEF left

(* A row is added for a peer without one, else one of its rows is updated. *)
LEMMA UpdateProperties ==
  ASSUME NEW S, NEW list \in Seq(S), NEW info \in S,
         \A old \in S : Updated(old, info) \in S
  PROVE  LET new == appendOrUpdate(list, info) IN
         /\ new \in Seq(S)
         /\ \/ /\ \A i \in DOMAIN list : ~samePeer(list[i], info)
               /\ new = Append(list, info)
            \/ \E f \in DOMAIN list :
                 /\ samePeer(list[f], info)
                 /\ new = [list EXCEPT ![f] = Updated(list[f], info)]
<1> DEFINE same == {i \in DOMAIN list : samePeer(list[i], info)}
           new == appendOrUpdate(list, info)
<1>1. CASE same = {}
  <2>1. new = Append(list, info)
    BY <1>1 DEF appendOrUpdate
  <2>2. \A i \in DOMAIN list : ~samePeer(list[i], info)
    BY <1>1
  <2>. QED BY <2>1, <2>2, AppendProperties
<1>2. CASE same # {}
  <2>1. same \in SUBSET Nat
    OBVIOUS
  <2>2. PICK x \in same : \A y \in same : x <= y
    BY <1>2, <2>1, NatMin
  <2>3. First(same) \in same
    BY <2>2 DEF First
  <2>4. PICK f \in DOMAIN list : f = First(same) /\ samePeer(list[f], info)
    BY <2>3
  <2>5. new = [list EXCEPT ![First(same)] = Updated(list[First(same)], info)]
    BY <1>2 DEF appendOrUpdate
  <2> HIDE DEF same, new
  <2>6. new = [list EXCEPT ![f] = Updated(list[f], info)]
    BY <2>4, <2>5
  <2>7. list[f] \in S
    BY <2>4
  <2>8. new \in Seq(S)
    BY <2>6, <2>7, ExceptSeq
  <2>. QED BY <2>4, <2>6, <2>8 DEF new
<1>. QED BY <1>1, <1>2

---------------------------------------------------------------------------
(* Discovery: the entries of the Manager.                                  *)

LEMMA ReportIsEntry ==
  ASSUME NEW p \in Reports
  PROVE  /\ p \in Entry
         /\ peerKey(p) # None => peerKey(p) \in Keys
         /\ Reporter[p] \in Callers
  BY ReportsAssumption DEF Keys

LEMMA NoneIsNoEntry == None \notin Entry /\ None \notin Call
  BY NoneAssumption DEF Call

(* What an action of Notify stores.                                        *)
LEMMA StoreType ==
  ASSUME ManagerType, NEW p \in Reports, NEW k \in Keys, NEW e \in Entry,
         NEW changed, Store(p, k, e, changed)
  PROVE  /\ ManagerType'
         /\ seen' = [seen EXCEPT ![k] = e]
         /\ \A c \in Callers : call'[c] = call[c] \/ call'[c] = Found(e)
<1>1. Found(e) \in Call
  BY DEF Found, Call
<1>. QED BY <1>1, ReportIsEntry DEF Store, ManagerType

(* An entry under the key of a libp2p peer carries that peer's ID.         *)
HostEntryHasId == \A h \in Hosts \cap Keys : seen[h] # None => seen[h].id = h

IInv == ManagerType /\ OneEntryPerNickname /\ HostEntryHasId /\ LostHasId

LEMMA InitIInv == Init => IInv
  BY DEF Init, IInv, ManagerType, OneEntryPerNickname, HostEntryHasId, LostHasId

(* Storing an entry keeps the invariant when nobody else has its nickname. *)
LEMMA StoreIInv ==
  ASSUME IInv, NEW p \in Reports, NEW k \in Keys, NEW e \in Entry,
         NEW changed, Store(p, k, e, changed),
         \A j \in Keys \ {k} : seen[j] # None /\ e.nick # None => seen[j].nick # e.nick,
         k \in Hosts => e.id = k
  PROVE  IInv'
<1>1. /\ ManagerType'
      /\ \A j \in Keys : seen'[j] = IF j = k THEN e ELSE seen[j]
      /\ \A c \in Callers : call'[c] = call[c] \/ call'[c] = Found(e)
  BY StoreType DEF IInv, ManagerType
<1>2. OneEntryPerNickname'
  BY <1>1 DEF IInv, OneEntryPerNickname
<1>3. HostEntryHasId'
  BY <1>1 DEF IInv, HostEntryHasId
<1>4. LostHasId'
  BY <1>1 DEF IInv, LostHasId, Found
<1>. QED BY <1>1, <1>2, <1>3, <1>4 DEF IInv

LEMMA OrType == ASSUME NEW S, NEW x \in S, NEW y \in S PROVE Or(x, y) \in S
  BY DEF Or

LEMMA NotifyIInv == ASSUME IInv, NEW p \in Reports, Notify(p) PROVE IInv'
<1>0. /\ p \in Entry /\ peerKey(p) \in Keys
      /\ seen \in [Keys -> Entry \cup {None}]
  BY ReportIsEntry DEF Notify, MergeByNickname, Insert, MergeByKey, Heard, IInv, ManagerType
<1>1. CASE MergeByNickname(p)
  <2>1. PICK k \in Twins(p) :
          LET old == seen[k]
              merged == [id |-> old.id, nick |-> old.nick, addrs |-> Or(p.addrs, old.addrs),
                         addr |-> Or(p.addr, old.addr), source |-> Or(p.source, old.source)]
          IN Store(p, k, merged,
                   \/ merged.source # old.source
                   \/ (merged.addrs = None) # (old.addrs = None)
                   \/ merged.addr # old.addr)
    BY <1>1 DEF MergeByNickname
  <2>. DEFINE old == seen[k]
              e == [id |-> old.id, nick |-> old.nick, addrs |-> Or(p.addrs, old.addrs),
                    addr |-> Or(p.addr, old.addr), source |-> Or(p.source, old.source)]
  <2>2. k \in Keys /\ seen[k] \in Entry /\ seen[k] # None
    BY <1>0 DEF Twins
  <2>3. e \in Entry /\ e.nick = seen[k].nick /\ e.id = seen[k].id
    BY <1>0, <2>2 DEF Entry, Or
  <2>4. PICK changed : Store(p, k, e, changed)
    BY <2>1
  <2>5. \A j \in Keys \ {k} : seen[j] # None /\ e.nick # None => seen[j].nick # e.nick
    BY <2>2, <2>3 DEF IInv, OneEntryPerNickname
  <2>6. k \in Hosts => e.id = k
    BY <2>2, <2>3 DEF IInv, HostEntryHasId
  <2>. QED
    <3>. HIDE DEF e
    <3>. QED BY <2>2, <2>3, <2>4, <2>5, <2>6, StoreIInv
<1>2. CASE Insert(p)
  <2>1. Store(p, peerKey(p), p, TRUE) /\ Twins(p) = {}
    BY <1>2 DEF Insert
  <2>2. \A j \in Keys \ {peerKey(p)} : seen[j] # None /\ p.nick # None => seen[j].nick # p.nick
    BY <2>1 DEF Twins
  <2>3. peerKey(p) \in Hosts => p.id = peerKey(p)
    BY HostsAssumption
  <2>. QED BY <1>0, <2>1, <2>2, <2>3, StoreIInv
<1>3. CASE MergeByKey(p)
  <2>. DEFINE k == peerKey(p)
              old == seen[k]
              source == IF p.source = "dht" THEN Or(old.source, p.source)
                        ELSE Or(p.source, old.source)
              e == [id |-> old.id, nick |-> Or(p.nick, old.nick),
                    addrs |-> Or(p.addrs, old.addrs), addr |-> old.addr, source |-> source]
  <2>1. seen[k] \in Entry /\ seen[k] # None /\ Twins(p) = {}
    BY <1>0, <1>3 DEF MergeByKey
  <2>2. /\ e \in Entry /\ e.id = seen[k].id
        /\ e.nick = Or(p.nick, seen[k].nick)
    BY <1>0, <2>1 DEF Entry, Or
  <2>3. PICK changed : Store(p, k, e, changed)
    BY <1>3 DEF MergeByKey
  <2>4. ASSUME NEW j \in Keys \ {k}, seen[j] # None, e.nick # None
        PROVE  seen[j].nick # e.nick
    <3>1. CASE p.nick = None
      BY <1>0, <2>1, <2>2, <2>4, <3>1 DEF Or, IInv, OneEntryPerNickname
    <3>2. CASE p.nick # None
      BY <2>1, <2>2, <2>4, <3>2 DEF Or, Twins
    <3>. QED BY <3>1, <3>2
  <2>5. k \in Hosts => e.id = k
    BY <1>0, <2>1, <2>2 DEF IInv, HostEntryHasId
  <2>. QED
    <3>1. k \in Keys
      BY <1>0
    <3>. HIDE DEF e, k
    <3>. QED BY <3>1, <2>2, <2>3, <2>4, <2>5, StoreIInv
<1>. QED BY <1>1, <1>2, <1>3 DEF Notify

LEMMA ForgetIInv == ASSUME IInv, NEW h \in Hosts, Forget(h) PROVE IInv'
<1>1. /\ h \in Keys /\ seen[h] \in Entry /\ seen[h] # None /\ seen[h].id = h
      /\ seen' = [seen EXCEPT ![h] = None]
      /\ call' = [call EXCEPT ![Swarm] = Lost(seen[h])]
  BY DEF Forget, IInv, ManagerType, HostEntryHasId
<1>2. ManagerType'
  BY <1>1 DEF IInv, ManagerType, Lost, Call
<1>3. \A j \in Keys : seen'[j] = IF j = h THEN None ELSE seen[j]
  BY <1>1 DEF IInv, ManagerType
<1>4. OneEntryPerNickname' /\ HostEntryHasId'
  BY <1>3 DEF IInv, OneEntryPerNickname, HostEntryHasId
<1>5. h # None
  BY HostsAssumption
<1>6. LostHasId'
  BY <1>1, <1>5 DEF IInv, LostHasId, ManagerType, Lost
<1>. QED BY <1>2, <1>4, <1>6 DEF IInv

LEMMA NextIInv == IInv /\ [Next]_vars => IInv'
<1> SUFFICES ASSUME IInv, [Next]_vars PROVE IInv'
  OBVIOUS
<1>1. ASSUME NEW c \in Callers, Callback(c) PROVE IInv'
  BY <1>1 DEF Callback, IInv, ManagerType, OneEntryPerNickname, HostEntryHasId, LostHasId
<1>2. CASE UNCHANGED vars
  BY <1>2 DEF vars, IInv, ManagerType, OneEntryPerNickname, HostEntryHasId, LostHasId
<1>. QED BY <1>1, <1>2, NotifyIInv, ForgetIInv DEF Next

LEMMA Invariance == Spec => []IInv
  BY InitIInv, NextIInv, PTL DEF Spec

(* Two channels that report the same nickname never leave two entries,     *)
(* whatever their keys and the order in which their goroutines run.        *)
THEOREM NicknamesUnique == Spec => []OneEntryPerNickname
<1>1. IInv => OneEntryPerNickname
  BY DEF IInv
<1>. QED BY <1>1, Invariance, PTL

(* A lost peer is announced with an ID, so that the TUI removes the rows   *)
(* of that peer and no provisional ones.                                   *)
THEOREM LostPeersHaveIds == Spec => []LostHasId
<1>1. IInv => LostHasId
  BY DEF IInv
<1>. QED BY <1>1, Invariance, PTL
---------------------------------------------------------------------------
(* Discovery: the rows.                                                    *)

LEMMA UpdatedRow ==
  ASSUME NEW old \in Row, NEW info \in Row
  PROVE  Updated(old, info) \in Row
  BY DEF Row, Updated, Or

LEMMA InfoIsRow == ASSUME NEW e \in Entry PROVE Info(e) \in Row
  BY DEF Entry, Info, Row

LEMMA NextRows ==
  ASSUME IInv, rows \in Seq(Row), [Next]_vars
  PROVE  rows' \in Seq(Row)
<1>1. ASSUME NEW c \in Callers, Callback(c) PROVE rows' \in Seq(Row)
  <2>1. call[c] \in Call
    BY <1>1 DEF Callback, IInv, ManagerType
  <2>2. Info(call[c].peer) \in Row
    BY <2>1, InfoIsRow DEF Call
  <2>3. appendOrUpdate(rows, Info(call[c].peer)) \in Seq(Row)
    BY <2>2, UpdatedRow, UpdateProperties
  <2>4. removePeer(rows, call[c].peer.id) \in Seq(Row)
    BY RemoveProperties
  <2>. QED BY <1>1, <2>3, <2>4 DEF Callback
<1>2. CASE rows' = rows
  BY <1>2
<1>. QED BY <1>1, <1>2
       DEF Next, Notify, MergeByNickname, Insert, MergeByKey, Store, Forget, vars

(* The Manager and the list keep their types.                              *)
THEOREM DiscoveryTypeCorrect == Spec => []TypeOK
<1>1. Init => IInv /\ rows \in Seq(Row)
  BY InitIInv DEF Init
<1>2. (IInv /\ rows \in Seq(Row)) /\ [Next]_vars => (IInv /\ rows \in Seq(Row))'
  BY NextIInv, NextRows
<1>3. IInv /\ rows \in Seq(Row) => TypeOK
  BY DEF IInv, TypeOK
<1>. QED BY <1>1, <1>2, <1>3, PTL DEF Spec

LEMMA KnownByName ==
  ASSUME NEW p \in Reports, NEW q \in Reports, p.nick \in Staying,
         \/ peerKey(p) # None /\ peerKey(q) = peerKey(p)
         \/ p.addrs # None /\ q.addrs = p.addrs
  PROVE  q.nick = p.nick
  BY DEF Staying

ReportsOf(n) == {p \in Reports : p.nick = n}
IdsOf(n) == {p.id : p \in ReportsOf(n)} \ {None}
AddrsOf(n) == {p.addrs : p \in ReportsOf(n)} \ {None}
KeysOf(n) == {peerKey(p) : p \in ReportsOf(n)} \ {None}

(* What bears the IDs and addresses of a person who stays bears the        *)
(* nickname, and the other way round.                                      *)
Belongs(x) ==
  \A n \in Staying :
    /\ x.nick = n => x.id \in IdsOf(n) \cup {None} /\ x.addrs \in AddrsOf(n) \cup {None}
    /\ x.nick # n => x.id \notin IdsOf(n) /\ x.addrs \notin AddrsOf(n)

AllBelong ==
  /\ \A k \in Keys : seen[k] # None =>
       Belongs(seen[k]) /\ \A n \in Staying : seen[k].nick = n <=> k \in KeysOf(n)
  /\ \A c \in Callers : call[c] # None =>
       Belongs(call[c].peer) /\ (call[c].kind = "lost" => call[c].peer.id \in Hosts)
  /\ \A i \in DOMAIN rows : Belongs(rows[i])

(* The person's entry stays, and its ID is the one that every callback and *)
(* every row of the person has; so there is one row.                       *)
Known(n, id) == \E k \in Keys : seen[k] # None /\ seen[k].nick = n /\ seen[k].id = id
OneId ==
  /\ \A c \in Callers : call[c] # None /\ call[c].peer.nick \in Staying =>
       call[c].kind = "found" /\ Known(call[c].peer.nick, call[c].peer.id)
  /\ \A i \in DOMAIN rows : rows[i].nick \in Staying => Known(rows[i].nick, rows[i].id)
  /\ \A i, j \in DOMAIN rows : i # j /\ rows[i].nick \in Staying => rows[i].nick # rows[j].nick

(* Whom the Manager knows has a row, or a callback that makes one.         *)
Announced ==
  \A k \in Keys : seen[k] # None /\ seen[k].nick \in Staying =>
    \/ \E i \in DOMAIN rows : rows[i].nick = seen[k].nick
    \/ \E c \in Callers : /\ call[c] # None
                          /\ call[c].kind = "found"
                          /\ call[c].peer.nick = seen[k].nick

PeopleInv == IInv /\ rows \in Seq(Row) /\ AllBelong /\ OneId /\ Announced

LEMMA ReportBelongs ==
  ASSUME NEW p \in Reports
  PROVE  /\ Belongs(p)
         /\ peerKey(p) # None => \A n \in Staying : p.nick = n <=> peerKey(p) \in KeysOf(n)
<1>1. ASSUME NEW n \in Staying, p.nick = n
      PROVE  /\ p.id \in IdsOf(n) \cup {None} /\ p.addrs \in AddrsOf(n) \cup {None}
             /\ peerKey(p) # None => peerKey(p) \in KeysOf(n)
  BY <1>1 DEF IdsOf, AddrsOf, KeysOf, ReportsOf
<1>2. ASSUME NEW n \in Staying, p.nick # n
      PROVE  p.id \notin IdsOf(n) /\ p.addrs \notin AddrsOf(n) /\ peerKey(p) \notin KeysOf(n)
  <2>1. ASSUME NEW q \in ReportsOf(n)
        PROVE  /\ peerKey(q) # None => peerKey(p) # peerKey(q)
               /\ q.addrs # None => p.addrs # q.addrs
    BY <1>2, KnownByName DEF ReportsOf
  <2>2. ASSUME NEW q \in ReportsOf(n), q.id # None PROVE p.id # q.id
    BY <2>1, <2>2 DEF peerKey
  <2>. QED BY <2>1, <2>2 DEF IdsOf, AddrsOf, KeysOf
<1>. QED BY <1>1, <1>2 DEF Belongs

LEMMA StayingNames == \A n \in Staying : n # None /\ IdsOf(n) \cap Hosts = {}
  BY DEF Staying, IdsOf, ReportsOf

(* What is put together from two things of the same person, or of nobody   *)
(* who stays.                                                              *)
LEMMA MixBelongs ==
  ASSUME NEW x, NEW y, NEW z, Belongs(x), Belongs(y),
         \A n \in Staying : x.nick = n <=> y.nick = n,
         z.id \in {x.id, y.id}, z.nick \in {x.nick, y.nick}, z.addrs \in {x.addrs, y.addrs}
  PROVE  Belongs(z) /\ \A n \in Staying : z.nick = n <=> x.nick = n
  BY DEF Belongs

LEMMA SamePerson ==
  ASSUME NEW x, NEW y, Belongs(x), Belongs(y), samePeer(x, y)
  PROVE  \A n \in Staying : x.nick = n <=> y.nick = n
  BY DEF Belongs, samePeer, IdsOf, AddrsOf

LEMMA InfoBelongs == ASSUME NEW e, Belongs(e) PROVE Belongs(Info(e))
  BY DEF Belongs, Info

LEMMA StorePeople ==
  ASSUME PeopleInv, IInv', NEW p \in Reports, NEW k \in Keys, NEW e \in Entry, NEW changed,
         Store(p, k, e, changed), Heard(p), Belongs(e),
         \A n \in Staying : e.nick = n <=> k \in KeysOf(n),
         seen[k] # None => e.id = seen[k].id,
         seen[k] = None => changed
  PROVE  PeopleInv'
<1>1. /\ \A j \in Keys : seen'[j] = IF j = k THEN e ELSE seen[j]
      /\ call' = IF changed THEN [call EXCEPT ![Reporter[p]] = Found(e)] ELSE call
      /\ rows' = rows /\ call[Reporter[p]] = None /\ Reporter[p] \in Callers
      /\ e # None /\ Found(e) # None
  BY ReportIsEntry, NoneIsNoEntry DEF Store, Heard, PeopleInv, IInv, ManagerType, Found, Call
<1>2. /\ \A c \in Callers : call'[c] = call[c] \/ (changed /\ call'[c] = Found(e))
      /\ \A c \in Callers : call[c] # None => call'[c] = call[c]
      /\ changed => call'[Reporter[p]] = Found(e)
  BY <1>1 DEF PeopleInv, IInv, ManagerType
<1>3. AllBelong'
  <2>1. \A j \in Keys : seen'[j] # None =>
          Belongs(seen'[j]) /\ \A n \in Staying : seen'[j].nick = n <=> j \in KeysOf(n)
    BY <1>1 DEF PeopleInv, AllBelong
  <2>2. \A c \in Callers : call'[c] # None =>
          Belongs(call'[c].peer) /\ (call'[c].kind = "lost" => call'[c].peer.id \in Hosts)
    BY <1>2 DEF PeopleInv, AllBelong, Found
  <2>. QED BY <1>1, <2>1, <2>2 DEF PeopleInv, AllBelong
(* The person under k is still there, with the same ID.                    *)
<1>4. ASSUME NEW n \in Staying, NEW id, Known(n, id) PROVE Known(n, id)'
  <2>1. PICK j \in Keys : seen[j] # None /\ seen[j].nick = n /\ seen[j].id = id
    BY <1>4 DEF Known
  <2>2. j = k => e.nick = n /\ e.id = id
    BY <2>1 DEF PeopleInv, AllBelong
  <2>. QED BY <1>1, <2>1, <2>2 DEF Known
<1>5. OneId'
  <2>1. ASSUME NEW c \in Callers, call'[c] # None, call'[c].peer.nick \in Staying
        PROVE  call'[c].kind = "found" /\ Known(call[c].peer.nick, call[c].peer.id)'
    <3>1. CASE call'[c] = call[c]
      <4>1. PICK n \in Staying : \E id : n = call[c].peer.nick /\ id = call[c].peer.id
        BY <2>1, <3>1
      <4>2. PICK id : id = call[c].peer.id /\ n = call[c].peer.nick
        BY <4>1
      <4>3. call[c].kind = "found" /\ Known(n, id)
        BY <2>1, <3>1, <4>2 DEF PeopleInv, OneId
      <4>. QED BY <1>4, <3>1, <4>2, <4>3 DEF Known
    <3>2. CASE call'[c] = Found(e)
      BY <1>1, <3>2 DEF Known, Found
    <3>. QED BY <1>2, <3>1, <3>2
  <2>2. ASSUME NEW i \in DOMAIN rows, rows[i].nick \in Staying
        PROVE  Known(rows[i].nick, rows[i].id)'
    <3>1. PICK n, id : n = rows[i].nick /\ id = rows[i].id
      OBVIOUS
    <3>2. Known(n, id)
      BY <2>2, <3>1 DEF PeopleInv, OneId
    <3>3. Known(n, id)'
      BY <1>4, <2>2, <3>1, <3>2
    <3>. QED BY <1>1, <3>1, <3>3 DEF Known
  <2>. QED BY <1>1, <2>1, <2>2 DEF PeopleInv, OneId
<1>6. Announced'
  <2> SUFFICES ASSUME NEW j \in Keys, seen'[j] # None, seen'[j].nick \in Staying
               PROVE  \/ \E i \in DOMAIN rows : rows[i].nick = seen'[j].nick
                      \/ \E c \in Callers : /\ call'[c] # None
                                            /\ call'[c].kind = "found"
                                            /\ call'[c].peer.nick = seen'[j].nick
    BY <1>1 DEF Announced
  <2>1. CASE j = k /\ changed
    BY <1>1, <1>2, <2>1 DEF Found
  <2>2. CASE ~(j = k /\ changed)
    <3>1. seen[j] # None /\ seen[j].nick = seen'[j].nick
      BY <1>1, <2>2 DEF PeopleInv, AllBelong
    <3>. QED BY <1>2, <3>1 DEF PeopleInv, Announced
  <2>. QED BY <2>1, <2>2
<1>. QED BY <1>1, <1>3, <1>5, <1>6 DEF PeopleInv

LEMMA NotifyPeople ==
  ASSUME PeopleInv, IInv', NEW p \in Reports, Notify(p)
  PROVE  PeopleInv'
<1>0. /\ p \in Entry /\ peerKey(p) \in Keys /\ Heard(p)
      /\ seen \in [Keys -> Entry \cup {None}]
      /\ Belongs(p)
      /\ \A n \in Staying : p.nick = n <=> peerKey(p) \in KeysOf(n)
  BY ReportIsEntry, ReportBelongs
    DEF Notify, MergeByNickname, Insert, MergeByKey, Heard, PeopleInv, IInv, ManagerType
<1>1. CASE MergeByNickname(p)
  <2>1. PICK k \in Twins(p) :
          LET old == seen[k]
              merged == [id |-> old.id, nick |-> old.nick, addrs |-> Or(p.addrs, old.addrs),
                         addr |-> Or(p.addr, old.addr), source |-> Or(p.source, old.source)]
          IN Store(p, k, merged,
                   \/ merged.source # old.source
                   \/ (merged.addrs = None) # (old.addrs = None)
                   \/ merged.addr # old.addr)
    BY <1>1 DEF MergeByNickname
  <2>. DEFINE old == seen[k]
              e == [id |-> old.id, nick |-> old.nick, addrs |-> Or(p.addrs, old.addrs),
                    addr |-> Or(p.addr, old.addr), source |-> Or(p.source, old.source)]
  <2>2. k \in Keys /\ seen[k] \in Entry /\ seen[k] # None /\ seen[k].nick = p.nick
    BY <1>0 DEF Twins
  <2>3. /\ e \in Entry /\ e.nick = old.nick /\ e.id = old.id
        /\ e.addrs \in {old.addrs, p.addrs}
    BY <1>0, <2>2 DEF Entry, Or
  <2>4. PICK changed : Store(p, k, e, changed)
    BY <2>1
  <2>5. Belongs(old) /\ \A n \in Staying : old.nick = n <=> k \in KeysOf(n)
    BY <2>2 DEF PeopleInv, AllBelong
  <2>. QED
    <3>. HIDE DEF e
    <3>1. Belongs(e)
      BY <1>0, <2>2, <2>3, <2>5, MixBelongs
    <3>. QED BY <1>0, <2>2, <2>3, <2>4, <2>5, <3>1, StorePeople
<1>2. CASE Insert(p)
  BY <1>0, <1>2, StorePeople DEF Insert
<1>3. CASE MergeByKey(p)
  <2>. DEFINE k == peerKey(p)
              old == seen[k]
              source == IF p.source = "dht" THEN Or(old.source, p.source)
                        ELSE Or(p.source, old.source)
              e == [id |-> old.id, nick |-> Or(p.nick, old.nick),
                    addrs |-> Or(p.addrs, old.addrs), addr |-> old.addr, source |-> source]
  <2>1. k \in Keys /\ old \in Entry /\ old # None
    BY <1>0, <1>3 DEF MergeByKey
  <2>2. /\ e \in Entry /\ e.id = old.id
        /\ e.nick \in {old.nick, p.nick} /\ e.addrs \in {old.addrs, p.addrs}
    BY <1>0, <2>1 DEF Entry, Or
  <2>3. PICK changed : Store(p, k, e, changed)
    BY <1>3 DEF MergeByKey
  <2>4. Belongs(old) /\ \A n \in Staying : old.nick = n <=> p.nick = n
    BY <1>0, <2>1 DEF PeopleInv, AllBelong
  <2>. QED
    <3>. HIDE DEF e, old
    <3>1. Belongs(e) /\ \A n \in Staying : e.nick = n <=> old.nick = n
      BY <1>0, <2>2, <2>4, MixBelongs
    <3>2. \A n \in Staying : e.nick = n <=> k \in KeysOf(n)
      BY <1>0, <2>4, <3>1
    <3>3. old = seen[k]
      BY DEF old
    <3>. HIDE DEF k
    <3>. QED BY <1>0, <2>1, <2>2, <2>3, <3>1, <3>2, <3>3, StorePeople
<1>. QED BY <1>1, <1>2, <1>3 DEF Notify

LEMMA ForgetPeople ==
  ASSUME PeopleInv, IInv', NEW h \in Hosts, Forget(h)
  PROVE  PeopleInv'
<1>1. /\ h \in Keys /\ seen[h] # None /\ seen[h].id = h /\ h # None
      /\ call[Swarm] = None /\ rows' = rows
      /\ \A j \in Keys : seen'[j] = IF j = h THEN None ELSE seen[j]
      /\ \A c \in Callers : call'[c] = IF c = Swarm THEN Lost(seen[h]) ELSE call[c]
  BY HostsAssumption, ReportsAssumption
    DEF Forget, PeopleInv, IInv, ManagerType, HostEntryHasId
<1>2. Belongs(seen[h]) /\ seen[h].nick \notin Staying
  <2>1. Belongs(seen[h])
    BY <1>1 DEF PeopleInv, AllBelong
  <2>. QED BY <1>1, <2>1, StayingNames DEF Belongs
<1>3. AllBelong'
  BY <1>1, <1>2 DEF PeopleInv, AllBelong, Lost
<1>4. ASSUME NEW n \in Staying, NEW id, Known(n, id) PROVE Known(n, id)'
  BY <1>1, <1>2, <1>4 DEF Known
<1>5. OneId'
  <2>1. ASSUME NEW c \in Callers, call'[c] # None, call'[c].peer.nick \in Staying
        PROVE  call'[c].kind = "found" /\ Known(call[c].peer.nick, call[c].peer.id)'
    <3>1. call'[c] = call[c]
      BY <1>1, <1>2, <2>1 DEF Lost
    <3>2. PICK n, id : n = call[c].peer.nick /\ id = call[c].peer.id
      OBVIOUS
    <3>3. call[c].kind = "found" /\ Known(n, id) /\ n \in Staying
      BY <2>1, <3>1, <3>2 DEF PeopleInv, OneId
    <3>. QED BY <1>4, <3>1, <3>2, <3>3 DEF Known
  <2>2. ASSUME NEW i \in DOMAIN rows, rows[i].nick \in Staying
        PROVE  Known(rows[i].nick, rows[i].id)'
    <3>1. PICK n, id : n = rows[i].nick /\ id = rows[i].id
      OBVIOUS
    <3>2. Known(n, id)'
      BY <1>4, <2>2, <3>1 DEF PeopleInv, OneId
    <3>. QED BY <1>1, <3>1, <3>2 DEF Known
  <2>. QED BY <1>1, <2>1, <2>2 DEF PeopleInv, OneId
<1>6. Announced'
  <2> SUFFICES ASSUME NEW j \in Keys, seen'[j] # None, seen'[j].nick \in Staying
               PROVE  \/ \E i \in DOMAIN rows : rows[i].nick = seen'[j].nick
                      \/ \E c \in Callers : /\ call'[c] # None
                                            /\ call'[c].kind = "found"
                                            /\ call'[c].peer.nick = seen'[j].nick
    BY <1>1 DEF Announced
  <2>1. seen'[j] = seen[j]
    BY <1>1
  <2>. QED BY <1>1, <2>1 DEF PeopleInv, Announced
<1>. QED BY <1>1, <1>3, <1>5, <1>6 DEF PeopleInv

(* A row and the news of one person who stays are the same peer's.         *)
LEMMA OnePersonOneRow ==
  ASSUME PeopleInv, NEW n \in Staying, NEW x, NEW y, x.nick = n, y.nick = n,
         Known(n, x.id), Known(n, y.id)
  PROVE  samePeer(x, y)
<1>1. x.id = y.id
  BY StayingNames DEF Known, PeopleInv, IInv, OneEntryPerNickname
<1>. QED BY <1>1, StayingNames DEF samePeer

LEMMA FoundPeople ==
  ASSUME PeopleInv, NEW c \in Callers, call[c] # None, call[c].kind = "found",
         rows' \in Seq(Row), rows' = appendOrUpdate(rows, Info(call[c].peer))
  PROVE  /\ \A i \in DOMAIN rows' :
              /\ Belongs(rows'[i])
              /\ rows'[i].nick \in Staying => Known(rows'[i].nick, rows'[i].id)
         /\ \A i, j \in DOMAIN rows' :
              i # j /\ rows'[i].nick \in Staying => rows'[i].nick # rows'[j].nick
         /\ \A n \in Staying :
              (\E i \in DOMAIN rows : rows[i].nick = n) \/ call[c].peer.nick = n =>
                \E i \in DOMAIN rows' : rows'[i].nick = n
<1> DEFINE info == Info(call[c].peer)
<1>0. /\ info \in Row /\ info.nick = call[c].peer.nick
      /\ Belongs(info)
      /\ info.nick \in Staying => Known(info.nick, info.id)
  <2>1. call[c].peer \in Entry
    BY DEF PeopleInv, IInv, ManagerType, Call
  <2>2. Belongs(call[c].peer)
    BY DEF PeopleInv, AllBelong
  <2>. QED BY <2>1, <2>2, InfoIsRow, InfoBelongs DEF PeopleInv, OneId, Info
<1>1. \A i \in DOMAIN rows :
        /\ Belongs(rows[i])
        /\ rows[i].nick \in Staying => Known(rows[i].nick, rows[i].id)
  BY DEF PeopleInv, AllBelong, OneId
<1>2. \A i, j \in DOMAIN rows :
        i # j /\ rows[i].nick \in Staying => rows[i].nick # rows[j].nick
  BY DEF PeopleInv, OneId
<1>3. \/ /\ \A i \in DOMAIN rows : ~samePeer(rows[i], info)
         /\ rows' = Append(rows, info)
      \/ \E f \in DOMAIN rows :
           /\ samePeer(rows[f], info)
           /\ rows' = [rows EXCEPT ![f] = Updated(rows[f], info)]
  <2> HIDE DEF info
  <2>1. rows' = appendOrUpdate(rows, info)
    BY DEF info
  <2>2. \A old \in Row : Updated(old, info) \in Row
    BY <1>0, UpdatedRow
  <2>. QED BY <1>0, <2>1, <2>2, UpdateProperties DEF PeopleInv
<1>4. rows \in Seq(Row)
  BY DEF PeopleInv
<1> HIDE DEF info
<1>5. CASE /\ \A i \in DOMAIN rows : ~samePeer(rows[i], info)
           /\ rows' = Append(rows, info)
  <2>1. /\ DOMAIN rows' = 1..(Len(rows) + 1) /\ Len(rows) \in Nat /\ DOMAIN rows = 1..Len(rows)
        /\ rows'[Len(rows) + 1] = info
        /\ \A i \in 1..Len(rows) : rows'[i] = rows[i]
    BY <1>0, <1>4, <1>5
  <2>2. \A i \in DOMAIN rows' : i \in DOMAIN rows \/ i = Len(rows) + 1
    BY <2>1
  <2>3. ASSUME NEW i \in DOMAIN rows, info.nick \in Staying PROVE rows[i].nick # info.nick
    BY <1>0, <1>1, <1>5, <2>3, OnePersonOneRow
  <2>4. \A i, j \in DOMAIN rows' :
          i # j /\ rows'[i].nick \in Staying => rows'[i].nick # rows'[j].nick
    BY <1>2, <2>1, <2>2, <2>3
  <2>5. \A i \in DOMAIN rows' :
          /\ Belongs(rows'[i])
          /\ rows'[i].nick \in Staying => Known(rows'[i].nick, rows'[i].id)
    BY <1>0, <1>1, <2>1, <2>2
  <2>6. Len(rows) + 1 \in DOMAIN rows' /\ \A i \in DOMAIN rows : i \in DOMAIN rows'
    BY <2>1
  <2>. QED BY <1>0, <2>1, <2>4, <2>5, <2>6
<1>6. ASSUME NEW f \in DOMAIN rows, samePeer(rows[f], info),
             rows' = [rows EXCEPT ![f] = Updated(rows[f], info)]
      PROVE  /\ \A i \in DOMAIN rows' :
                  /\ Belongs(rows'[i])
                  /\ rows'[i].nick \in Staying => Known(rows'[i].nick, rows'[i].id)
             /\ \A i, j \in DOMAIN rows' :
                  i # j /\ rows'[i].nick \in Staying => rows'[i].nick # rows'[j].nick
             /\ \A n \in Staying :
                  (\E i \in DOMAIN rows : rows[i].nick = n) \/ call[c].peer.nick = n =>
                    \E i \in DOMAIN rows' : rows'[i].nick = n
  <2> DEFINE z == Updated(rows[f], info)
  <2>1. /\ DOMAIN rows' = DOMAIN rows
        /\ \A i \in DOMAIN rows : rows'[i] = IF i = f THEN z ELSE rows[i]
    BY <1>4, <1>6
  <2>2. /\ z.id \in {rows[f].id, info.id} /\ z.nick \in {rows[f].nick, info.nick}
        /\ z.addrs \in {rows[f].addrs, info.addrs}
    BY DEF Updated, Or
  <2> HIDE DEF z
  <2>3. \A n \in Staying : rows[f].nick = n <=> info.nick = n
    BY <1>0, <1>1, <1>6, SamePerson
  <2>4. Belongs(z) /\ \A n \in Staying : z.nick = n <=> rows[f].nick = n
    BY <1>0, <1>1, <2>2, <2>3, MixBelongs
  <2>5. z.nick \in Staying => Known(z.nick, z.id)
    BY <1>0, <1>1, <2>2, <2>3, <2>4
  <2>6. \A i, j \in DOMAIN rows' :
          i # j /\ rows'[i].nick \in Staying => rows'[i].nick # rows'[j].nick
    BY <1>2, <2>1, <2>4
  <2>. QED BY <1>0, <1>1, <2>1, <2>3, <2>4, <2>5, <2>6
<1>. QED BY <1>3, <1>5, <1>6

LEMMA LostPeople ==
  ASSUME PeopleInv, NEW h \in Hosts, rows' = removePeer(rows, h)
  PROVE  /\ \A i \in DOMAIN rows' :
              /\ Belongs(rows'[i])
              /\ rows'[i].nick \in Staying => Known(rows'[i].nick, rows'[i].id)
         /\ \A i, j \in DOMAIN rows' :
              i # j /\ rows'[i].nick \in Staying => rows'[i].nick # rows'[j].nick
         /\ \A n \in Staying : (\E i \in DOMAIN rows : rows[i].nick = n) =>
              \E i \in DOMAIN rows' : rows'[i].nick = n
<1>1. \A i \in DOMAIN rows :
        /\ Belongs(rows[i])
        /\ rows[i].nick \in Staying => Known(rows[i].nick, rows[i].id)
  BY DEF PeopleInv, AllBelong, OneId
<1>2. \A i, j \in DOMAIN rows :
        i # j /\ rows[i].nick \in Staying => rows[i].nick # rows[j].nick
  BY DEF PeopleInv, OneId
<1>3. rows \in Seq(Row)
  BY DEF PeopleInv
<1>4. /\ \A i \in DOMAIN rows : rows[i].id # h => \E k \in DOMAIN rows' : rows'[k] = rows[i]
      /\ \A k \in DOMAIN rows' : \E i \in DOMAIN rows : rows'[k] = rows[i]
      /\ \A j, k \in DOMAIN rows' : j # k =>
           \E i, l \in DOMAIN rows : i # l /\ rows'[j] = rows[i] /\ rows'[k] = rows[l]
  BY <1>3, RemoveProperties
<1>5. ASSUME NEW n \in Staying, NEW i \in DOMAIN rows, rows[i].nick = n
      PROVE  rows[i].id # h
  BY <1>1, <1>5, StayingNames, HostsAssumption DEF Belongs
<1>6. \A k \in DOMAIN rows' :
        /\ Belongs(rows'[k])
        /\ rows'[k].nick \in Staying => Known(rows'[k].nick, rows'[k].id)
  BY <1>1, <1>4
<1>7. \A j, k \in DOMAIN rows' :
        j # k /\ rows'[j].nick \in Staying => rows'[j].nick # rows'[k].nick
  BY <1>2, <1>4
<1>8. \A n \in Staying : (\E i \in DOMAIN rows : rows[i].nick = n) =>
        \E i \in DOMAIN rows' : rows'[i].nick = n
  BY <1>4, <1>5
<1>. QED BY <1>6, <1>7, <1>8

LEMMA CallbackPeople ==
  ASSUME PeopleInv, IInv', rows' \in Seq(Row), NEW c \in Callers, Callback(c)
  PROVE  PeopleInv'
<1>1. /\ call[c] \in Call /\ call[c] # None /\ seen' = seen
      /\ \A d \in Callers : call'[d] = IF d = c THEN None ELSE call[d]
  BY DEF Callback, PeopleInv, IInv, ManagerType
<1>2. /\ \A i \in DOMAIN rows' :
           /\ Belongs(rows'[i])
           /\ rows'[i].nick \in Staying => Known(rows'[i].nick, rows'[i].id)
      /\ \A i, j \in DOMAIN rows' :
           i # j /\ rows'[i].nick \in Staying => rows'[i].nick # rows'[j].nick
      /\ \A n \in Staying :
           \/ \E i \in DOMAIN rows : rows[i].nick = n
           \/ call[c].kind = "found" /\ call[c].peer.nick = n
           => \E i \in DOMAIN rows' : rows'[i].nick = n
  <2>1. CASE call[c].kind = "found"
    <3>1. rows' = appendOrUpdate(rows, Info(call[c].peer))
      BY <2>1 DEF Callback
    <3>. QED BY <1>1, <2>1, <3>1, FoundPeople
  <2>2. CASE call[c].kind = "lost"
    <3>1. rows' = removePeer(rows, call[c].peer.id)
      BY <2>2 DEF Callback
    <3>2. call[c].peer.id \in Hosts
      BY <1>1, <2>2 DEF PeopleInv, AllBelong
    <3>3. PICK h \in Hosts : h = call[c].peer.id
      BY <3>2
    <3>4. rows' = removePeer(rows, h)
      BY <3>1, <3>3
    <3>. QED BY <2>2, <3>4, LostPeople
  <2>. QED BY <1>1, <2>1, <2>2 DEF Call
<1>3. AllBelong'
  BY <1>1, <1>2 DEF PeopleInv, AllBelong
<1>4. OneId'
  <2>1. \A n, id : Known(n, id) => Known(n, id)'
    BY <1>1 DEF Known
  <2>2. ASSUME NEW d \in Callers, call'[d] # None, call'[d].peer.nick \in Staying
        PROVE  call'[d].kind = "found" /\ Known(call[d].peer.nick, call[d].peer.id)'
    BY <1>1, <2>2 DEF PeopleInv, OneId, Known
  <2>3. ASSUME NEW i \in DOMAIN rows', rows'[i].nick \in Staying
        PROVE  Known(rows[i].nick, rows[i].id)'
    <3>1. Known(rows'[i].nick, rows'[i].id)
      BY <1>2, <2>3
    <3>. QED BY <1>1, <3>1 DEF Known
  <2>. QED BY <1>2, <2>2, <2>3 DEF OneId
<1>5. Announced'
  <2> SUFFICES ASSUME NEW k \in Keys, seen[k] # None, seen[k].nick \in Staying
               PROVE  \/ \E i \in DOMAIN rows' : rows'[i].nick = seen[k].nick
                      \/ \E d \in Callers : /\ call'[d] # None
                                            /\ call'[d].kind = "found"
                                            /\ call'[d].peer.nick = seen[k].nick
    BY <1>1 DEF Announced
  <2>1. CASE \/ \E i \in DOMAIN rows : rows[i].nick = seen[k].nick
             \/ call[c].kind = "found" /\ call[c].peer.nick = seen[k].nick
    BY <1>2, <2>1
  <2>2. CASE ~(\/ \E i \in DOMAIN rows : rows[i].nick = seen[k].nick
               \/ call[c].kind = "found" /\ call[c].peer.nick = seen[k].nick)
    <3>1. PICK d \in Callers : /\ call[d] # None
                               /\ call[d].kind = "found"
                               /\ call[d].peer.nick = seen[k].nick
      BY <2>2 DEF PeopleInv, Announced
    <3>2. d # c
      BY <2>2, <3>1
    <3>. QED BY <1>1, <3>1, <3>2
  <2>. QED BY <2>1, <2>2
<1>. QED BY <1>3, <1>4, <1>5 DEF PeopleInv

LEMMA PeopleInvariance == Spec => []PeopleInv
<1>1. Init => PeopleInv
  BY InitIInv DEF Init, PeopleInv, AllBelong, OneId, Announced
<1>2. PeopleInv /\ [Next]_vars => PeopleInv'
  <2> SUFFICES ASSUME PeopleInv, [Next]_vars PROVE PeopleInv'
    OBVIOUS
  <2>1. IInv' /\ rows' \in Seq(Row)
    BY NextIInv, NextRows DEF PeopleInv
  <2>2. CASE UNCHANGED vars
    BY <2>1, <2>2 DEF vars, PeopleInv, AllBelong, OneId, Announced, Known
  <2>. QED BY <2>1, <2>2, NotifyPeople, ForgetPeople, CallbackPeople DEF Next
<1>. QED BY <1>1, <1>2, PTL DEF Spec

(* Nobody whose connections stay open, and whom every channel knows by     *)
(* name, is listed twice, in whatever order any number of channels report  *)
(* and their callbacks overtake one another.                               *)
THEOREM NobodyTwice == Spec => []NoDuplicateRows
<1>1. PeopleInv => NoDuplicateRows
  BY DEF PeopleInv, OneId, NoDuplicateRows
<1>. QED BY <1>1, PeopleInvariance, PTL

(* And each of them whom the Manager knows is listed once its callbacks    *)
(* are made; nobody else's loss removes the row.                           *)
THEOREM NobodyMissing == Spec => []EveryoneShown
<1>1. PeopleInv => EveryoneShown
  <2> SUFFICES ASSUME PeopleInv, Settled, NEW k \in Keys,
                      seen[k] # None, seen[k].nick \in Staying
               PROVE  \E i \in DOMAIN rows : samePeer(rows[i], Info(seen[k]))
    BY DEF EveryoneShown
  <2>1. PICK i \in DOMAIN rows : rows[i].nick = seen[k].nick
    BY DEF PeopleInv, Announced, Settled
  <2>2. PICK n \in Staying : n = seen[k].nick
    OBVIOUS
  <2>3. Known(n, rows[i].id)
    BY <2>1, <2>2 DEF PeopleInv, OneId
  <2>4. Known(n, Info(seen[k]).id) /\ Info(seen[k]).nick = n
    BY <2>2 DEF Known, Info
  <2>. QED BY <2>1, <2>2, <2>3, <2>4, OnePersonOneRow
<1>. QED BY <1>1, PeopleInvariance, PTL

---------------------------------------------------------------------------
(* App: types.                                                             *)

LEMMA FirstIn ==
  ASSUME NEW T \in SUBSET Nat, T # {}
  PROVE  First(T) \in T
<1>1. PICK x \in T : \A y \in T : x <= y
  BY NatMin
<1>. QED BY <1>1 DEF First

LEMMA ShownRowUpdated ==
  ASSUME NEW old \in ShownRow, NEW info \in ShownRow
  PROVE  Updated(old, info) \in ShownRow
  BY DEF ShownRow, Updated, Or

(* The entries Visible shows of directory d with the filter f.             *)
EntryOf(d) == [name : {Entries[d][i].name : i \in DOMAIN Entries[d]}, to : Dirs \cup {None}]
Filtered(d, f) ==
  Picked(Entries[d], {i \in DOMAIN Entries[d] : \/ f = NoFilter \/ Entries[d][i].name = ".."
                                                \/ Entries[d][i].name \in Matching[f]})

LEMMA VisibleIsFiltered == Visible = Filtered(cwd, filter)
  BY DEF Visible, Filtered

LEMMA FilteredType ==
  ASSUME NEW d \in Dirs, NEW f
  PROVE  /\ Filtered(d, f) \in Seq(EntryOf(d))
         /\ Filtered(d, f) # <<>> => 1 \in DOMAIN Filtered(d, f)
<1> DEFINE kept == {i \in DOMAIN Entries[d] : \/ f = NoFilter \/ Entries[d][i].name = ".."
                                              \/ Entries[d][i].name \in Matching[f]}
<1>1. Entries[d] \in Seq(EntryOf(d))
  BY EntriesAssumption DEF EntryOf
<1>2. kept \in SUBSET (DOMAIN Entries[d])
  OBVIOUS
<1>3. Filtered(d, f) = Picked(Entries[d], kept)
  BY DEF Filtered
<1> HIDE DEF kept
<1>4. Filtered(d, f) \in Seq(EntryOf(d))
  BY <1>1, <1>2, <1>3, PickedProperties
<1>. QED BY <1>4

(* The row the user moves to, and the row of the same peer now.            *)
LEMMA ChosenType ==
  ASSUME rows \in Seq(ShownRow), active \in ShownRow \cup {None}
  PROVE  /\ \A step \in {-1, 1} :
              \/ Neighbour(step) = active \/ Neighbour(step) = None
              \/ \E i \in DOMAIN rows : Neighbour(step) = rows[i]
         /\ rows = <<>> => Neighbour(-1) = None /\ Neighbour(1) = None
         /\ active # None =>
              \/ Fresh(active) = active
              \/ \E i \in DOMAIN rows : samePeer(rows[i], active) /\ Fresh(active) = rows[i]
<1>1. /\ Len(rows) \in Nat /\ DOMAIN rows = 1..Len(rows)
      /\ rows # <<>> => 1 \in DOMAIN rows /\ Len(rows) \in DOMAIN rows
  OBVIOUS
<1>2. ASSUME NEW step \in {-1, 1}
      PROVE  \/ Neighbour(step) = active \/ Neighbour(step) = None
             \/ \E i \in DOMAIN rows : Neighbour(step) = rows[i]
  <2> DEFINE at == {i \in DOMAIN rows : rows[i].id = active.id /\ i + step \in DOMAIN rows}
  <2>1. at # {} => First(at) + step \in DOMAIN rows
    <3>1. at \in SUBSET Nat
      BY <1>1
    <3>2. at # {} => First(at) \in at
      BY <3>1, FirstIn
    <3>. QED BY <3>2
  <2>2. CASE rows = <<>>
    BY <2>2 DEF Neighbour
  <2>3. CASE rows # <<>> /\ active = None
    BY <1>1, <2>3 DEF Neighbour
  <2>4. CASE rows # <<>> /\ active # None
    <3>1. Neighbour(step) = IF at = {} THEN active ELSE rows[First(at) + step]
      BY <2>4 DEF Neighbour
    <3> HIDE DEF at
    <3>. QED BY <2>1, <3>1
  <2>. QED BY <2>2, <2>3, <2>4
<1>3. rows = <<>> => Neighbour(-1) = None /\ Neighbour(1) = None
  BY DEF Neighbour
<1>4. ASSUME active # None
      PROVE  \/ Fresh(active) = active
             \/ \E i \in DOMAIN rows : samePeer(rows[i], active) /\ Fresh(active) = rows[i]
  <2> DEFINE same == {i \in DOMAIN rows : samePeer(rows[i], active)}
  <2>1. same \in SUBSET Nat
    BY <1>1
  <2>2. same # {} => First(same) \in same
    BY <2>1, FirstIn
  <2>3. Fresh(active) = IF same = {} THEN active ELSE rows[First(same)]
    BY DEF Fresh
  <2>4. same # {} => First(same) \in DOMAIN rows /\ samePeer(rows[First(same)], active)
    BY <2>2
  <2> HIDE DEF same
  <2>. QED BY <2>3, <2>4
<1>. QED BY <1>2, <1>3, <1>4

(* What a key that sends asks for.                                         *)
LEMMA AskType ==
  ASSUME AppTypeOK, Ask
  PROVE  /\ rows' = rows /\ active' \in ShownRow \cup {None}
         /\ sendCh' \in Seq(Request) /\ Len(sendCh') <= SendCap
         /\ asks' \in 0..Asks
<1>1. /\ active' \in ShownRow \cup {None}
      /\ active # None => active' \in ShownRow
  <2>1. rows \in Seq(ShownRow) /\ active \in ShownRow \cup {None}
    BY DEF AppTypeOK
  <2>2. CASE active = None
    BY <2>2 DEF Ask
  <2>3. CASE active # None
    <3>1. active' = Fresh(active)
      BY <2>3 DEF Ask
    <3>. QED BY <2>1, <2>3, <3>1, ChosenType
  <2>. QED BY <2>2, <2>3
<1>2. asks \in 1..Asks /\ asks' \in 0..Asks
  BY BoundsAssumption DEF AppTypeOK, Ask
<1>3. CASE sendCh' = sendCh
  BY <1>1, <1>2, <1>3 DEF AppTypeOK, Ask
<1>4. CASE sendCh' # sendCh
  <2> DEFINE r == [n |-> asks, to |-> active'.id, shown |-> active.nick]
  <2>1. /\ active # None /\ active'.id # None /\ Len(sendCh) # SendCap
        /\ sendCh' = Append(sendCh, r)
    BY <1>4 DEF Ask
  <2>2. active'.id \in DOMAIN Name
    BY <1>1, <2>1 DEF ShownRow
  <2>3. active.nick \in {Name[p] : p \in DOMAIN Name} \cup {None}
    BY <2>1 DEF AppTypeOK, ShownRow
  <2>4. r \in Request
    BY <1>2, <2>2, <2>3 DEF Request
  <2> HIDE DEF r
  <2>5. sendCh \in Seq(Request) /\ Len(sendCh) \in Nat /\ Len(sendCh) <= SendCap
    BY DEF AppTypeOK
  <2>6. sendCh' \in Seq(Request) /\ Len(sendCh') = Len(sendCh) + 1
    BY <2>1, <2>4, <2>5
  <2>7. Len(sendCh') <= SendCap
    BY <2>1, <2>5, <2>6, BoundsAssumption
  <2>. QED BY <1>1, <1>2, <2>6, <2>7 DEF Ask
<1>. QED BY <1>3, <1>4

LEMMA AppTypeInit == AppInit => AppTypeOK
  BY BoundsAssumption DEF AppInit, AppTypeOK

LEMMA AppTypeStep == AppTypeOK /\ [AppNext]_appVars => AppTypeOK'
<1> SUFFICES ASSUME AppTypeOK, [AppNext]_appVars PROVE AppTypeOK'
  OBVIOUS
<1>1. CASE EnterNickname \/ StartCore \/ Started \/ ChangeFocus \/ Quit \/ Tab \/ Cancel \/ Pick
  BY <1>1 DEF EnterNickname, StartCore, Started, ChangeFocus, Goes, Key, Quit, Tab, Cancel, Pick,
              peerVars, fileVars, sendVars, AppTypeOK
<1>2. CASE Take
  <2>1. /\ sendCh \in Seq(Request) /\ sendCh # <<>> /\ Len(sendCh) <= SendCap
        /\ sendCh' = Tail(sendCh) /\ sending' = sending \cup {Head(sendCh)}
    BY <1>2 DEF Take, AppTypeOK
  <2>2. /\ sendCh' \in Seq(Request) /\ Len(sendCh') = Len(sendCh) - 1
        /\ Head(sendCh) \in Request /\ Len(sendCh) \in Nat
    BY <2>1
  <2>3. Len(sendCh') <= SendCap
    BY <2>1, <2>2, BoundsAssumption
  <2>. QED BY <1>2, <2>1, <2>2, <2>3 DEF Take, peerVars, fileVars, AppTypeOK
<1>3. CASE \E r \in sending : Sent(r)
  BY <1>3 DEF Sent, peerVars, fileVars, AppTypeOK
<1>4. ASSUME NEW s \in Sightings, PeerFound(s) PROVE AppTypeOK'
  <2>1. s \in ShownRow /\ rows \in Seq(ShownRow) /\ rows' = appendOrUpdate(rows, s)
    BY <1>4, RowsAssumption DEF PeerFound, AppTypeOK
  <2>2. rows' \in Seq(ShownRow)
    BY <2>1, ShownRowUpdated, UpdateProperties
  <2>. QED BY <1>4, <2>2 DEF PeerFound, fileVars, sendVars, AppTypeOK
<1>5. ASSUME NEW p \in DOMAIN Name, PeerLost(p) PROVE AppTypeOK'
  <2>1. rows \in Seq(ShownRow) /\ rows' = removePeer(rows, p)
    BY <1>5 DEF PeerLost, AppTypeOK
  <2>2. rows' \in Seq(ShownRow)
    BY <2>1, RemoveProperties
  <2>. QED BY <1>5, <2>2 DEF PeerLost, fileVars, sendVars, AppTypeOK
<1>6. CASE UpDown
  <2>1. PICK step \in {-1, 1} : active' = Neighbour(step)
    BY <1>6 DEF UpDown
  <2>2. rows \in Seq(ShownRow) /\ active \in ShownRow \cup {None}
    BY DEF AppTypeOK
  <2>3. active' \in ShownRow \cup {None}
    BY <2>1, <2>2, ChosenType
  <2>. QED BY <1>6, <2>3 DEF UpDown, fileVars, sendVars, AppTypeOK
<1>7. CASE Choose
  <2>1. rows # <<>> => rows[1] \in ShownRow
    BY DEF AppTypeOK
  <2>2. active' \in ShownRow \cup {None} /\ showLog' \in BOOLEAN
    BY <1>7, <2>1 DEF Choose, AppTypeOK
  <2>. QED BY <1>7, <2>2 DEF Choose, fileVars, sendVars, AppTypeOK
<1>8. CASE Submit \/ Confirm
  <2>1. Ask
    BY <1>8 DEF Submit, Confirm
  <2>. QED BY <2>1, AskType DEF Ask, fileVars, AppTypeOK
<1>9. CASE Cursor
  <2>1. Visible \in Seq(EntryOf(cwd))
    BY VisibleIsFiltered, FilteredType DEF AppTypeOK
  <2>2. \A i \in DOMAIN Visible : i \in Nat \ {0}
    <3> DEFINE shown == Visible
    <3>1. shown \in Seq(EntryOf(cwd))
      BY <2>1
    <3> HIDE DEF shown
    <3>2. \A i \in DOMAIN shown : i \in Nat \ {0}
      BY <3>1
    <3>. QED BY <3>2 DEF shown
  <2>. QED BY <1>9, <2>2 DEF Cursor, peerVars, sendVars, AppTypeOK
<1>10. CASE Slash \/ Apply \/ Clear
  BY <1>10 DEF Slash, Apply, Clear, Goes, Key, peerVars, fileVars, sendVars, AppTypeOK
<1>11. CASE \E q \in Filters : Type(q)
  BY <1>11 DEF Type, peerVars, sendVars, AppTypeOK
<1>12. CASE OpenDir
  <2>1. Visible \in Seq(EntryOf(cwd)) /\ idx \in DOMAIN Visible /\ Visible[idx].to # None
    BY <1>12, VisibleIsFiltered, FilteredType DEF OpenDir, AppTypeOK
  <2>2. PICK e \in EntryOf(cwd) : e = Visible[idx]
    BY <2>1, ElementOfSeq
  <2>3. e.to \in Dirs
    BY <2>1, <2>2 DEF EntryOf
  <2>. QED BY <1>12, <2>2, <2>3 DEF OpenDir, peerVars, sendVars, AppTypeOK
<1>13. CASE UNCHANGED appVars
  BY <1>13 DEF appVars, peerVars, fileVars, sendVars, AppTypeOK
<1>. QED BY <1>1, <1>2, <1>3, <1>4, <1>5, <1>6, <1>7, <1>8, <1>9, <1>10, <1>11, <1>12, <1>13
         DEF AppNext

(* What the user does and what arrives keep every variable in its set,     *)
(* and the channel of requests within its capacity.                        *)
THEOREM AppTypeCorrect == AppSpec => []AppTypeOK
  BY AppTypeInit, AppTypeStep, PTL DEF AppSpec

---------------------------------------------------------------------------
(* App: whom a request goes to.                                            *)

Nicknames == {Name[p] : p \in DOMAIN Name}
(* All a row says is of a peer of the name n.                              *)
Says(r, n) ==
  /\ r.id # None => Name[r.id] = n
  /\ r.nick \in {n, None}
  /\ r.addrs # None => Name[Owner[r.addrs]] = n
Owned(r) == \E n \in Nicknames : Says(r, n)

(* What SentAsShown needs to be kept: a row is of one name throughout,     *)
(* those merged and the copy in active included.                           *)
OwnedInv ==
  /\ AppTypeOK
  /\ \A i \in DOMAIN rows : Owned(rows[i])
  /\ active # None => Owned(active)
  /\ SentAsShown

LEMMA SameName ==
  ASSUME NEW x, NEW y, NEW m, NEW n, Says(x, m), Says(y, n), samePeer(x, y)
  PROVE  m = n
  BY DEF Says, samePeer

LEMMA UpdatedSays ==
  ASSUME NEW x, NEW y, NEW n, Says(x, n), Says(y, n)
  PROVE  Says(Updated(x, y), n)
  BY DEF Says, Updated, Or

LEMMA FoundOwned ==
  ASSUME OwnedInv, NEW s \in Sightings, rows' = appendOrUpdate(rows, s)
  PROVE  \A i \in DOMAIN rows' : Owned(rows'[i])
<1>1. Owned(s) /\ s \in ShownRow
  BY NamesAssumption, RowsAssumption DEF Owned, Says, Nicknames
<1>2. rows \in Seq(ShownRow)
  BY DEF OwnedInv, AppTypeOK
<1>3. \/ rows' = Append(rows, s)
      \/ \E f \in DOMAIN rows :
           /\ samePeer(rows[f], s)
           /\ rows' = [rows EXCEPT ![f] = Updated(rows[f], s)]
  BY <1>1, <1>2, ShownRowUpdated, UpdateProperties
<1>4. CASE rows' = Append(rows, s)
  <2>1. \A i \in DOMAIN rows' : rows'[i] = s \/ (i \in DOMAIN rows /\ rows'[i] = rows[i])
    BY <1>1, <1>2, <1>4
  <2>. QED BY <1>1, <2>1 DEF OwnedInv
<1>5. ASSUME NEW f \in DOMAIN rows, samePeer(rows[f], s),
             rows' = [rows EXCEPT ![f] = Updated(rows[f], s)]
      PROVE  \A i \in DOMAIN rows' : Owned(rows'[i])
  <2>1. /\ DOMAIN rows' = DOMAIN rows
        /\ \A i \in DOMAIN rows : rows'[i] = IF i = f THEN Updated(rows[f], s) ELSE rows[i]
    BY <1>2, <1>5
  <2>2. PICK m \in Nicknames : Says(rows[f], m)
    BY DEF OwnedInv, Owned
  <2>3. PICK n \in Nicknames : Says(s, n)
    BY <1>1 DEF Owned
  <2>. QED BY <1>5, <2>1, <2>2, <2>3, SameName, UpdatedSays DEF OwnedInv, Owned
<1>. QED BY <1>3, <1>4, <1>5

LEMMA LostOwned ==
  ASSUME OwnedInv, NEW p, rows' = removePeer(rows, p)
  PROVE  \A i \in DOMAIN rows' : Owned(rows'[i])
<1>1. rows \in Seq(ShownRow)
  BY DEF OwnedInv, AppTypeOK
<1>2. \A k \in DOMAIN rows' : \E i \in DOMAIN rows : rows'[k] = rows[i]
  BY <1>1, RemoveProperties
<1>. QED BY <1>2 DEF OwnedInv

(* The target resolved at the last moment has the name the header showed.  *)
LEMMA AskOwned ==
  ASSUME OwnedInv, Ask
  PROVE  (active' # None => Owned(active')) /\ SentAsShown'
<1>0. rows \in Seq(ShownRow) /\ active \in ShownRow \cup {None} /\ sendCh \in Seq(Request)
  BY DEF OwnedInv, AppTypeOK
<1>1. CASE active = None
  BY <1>1 DEF Ask, OwnedInv, SentAsShown, Requests
<1>2. CASE active # None
  <2>1. active' = Fresh(active)
    BY <1>2 DEF Ask
  <2>2. PICK n \in Nicknames : Says(active, n)
    BY <1>2 DEF OwnedInv, Owned
  <2>3. Says(active', n)
    <3>1. CASE active' = active
      BY <2>2, <3>1
    <3>2. ASSUME NEW i \in DOMAIN rows, samePeer(rows[i], active), active' = rows[i]
          PROVE  Says(active', n)
      <4>1. PICK m \in Nicknames : Says(rows[i], m)
        BY DEF OwnedInv, Owned
      <4>2. m = n
        BY <2>2, <3>2, <4>1, SameName
      <4>. QED BY <3>2, <4>1, <4>2
    <3>. QED BY <1>0, <1>2, <2>1, <3>1, <3>2, ChosenType
  <2>4. CASE sendCh' = sendCh
    BY <2>3, <2>4 DEF Owned, Ask, OwnedInv, SentAsShown, Requests
  <2>5. CASE sendCh' # sendCh
    <3> DEFINE r == [n |-> asks, to |-> active'.id, shown |-> active.nick]
    <3>1. active'.id # None /\ sendCh' = Append(sendCh, r) /\ sending' = sending
      BY <2>5 DEF Ask
    <3>2. r.shown \in {Name[r.to], None}
      BY <2>2, <2>3, <3>1 DEF Says
    <3> HIDE DEF r
    <3>3. \A i \in DOMAIN sendCh' : sendCh'[i] = r \/ \E j \in DOMAIN sendCh : sendCh'[i] = sendCh[j]
      <4>1. sendCh' = Append(sendCh, r)
        BY <3>1
      <4>2. /\ Len(sendCh) \in Nat /\ DOMAIN sendCh = 1..Len(sendCh)
            /\ DOMAIN sendCh' = 1..(Len(sendCh) + 1)
            /\ \A i \in 1..Len(sendCh) : sendCh'[i] = sendCh[i]
            /\ sendCh'[Len(sendCh) + 1] = r
        BY <1>0, <4>1
      <4>3. \A i \in DOMAIN sendCh' : i \in DOMAIN sendCh \/ i = Len(sendCh) + 1
        BY <4>2
      <4>. QED BY <4>2, <4>3
    <3>4. SentAsShown'
      BY <3>1, <3>2, <3>3 DEF OwnedInv, SentAsShown, Requests
    <3>. QED BY <2>3, <3>4 DEF Owned
  <2>. QED BY <2>4, <2>5
<1>. QED BY <1>1, <1>2

LEMMA OwnedStep == OwnedInv /\ [AppNext]_appVars => OwnedInv'
<1> SUFFICES ASSUME OwnedInv, [AppNext]_appVars PROVE OwnedInv'
  OBVIOUS
<1>0. AppTypeOK'
  BY AppTypeStep DEF OwnedInv
<1>1. CASE UNCHANGED <<rows, active, sendCh, sending>>
  BY <1>0, <1>1 DEF OwnedInv, SentAsShown, Requests
<1>2. CASE Take
  <2>1. /\ sendCh \in Seq(Request) /\ sendCh # <<>>
        /\ sendCh' = Tail(sendCh) /\ sending' = sending \cup {Head(sendCh)}
    BY <1>2 DEF Take, OwnedInv, AppTypeOK
  <2>2. /\ \E j \in DOMAIN sendCh : Head(sendCh) = sendCh[j]
        /\ \A i \in DOMAIN sendCh' : \E j \in DOMAIN sendCh : sendCh'[i] = sendCh[j]
    BY <2>1
  <2>3. SentAsShown'
    BY <2>1, <2>2 DEF OwnedInv, SentAsShown, Requests
  <2>. QED BY <1>0, <1>2, <2>3 DEF Take, peerVars, OwnedInv
<1>3. CASE \E r \in sending : Sent(r)
  BY <1>0, <1>3 DEF Sent, peerVars, OwnedInv, SentAsShown, Requests
<1>4. ASSUME NEW s \in Sightings, PeerFound(s) PROVE OwnedInv'
  BY <1>0, <1>4, FoundOwned DEF PeerFound, sendVars, OwnedInv, SentAsShown, Requests
<1>5. ASSUME NEW p \in DOMAIN Name, PeerLost(p) PROVE OwnedInv'
  BY <1>0, <1>5, LostOwned DEF PeerLost, sendVars, OwnedInv, SentAsShown, Requests
<1>6. CASE UpDown
  <2>1. PICK step \in {-1, 1} : active' = Neighbour(step)
    BY <1>6 DEF UpDown
  <2>2. active' # None => Owned(active')
    BY <2>1, ChosenType DEF OwnedInv, AppTypeOK
  <2>. QED BY <1>0, <1>6, <2>2 DEF UpDown, sendVars, OwnedInv, SentAsShown, Requests
<1>7. CASE Choose
  <2>1. rows # <<>> => 1 \in DOMAIN rows
    BY DEF OwnedInv, AppTypeOK
  <2>2. active' # None => Owned(active')
    BY <1>7, <2>1 DEF Choose, OwnedInv
  <2>. QED BY <1>0, <1>7, <2>2 DEF Choose, sendVars, OwnedInv, SentAsShown, Requests
<1>8. CASE Submit \/ Confirm
  <2>1. Ask
    BY <1>8 DEF Submit, Confirm
  <2>. QED BY <1>0, <2>1, AskOwned DEF Ask, OwnedInv
<1>9. CASE \/ EnterNickname \/ StartCore \/ Started \/ ChangeFocus \/ Quit \/ Tab \/ Cancel
           \/ Cursor \/ Slash \/ Apply \/ Clear \/ OpenDir \/ Pick
           \/ (\E q \in Filters : Type(q)) \/ UNCHANGED appVars
  BY <1>1, <1>9 DEF EnterNickname, StartCore, Started, ChangeFocus, Quit, Tab, Cancel, Cursor,
                    Slash, Apply, Clear, OpenDir, Pick, Type, appVars, peerVars, sendVars
<1>. QED BY <1>2, <1>3, <1>4, <1>5, <1>6, <1>7, <1>8, <1>9 DEF AppNext

(* Whatever rows come, go, merge and are chosen between, a message or file *)
(* goes to somebody of the name the user saw.                              *)
THEOREM SentToTheNameShown == AppSpec => []SentAsShown
<1>1. AppInit => OwnedInv
  BY AppTypeInit DEF AppInit, OwnedInv, SentAsShown, Requests
<1>2. OwnedInv => SentAsShown
  BY DEF OwnedInv
<1>. QED BY <1>1, <1>2, OwnedStep, PTL DEF AppSpec

---------------------------------------------------------------------------
(* App: before the core is up, and the cursor.                             *)

(* Without the core nobody is listed, so nobody is chosen, so nothing is   *)
(* asked of the dispatcher: why it may take requests before Start is done. *)
(* The set-up screen never returns.                                        *)
QuietInv ==
  /\ AppTypeOK
  /\ focus = "setup" => core = "setup"
  /\ core # "up" => rows = <<>> /\ active = None /\ sendCh = <<>> /\ sending = {}

(* No Send runs before the core is up.                                     *)
THEOREM NoSendBeforeStart == AppSpec => []NothingBeforeStart
<1>1. AppInit => QuietInv
  BY AppTypeInit DEF AppInit, QuietInv
<1>2. QuietInv /\ [AppNext]_appVars => QuietInv'
  <2> SUFFICES ASSUME QuietInv, [AppNext]_appVars PROVE QuietInv'
    OBVIOUS
  <2>0. AppTypeOK' /\ rows \in Seq(ShownRow) /\ active \in ShownRow \cup {None}
    BY AppTypeStep DEF QuietInv, AppTypeOK
  <2>1. CASE /\ UNCHANGED <<core, rows, active, sendCh, sending>>
             /\ focus' = focus \/ focus' # "setup"
    BY <2>0, <2>1 DEF QuietInv
  <2>2. CASE EnterNickname \/ StartCore \/ Started
    BY <2>0, <2>2 DEF EnterNickname, StartCore, Started, peerVars, sendVars, QuietInv
  <2>3. CASE Take \/ \E r \in sending : Sent(r)
    BY <2>0, <2>3 DEF Take, Sent, peerVars, QuietInv
  <2>4. CASE (\E s \in Sightings : PeerFound(s)) \/ \E p \in DOMAIN Name : PeerLost(p)
    BY <2>0, <2>4 DEF PeerFound, PeerLost, QuietInv
  <2>5. CASE UpDown
    <3>1. active' = Neighbour(-1) \/ active' = Neighbour(1)
      BY <2>5 DEF UpDown
    <3>2. rows = <<>> => active' = None
      BY <2>0, <3>1, ChosenType
    <3>. QED BY <2>0, <2>5, <3>2 DEF UpDown, sendVars, QuietInv
  <2>6. CASE Choose
    BY <2>0, <2>6 DEF Choose, sendVars, QuietInv
  <2>7. CASE Submit \/ Confirm
    BY <2>0, <2>7 DEF Submit, Confirm, Ask, QuietInv
  <2>8. CASE \/ ChangeFocus \/ Quit \/ Tab \/ Cancel \/ Cursor \/ Slash \/ Apply \/ Clear
             \/ OpenDir \/ Pick \/ (\E q \in Filters : Type(q)) \/ UNCHANGED appVars
    BY <2>1, <2>8 DEF ChangeFocus, Goes, Quit, Tab, Cancel, Cursor, Slash, Apply, Clear, OpenDir,
                      Pick, Type, appVars, peerVars, sendVars
  <2>. QED BY <2>2, <2>3, <2>4, <2>5, <2>6, <2>7, <2>8 DEF AppNext
<1>3. QuietInv => NothingBeforeStart
  BY DEF QuietInv, NothingBeforeStart
<1>. QED BY <1>1, <1>2, <1>3, PTL DEF AppSpec

(* The cursor of the file panel is on an entry that is shown, whatever is  *)
(* opened and typed, for every tree of directories and every filter.       *)
THEOREM CursorIsShown == AppSpec => []CursorShown
<1> DEFINE Inv == AppTypeOK /\ CursorShown
<1>0. AppTypeOK => (Visible # <<>> => 1 \in DOMAIN Visible)
  BY VisibleIsFiltered, FilteredType DEF AppTypeOK
<1>1. AppInit => Inv
  BY <1>0, AppTypeInit DEF AppInit, CursorShown
<1>2. Inv /\ [AppNext]_appVars => Inv'
  <2> SUFFICES ASSUME Inv, [AppNext]_appVars PROVE Inv'
    OBVIOUS
  <2>0. AppTypeOK'
    BY AppTypeStep
  <2>1. CASE UNCHANGED <<cwd, idx, filter>>
    BY <2>0, <2>1 DEF CursorShown, Visible
  <2>2. CASE idx' = 1
    <3>1. PICK d \in Dirs : d = cwd'
      BY <2>0 DEF AppTypeOK
    <3>2. Visible' = Filtered(d, filter')
      BY <3>1 DEF Visible, Filtered
    <3>3. Visible' # <<>> => 1 \in DOMAIN Visible'
      BY <3>2, FilteredType
    <3>. QED BY <2>0, <2>2, <3>3 DEF CursorShown
  <2>3. CASE Cursor
    <3>1. Visible' = Visible /\ idx' \in DOMAIN Visible
      BY <2>3 DEF Cursor, Visible
    <3>. QED BY <2>0, <3>1 DEF CursorShown
  <2>4. CASE Slash \/ Clear \/ OpenDir \/ \E q \in Filters : Type(q)
    BY <2>2, <2>4 DEF Slash, Clear, OpenDir, Type
  <2>5. CASE \/ EnterNickname \/ StartCore \/ Started \/ Take \/ ChangeFocus \/ Quit \/ Tab
             \/ UpDown \/ Choose \/ Submit \/ Confirm \/ Cancel \/ Apply \/ Pick
             \/ (\E s \in Sightings : PeerFound(s)) \/ (\E p \in DOMAIN Name : PeerLost(p))
             \/ (\E r \in sending : Sent(r)) \/ UNCHANGED appVars
    BY <2>1, <2>5 DEF EnterNickname, StartCore, Started, Take, ChangeFocus, Quit, Tab, UpDown,
                      Choose, Submit, Confirm, Ask, Cancel, Apply, Pick, PeerFound, PeerLost,
                      Sent, appVars, fileVars
  <2>. QED BY <2>3, <2>4, <2>5 DEF AppNext
<1>3. Inv => CursorShown
  OBVIOUS
<1>. QED BY <1>1, <1>2, <1>3, PTL DEF AppSpec

===========================================================================
