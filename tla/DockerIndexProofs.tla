-------------------------- MODULE DockerIndexProofs --------------------------
(* The index of layers and the quarantine say the same of a layer, over    *)
(* every pull, prefetch, decision, failure and restart.                    *)
EXTENDS DockerIndex, WellFoundedInduction, TLAPS

Names == Tags \union Manifests \union Layers

-----------------------------------------------------------------------------
(* Keys.                                                                   *)

LEMMA NamedIsKnown ==
    ASSUME NEW x \in Names
    PROVE  /\ Named(x) \subseteq Names
           /\ x \in Tags \union Manifests => Named(x) \subseteq Manifests
           /\ x \in Layers => Named(x) = {x} /\ x \notin Manifests
  BY DockerAssumption DEF Named, Names

LEMMA ChildShape ==
    ASSUME NEW k \in Seq(Names), NEW m, NEW c \in Children(k, m)
    PROVE  c \in Seq(Names) /\ Len(c) = Len(k) + 1 /\ Last(c) \in Names
  BY DockerAssumption DEF Children, Last, Names

LEMMA KeyShape ==
    ASSUME NEW k \in Keys
    PROVE  /\ k \in Seq(Names) /\ Last(k) \in Names
           /\ k \in Roots \/ Len(k) > 1
<1>1. \A r \in Roots : r \in Seq(Names) /\ Len(r) = 1 /\ Last(r) \in Names
  BY DEF Roots, Names, Last
<1>2. CASE k \in Roots
  BY <1>1, <1>2
<1>3. CASE k \notin Roots
  <2>0. PICK r \in Roots : \E m \in Named(r[1]) : k \in Parts(r, m)
    BY <1>3 DEF Keys
  <2>1. PICK m \in Named(r[1]) : k \in Parts(r, m)
    BY <2>0
  <2>2. CASE k \in Children(r, m)
    BY <1>1, <2>2, ChildShape
  <2>3. CASE \E c \in Children(r, m) : k \in Children(c, Last(c))
    <3>1. PICK c \in Children(r, m) : k \in Children(c, Last(c))
      BY <2>3
    <3>2. c \in Seq(Names) /\ Len(c) = 2
      <4>1. r \in Seq(Names) /\ Len(r) = 1
        BY <1>1
      <4>2. c \in Seq(Names) /\ Len(c) = Len(r) + 1
        BY <3>1, <4>1, ChildShape
      <4> QED
        BY <4>1, <4>2
    <3> QED
      BY <3>1, <3>2, ChildShape
  <2> QED
    BY <2>1, <2>2, <2>3 DEF Parts
<1> QED
  BY <1>2, <1>3

LEMMA RootIsManifest ==
    ASSUME NEW k \in Roots
    PROVE  k \in Keys /\ IsManifest(k) /\ Len(k) = 1
  BY DockerAssumption DEF Roots, Keys, IsManifest, Last

LEMMA LayerKeyIsLong ==
    ASSUME NEW k \in Keys, ~ IsManifest(k)
    PROVE  Last(k) \in Layers /\ IsLayerKey(k, Last(k))
  BY KeyShape, RootIsManifest DEF IsManifest, IsLayerKey

-----------------------------------------------------------------------------
(* Sequences.                                                              *)

LEMMA MinIsThere ==
    ASSUME NEW T \in SUBSET Nat, T # {}
    PROVE  Min(T) \in T
<1> DEFINE R == OpToRel(<, Nat)
<1>1. \E x \in T : \A y \in T : ~ (<<y, x>> \in R)
  <2>1. IsWellFoundedOn(R, Nat)
    BY NatLessThanWellFounded
  <2> HIDE DEF R
  <2> QED
    BY <2>1, WFMin
<1>2. \A x, y \in Nat : x < y => <<x, y>> \in R
  BY DEF OpToRel
<1> HIDE DEF R
<1>3. \E x \in T : \A y \in T : x =< y
  <2>1. PICK x \in T : \A y \in T : ~ (<<y, x>> \in R)
    BY <1>1
  <2>2. \A y \in T : ~ (y < x)
    BY <1>2, <2>1
  <2>3. \A y \in T : x =< y
    BY <2>2
  <2> QED
    BY <2>3
<1> QED
  BY <1>3 DEF Min

LEMMA FirstOf ==
    ASSUME NEW S, NEW s \in Seq(S), NEW K
    PROVE  LET n == SelectInSeq(s, LAMBDA k : k \in K) IN
           /\ n = 0 => \A i \in 1 .. Len(s) : s[i] \notin K
           /\ n # 0 => n \in 1 .. Len(s) /\ s[n] \in K
<1> DEFINE I == {i \in 1 .. Len(s) : s[i] \in K}
<1>1. SelectInSeq(s, LAMBDA k : k \in K) = IF I # {} THEN Min(I) ELSE 0
  BY DEF SelectInSeq
<1>2. I \in SUBSET Nat /\ \A i \in I : i # 0
  OBVIOUS
<1>3. I # {} => Min(I) \in I
  BY <1>2, MinIsThere
<1> QED
  BY <1>1, <1>2, <1>3

Has(s, e) == \E n \in 1 .. Len(s) : s[n] = e

(* What is left when a member is taken out and put at the end.             *)
LEMMA MovedToTheEnd ==
    ASSUME NEW S, NEW s \in Seq(S), NEW k \in S,
           NEW t, t = Append(RemoveFirst(s, k), k)
    PROVE  /\ t \in Seq(S)
           /\ \A e : Has(t, e) <=> (e = k \/ Has(s, e))
<1> DEFINE r == RemoveFirst(s, k)
<1>1. r \in Seq(S) /\ \A e : e # k => (Has(r, e) <=> Has(s, e))
  <2>1. CASE \E i \in 1 .. Len(s) : s[i] = k
    <3> DEFINE i == SelectInSeq(s, LAMBDA v : v = k)
               I == {j \in 1 .. Len(s) : s[j] = k}
    <3>1. i = Min(I)
      BY <2>1 DEF SelectInSeq
    <3>2. Min(I) \in I
      <4>1. I \in SUBSET Nat /\ I # {}
        BY <2>1
      <4> QED
        BY <4>1, MinIsThere
    <3>3. i \in 1 .. Len(s) /\ s[i] = k
      BY <3>1, <3>2
    <3>4. r = RemoveAt(s, i)
      BY <2>1 DEF RemoveFirst
    <3> HIDE DEF i, I, r
    <3> DEFINE front == SubSeq(s, 1, i - 1)
               back == SubSeq(s, i + 1, Len(s))
    <3>5. /\ front \in Seq(S) /\ Len(front) = i - 1
          /\ \A n \in 1 .. i - 1 : front[n] = s[n]
      BY <3>3
    <3>6. /\ back \in Seq(S) /\ Len(back) = Len(s) - i
          /\ \A n \in 1 .. Len(s) - i : back[n] = s[n + i]
      BY <3>3
    <3>7. r = front \o back
      BY <3>4 DEF RemoveAt
    <3> HIDE DEF front, back
    <3>8. /\ r \in Seq(S) /\ Len(r) = Len(s) - 1
          /\ \A n \in 1 .. Len(s) - 1 : r[n] = IF n < i THEN s[n] ELSE s[n + 1]
      <4>1. r \in Seq(S) /\ Len(r) = (i - 1) + (Len(s) - i)
        <5>1. front \in Seq(S) /\ back \in Seq(S)
          BY <3>5, <3>6
        <5>2. front \o back \in Seq(S) /\ Len(front \o back) = Len(front) + Len(back)
          BY <5>1
        <5> QED
          BY <3>5, <3>6, <3>7, <5>2
      <4>2. Len(r) = Len(s) - 1
        BY <3>3, <4>1
      <4>3. ASSUME NEW n \in 1 .. Len(s) - 1
            PROVE  r[n] = IF n < i THEN s[n] ELSE s[n + 1]
        <5>1. CASE n < i
          <6>1. n \in 1 .. Len(front)
            BY <3>3, <3>5, <5>1
          <6>2. r[n] = front[n]
            BY <3>5, <3>6, <3>7, <6>1
          <6> QED
            BY <3>5, <5>1, <6>1, <6>2
        <5>2. CASE ~ (n < i)
          <6>1. /\ n - Len(front) \in 1 .. Len(back) /\ n \in 1 .. Len(r) /\ n > Len(front)
                /\ n - Len(front) = n + 1 - i
            BY <3>3, <3>5, <3>6, <4>1, <5>2
          <6>2. r[n] = back[n - Len(front)]
            BY <3>5, <3>6, <3>7, <6>1
          <6>3. /\ n + 1 - i \in 1 .. Len(s) - i
                /\ (n + 1 - i) + i = n + 1
            BY <3>3, <3>6, <6>1
          <6>4. back[n + 1 - i] = s[n + 1]
            BY <3>6, <6>3
          <6> QED
            BY <5>2, <6>1, <6>2, <6>4
        <5> QED
          BY <5>1, <5>2
      <4> QED
        BY <4>1, <4>2, <4>3
    <3>9. ASSUME NEW e, e # k, Has(s, e)
          PROVE  Has(r, e)
      <4>1. PICK n \in 1 .. Len(s) : s[n] = e
        BY <3>9 DEF Has
      <4>2. n # i
        BY <3>3, <3>9, <4>1
      <4>3. CASE n < i
        BY <3>3, <3>8, <4>1, <4>3 DEF Has
      <4>4. CASE n > i
        <5>1. n - 1 \in 1 .. Len(s) - 1 /\ ~ (n - 1 < i) /\ (n - 1) + 1 = n
          BY <3>3, <4>1, <4>4
        <5> QED
          BY <3>8, <4>1, <5>1 DEF Has
      <4> QED
        BY <3>3, <4>1, <4>2, <4>3, <4>4
    <3>10. ASSUME NEW e, Has(r, e)
           PROVE  Has(s, e)
      BY <3>3, <3>8, <3>10 DEF Has
    <3> QED
      BY <3>8, <3>9, <3>10
  <2>2. CASE ~ \E i \in 1 .. Len(s) : s[i] = k
    BY <2>2 DEF RemoveFirst
  <2> QED
    BY <2>1, <2>2
<1>2. \A e : Has(r, e) => Has(s, e) \/ e = k
  BY <1>1
<1> HIDE DEF r
<1>3. /\ Append(r, k) \in Seq(S) /\ Len(Append(r, k)) = Len(r) + 1
      /\ Append(r, k)[Len(r) + 1] = k
      /\ \A n \in 1 .. Len(r) : Append(r, k)[n] = r[n]
  BY <1>1
<1>4. \A e : Has(Append(r, k), e) <=> e = k \/ Has(r, e)
  BY <1>1, <1>3 DEF Has
<1>5. \A e : Has(Append(r, k), e) <=> e = k \/ Has(s, e)
  BY <1>1, <1>2, <1>4
<1> QED
  BY <1>3, <1>5 DEF r

-----------------------------------------------------------------------------
(* The invariant.                                                          *)

Row == [status : {"absent", "pending", "approved", "rejected"},
        sha : Bytes \union {Nowhere}]
Job == [pc : {"none", "check", "fetch", "enqueue", "index"}, bytes : Bytes \union {Nowhere}]
Paths == Keys \union {<<y>> : y \in Layers}
Serving == [pc : {"idle", "fetch", "decide"}, want : Names \union {Nowhere},
            key : Paths \union {Nowhere}, bytes : Bytes \union {Nowhere},
            digest : Bytes \union {Nowhere},
            got : Bytes \union {Nowhere, "error", "pending"}]

DockerTypeOK ==
    /\ row \in [Keys -> Row]
    /\ order \in Seq(Keys)
    /\ cache \in [Keys -> Bytes \union {Nowhere}]
    /\ digestIndex \in [Layers -> Keys \union {Nowhere}]
    /\ manifestIndex \in [Manifests -> Keys \union {Nowhere}]
    /\ job \in [Keys -> Job]
    /\ client \in [Clients -> Serving]

(* The rows in the order of their requests, from which a restart rebuilds  *)
(* the indexes.                                                            *)
OrderIsRows == \A k \in Keys : row[k].status # "absent" <=> Has(order, k)

(* A prefetch registers what it has filed, and a pull that goes for a key  *)
(* has it from an index, or it is the path of a manifest.                  *)
JobHasRow == \A k \in Keys : job[k].pc = "index" => row[k].status # "absent"

ManifestsApart ==
    \A m \in Manifests : manifestIndex[m] # Nowhere => IsManifest(manifestIndex[m])

PullOK(pull, index) ==
    /\ pull.pc = "fetch" =>
         pull.want \in Names /\ (pull.want \notin Layers => pull.key \in Roots)
    /\ pull.pc # "idle" =>
         /\ pull.key \in Paths
         /\ pull.key \in Keys /\ ~ IsManifest(pull.key) => index[Last(pull.key)] # Nowhere

PullIsIndexed == \A c \in Clients : PullOK(client[c], digestIndex)

DockerInv ==
    /\ DockerTypeOK /\ OrderIsRows /\ JobHasRow /\ ManifestsApart /\ PullIsIndexed
    /\ IndexedHasRow /\ RowIsIndexed

LEMMA OldestIsThere ==
    ASSUME DockerInv, NEW keys \in SUBSET Keys
    PROVE  /\ Oldest(keys) = Nowhere => \A k \in keys : row[k].status = "absent"
           /\ Oldest(keys) # Nowhere => Oldest(keys) \in keys /\ row[Oldest(keys)].status # "absent"
<1> DEFINE n == SelectInSeq(order, LAMBDA k : k \in keys)
<1>1. order \in Seq(Keys)
  BY DEF DockerInv, DockerTypeOK
<1>2. /\ n = 0 => \A i \in 1 .. Len(order) : order[i] \notin keys
      /\ n # 0 => n \in 1 .. Len(order) /\ order[n] \in keys
  BY <1>1, FirstOf
<1>3. Oldest(keys) = IF n = 0 THEN Nowhere ELSE order[n]
  BY DEF Oldest
<1> HIDE DEF n
<1>4. CASE n = 0
  <2>1. \A k \in keys : row[k].status = "absent"
    BY <1>2, <1>4 DEF DockerInv, OrderIsRows, Has
  <2> QED
    BY <1>3, <1>4, <2>1
<1>5. CASE n # 0
  <2>1. order[n] \in keys /\ order[n] # Nowhere
    BY <1>2, <1>5, DockerAssumption
  <2>2. row[order[n]].status # "absent"
    BY <1>2, <1>5, <2>1 DEF DockerInv, OrderIsRows, Has
  <2> QED
    BY <1>3, <1>5, <2>1, <2>2
<1> QED
  BY <1>4, <1>5

-----------------------------------------------------------------------------
(* Steps.                                                                  *)

(* Rows are made and decided on, and never go.                             *)
RowsStay == \A k \in Keys : row[k].status # "absent" => row'[k].status # "absent"
IndexStays ==
    \A y \in Layers : digestIndex[y] # Nowhere => digestIndex'[y] # Nowhere

LEMMA EnqueueKeeps ==
    ASSUME DockerInv, NEW k \in Keys, NEW b \in Bytes \union {Nowhere}, Enqueue(k, b)
    PROVE  /\ row' \in [Keys -> Row] /\ order' \in Seq(Keys) /\ OrderIsRows'
           /\ RowsStay /\ row'[k].status # "absent"
           /\ \A j \in Keys \ {k} : row'[j] = row[j]
<1> USE DEF DockerInv, DockerTypeOK
<1>1. CASE Live(k)
  <2>1. row' = row /\ order' = order
    BY <1>1 DEF Enqueue, Filed
  <2>2. row[k].status # "absent"
    BY <1>1 DEF Live
  <2> QED
    BY <2>1, <2>2 DEF RowsStay, OrderIsRows
<1>2. CASE ~ Live(k)
  <2>1. PICK new \in Row : row' = [row EXCEPT ![k] = new] /\ new.status # "absent"
    <3> DEFINE new == [status |-> IF \E a \in Above[k] : row[a].status = "approved"
                                  THEN "approved" ELSE "pending",
                       sha |-> IF row[k].sha = Nowhere THEN b ELSE row[k].sha]
    <3>1. row' = [row EXCEPT ![k] = new]
      BY <1>2 DEF Enqueue, Filed
    <3>2. new \in Row /\ new.status # "absent"
      BY DEF Row
    <3> QED
      BY <3>1, <3>2
  <2>2. order' = Append(RemoveFirst(order, k), k)
    BY <1>2 DEF Enqueue
  <2>3. /\ row' \in [Keys -> Row] /\ row'[k].status # "absent"
        /\ \A j \in Keys \ {k} : row'[j] = row[j]
    BY <2>1
  <2>4. /\ order' \in Seq(Keys)
        /\ \A j : Has(order', j) <=> (j = k \/ Has(order, j))
    <3>1. order \in Seq(Keys)
      OBVIOUS
    <3>2. \A t : t = Append(RemoveFirst(order, k), k) =>
            /\ t \in Seq(Keys)
            /\ \A j : Has(t, j) <=> (j = k \/ Has(order, j))
      BY <3>1, MovedToTheEnd, Zenon
    <3> QED
      BY <2>2, <3>2, Zenon
  <2>5. OrderIsRows'
    BY <2>3, <2>4 DEF OrderIsRows
  <2> QED
    BY <2>3, <2>4, <2>5 DEF RowsStay
<1> QED
  BY <1>1, <1>2

LEMMA LaunchedKeeps ==
    ASSUME NEW j \in [Keys -> Job], NEW k, NEW m
    PROVE  /\ Launched(j, k, m) \in [Keys -> Job]
           /\ \A c \in Keys : Launched(j, k, m)[c].pc = "index" <=> j[c].pc = "index"
<1>1. [NoJob EXCEPT !.pc = "check"] \in Job /\ [NoJob EXCEPT !.pc = "check"].pc = "check"
  BY DEF NoJob, Job
<1> QED
  BY <1>1 DEF Launched

(* What is left of the invariant when the rows, the indexes and the jobs   *)
(* have moved on.                                                          *)
LEMMA PartsKeep ==
    ASSUME DockerInv, DockerTypeOK', OrderIsRows', ManifestsApart', PullIsIndexed',
           RowsStay,
           \A k \in Keys : job'[k].pc = "index" => job[k].pc = "index" \/ row'[k].status # "absent",
           \A y \in Layers :
              \/ digestIndex'[y] = digestIndex[y]
              \/ /\ digestIndex'[y] \in Keys /\ Last(digestIndex'[y]) = y
                 /\ row'[digestIndex'[y]].status # "absent",
           \A k \in Keys : ~ IsManifest(k) /\ row'[k].status # "absent" /\ job'[k].pc # "index" =>
              \/ row[k].status # "absent" /\ job[k].pc # "index"
              \/ digestIndex'[Last(k)] # Nowhere
    PROVE  DockerInv'
<1>1. JobHasRow'
  BY DEF DockerInv, JobHasRow, RowsStay
<1>2. IndexedHasRow'
  <2>1. \A y \in Layers : digestIndex[y] # Nowhere =>
          /\ digestIndex[y] \in Keys /\ row'[digestIndex[y]].status # "absent"
          /\ Last(digestIndex[y]) = y
    BY DEF DockerInv, DockerTypeOK, IndexedHasRow, RowsStay
  <2> QED
    BY <2>1 DEF IndexedHasRow
<1>3. RowIsIndexed'
  <2>1. \A y \in Layers : digestIndex[y] # Nowhere => digestIndex'[y] # Nowhere
    BY DockerAssumption
  <2>2. \A k \in Keys : ~ IsManifest(k) => Last(k) \in Layers
    BY DEF IsManifest
  <2> QED
    BY <2>1, <2>2 DEF DockerInv, RowIsIndexed, IsManifest
<1> QED
  BY <1>1, <1>2, <1>3 DEF DockerInv

LEMMA PullsStay ==
    ASSUME DockerInv, NEW index, \A y \in Layers : digestIndex[y] # Nowhere => index[y] # Nowhere
    PROVE  \A c \in Clients : PullOK(client[c], index)
<1>1. \A k \in Keys : ~ IsManifest(k) => Last(k) \in Layers
  BY DEF IsManifest
<1> QED
  BY <1>1 DEF DockerInv, PullIsIndexed, PullOK

LEMMA IdleIsOK ==
    ASSUME NEW got \in Bytes \union {Nowhere, "error", "pending"}
    PROVE  /\ [NoPull EXCEPT !.got = got] \in Serving
           /\ \A index : PullOK([NoPull EXCEPT !.got = got], index)
  BY DEF NoPull, Serving, PullOK

LEMMA ClientMoves ==
    ASSUME DockerInv, NEW c \in Clients, NEW new \in Serving, PullOK(new, digestIndex),
           client' = [client EXCEPT ![c] = new], UNCHANGED digestIndex
    PROVE  client' \in [Clients -> Serving] /\ PullIsIndexed'
<1>1. client' \in [Clients -> Serving]
  BY DEF DockerInv, DockerTypeOK
<1>2. client'[c] = new /\ \A d \in Clients \ {c} : client'[d] = client[d]
  BY DEF DockerInv, DockerTypeOK
<1>3. \A d \in Clients : PullOK(client'[d], digestIndex')
  BY <1>2 DEF DockerInv, PullIsIndexed
<1> QED
  BY <1>1, <1>3 DEF PullIsIndexed

(* Only a pull has moved.                                                  *)
LEMMA OnlyClientMoves ==
    ASSUME DockerInv, NEW c \in Clients, NEW new \in Serving, PullOK(new, digestIndex),
           client' = [client EXCEPT ![c] = new],
           UNCHANGED <<row, order, digestIndex, job>>,
           cache' \in [Keys -> Bytes \union {Nowhere}],
           manifestIndex' \in [Manifests -> Keys \union {Nowhere}], ManifestsApart'
    PROVE  DockerInv'
<1>1. client' \in [Clients -> Serving] /\ PullIsIndexed'
  BY ClientMoves
<1>2. DockerTypeOK'
  BY <1>1 DEF DockerInv, DockerTypeOK
<1>3. OrderIsRows' /\ RowsStay
  BY DEF DockerInv, OrderIsRows, Has, RowsStay
<1> QED
  BY <1>1, <1>2, <1>3, PartsKeep

LEMMA FetchRecord ==
    ASSUME NEW x, NEW k
    PROVE  [NoPull EXCEPT !.pc = "fetch", !.want = x, !.key = k] =
             [pc |-> "fetch", want |-> x, key |-> k, bytes |-> Nowhere,
                digest |-> Nowhere, got |-> Nowhere]
<1> DEFINE r1 == [NoPull EXCEPT !.pc = "fetch"]
           r2 == [r1 EXCEPT !.want = x]
           r3 == [r2 EXCEPT !.key = k]
<1>1. [NoPull EXCEPT !.pc = "fetch", !.want = x, !.key = k] = r3
  OBVIOUS
<1>2. r1 = [pc |-> "fetch", want |-> Nowhere, key |-> Nowhere, bytes |-> Nowhere,
                digest |-> Nowhere, got |-> Nowhere]
  BY DEF NoPull
<1> HIDE DEF r1
<1>3. r2 = [pc |-> "fetch", want |-> x, key |-> Nowhere, bytes |-> Nowhere,
                digest |-> Nowhere, got |-> Nowhere]
  BY <1>2
<1> HIDE DEF r2
<1>4. r3 = [pc |-> "fetch", want |-> x, key |-> k, bytes |-> Nowhere,
                digest |-> Nowhere, got |-> Nowhere]
  BY <1>3
<1> QED
  BY <1>1, <1>4

(* The pull that has found its bytes.                                      *)
FoundPull(x, k, b, d) ==
    [NoPull EXCEPT !.pc = "decide", !.want = x, !.key = k, !.bytes = b, !.digest = d]

LEMMA FoundRecord ==
    ASSUME NEW x, NEW k, NEW b, NEW d
    PROVE  FoundPull(x, k, b, d) =
             [pc |-> "decide", want |-> x, key |-> k, bytes |-> b, digest |-> d, got |-> Nowhere]
<1> DEFINE r1 == [NoPull EXCEPT !.pc = "decide"]
           r2 == [r1 EXCEPT !.want = x]
           r3 == [r2 EXCEPT !.key = k]
           r4 == [r3 EXCEPT !.bytes = b]
           r5 == [r4 EXCEPT !.digest = d]
<1>1. FoundPull(x, k, b, d) = r5
  BY DEF FoundPull
<1>2. r1 = [pc |-> "decide", want |-> Nowhere, key |-> Nowhere, bytes |-> Nowhere,
                digest |-> Nowhere, got |-> Nowhere]
  BY DEF NoPull
<1> HIDE DEF r1
<1>3. r2 = [pc |-> "decide", want |-> x, key |-> Nowhere, bytes |-> Nowhere,
                digest |-> Nowhere, got |-> Nowhere]
  BY <1>2
<1> HIDE DEF r2
<1>4. r3 = [pc |-> "decide", want |-> x, key |-> k, bytes |-> Nowhere,
                digest |-> Nowhere, got |-> Nowhere]
  BY <1>3
<1> HIDE DEF r3
<1>5. r4 = [pc |-> "decide", want |-> x, key |-> k, bytes |-> b, digest |-> Nowhere, got |-> Nowhere]
  BY <1>4
<1> HIDE DEF r4
<1>6. r5 = [pc |-> "decide", want |-> x, key |-> k, bytes |-> b, digest |-> d, got |-> Nowhere]
  BY <1>5
<1> HIDE DEF r5
<1> QED
  BY <1>1, <1>6

LEMMA PullKeeps ==
    ASSUME DockerInv, NEW c \in Clients, Pull(c)
    PROVE  DockerInv'
<1>1. /\ cache \in [Keys -> Bytes \union {Nowhere}]
      /\ digestIndex \in [Layers -> Keys \union {Nowhere}]
      /\ manifestIndex \in [Manifests -> Keys \union {Nowhere}]
  BY DEF DockerInv, DockerTypeOK
<1>2. ASSUME NEW x \in Names, NEW k \in Keys, NEW d \in Bytes \union {Nowhere},
             cache[k] # Nowhere, Found(c, x, k, d),
             IsManifest(k) \/ digestIndex[Last(k)] # Nowhere,
             UNCHANGED <<storage, indexes, job>>
      PROVE  DockerInv'
  <2> DEFINE new == FoundPull(x, k, cache[k], d)
  <2>1. new = [pc |-> "decide", want |-> x, key |-> k, bytes |-> cache[k],
              digest |-> d, got |-> Nowhere]
    BY FoundRecord
  <2>2. new \in Serving /\ PullOK(new, digestIndex)
    BY <1>1, <1>2, <2>1 DEF Serving, Paths, PullOK
  <2>3. client' = [client EXCEPT ![c] = new]
    BY <1>2 DEF Found, FoundPull
  <2>4. ManifestsApart' /\ UNCHANGED <<row, order, cache, indexes, job>>
    BY <1>2 DEF DockerInv, ManifestsApart, storage, indexes
  <2> HIDE DEF new
  <2> QED
    BY <1>1, <2>2, <2>3, <2>4, OnlyClientMoves DEF indexes
<1>3. ASSUME NEW x \in Names, NEW k \in Paths, Fetching(c, x, k),
             x \notin Layers => k \in Roots,
             k \in Keys /\ ~ IsManifest(k) => digestIndex[Last(k)] # Nowhere,
             UNCHANGED <<storage, indexes, job>>
      PROVE  DockerInv'
  <2> DEFINE new == [NoPull EXCEPT !.pc = "fetch", !.want = x, !.key = k]
  <2>1. new = [pc |-> "fetch", want |-> x, key |-> k, bytes |-> Nowhere,
              digest |-> Nowhere, got |-> Nowhere]
    BY FetchRecord
  <2>2. new \in Serving /\ PullOK(new, digestIndex)
    BY <1>3, <2>1 DEF Serving, PullOK
  <2>3. client' = [client EXCEPT ![c] = new]
    BY <1>3 DEF Fetching
  <2>4. ManifestsApart' /\ UNCHANGED <<row, order, cache, indexes, job>>
    BY <1>3 DEF DockerInv, ManifestsApart, storage, indexes
  <2> HIDE DEF new
  <2> QED
    BY <1>1, <2>2, <2>3, <2>4, OnlyClientMoves DEF indexes
<1>4. ASSUME NEW y \in Layers, PullLayer(c, y)
      PROVE  DockerInv'
  <2> DEFINE k == digestIndex[y]
  <2>1. y \in Names /\ <<y>> \in Paths /\ UNCHANGED <<storage, indexes, job>>
    BY <1>4 DEF Names, Paths, PullLayer, Begin
  <2>2. k # Nowhere => k \in Keys /\ Last(k) = y
    BY <1>1 DEF DockerInv, IndexedHasRow
  <2>3. CASE k = Nowhere
    <3>1. Fetching(c, y, <<y>>)
      BY <1>4, <2>3 DEF PullLayer
    <3>2. <<y>> \notin Keys \/ IsManifest(<<y>>)
      <4> SUFFICES ASSUME <<y>> \in Keys
                   PROVE  IsManifest(<<y>>)
        OBVIOUS
      <4>1. <<y>> \in Roots \/ Len(<<y>>) > 1
        BY KeyShape, Zenon
      <4>2. ~ (Len(<<y>>) > 1)
        OBVIOUS
      <4> QED
        BY <4>1, <4>2, RootIsManifest, Zenon
    <3> QED
      BY <1>3, <2>1, <3>1, <3>2
  <2>4. CASE k # Nowhere /\ cache[k] # Nowhere
    <3>1. Found(c, y, k, y)
      BY <1>4, <2>4 DEF PullLayer
    <3> QED
      BY <1>2, <2>1, <2>2, <2>4, <3>1 DEF Bytes
  <2>5. CASE k # Nowhere /\ cache[k] = Nowhere
    <3>1. Fetching(c, y, k)
      BY <1>4, <2>5 DEF PullLayer
    <3> QED
      BY <1>3, <2>1, <2>2, <2>5, <3>1 DEF Paths
  <2> QED
    BY <2>3, <2>4, <2>5
<1>5. ASSUME NEW x \in Tags \union Manifests, PullManifest(c, x)
      PROVE  DockerInv'
  <2> DEFINE path == <<x>>
             k == IF x \in Manifests THEN manifestIndex[x] ELSE Nowhere
  <2>1. x \in Names /\ x \notin Layers /\ UNCHANGED <<storage, indexes, job>>
    BY <1>5, DockerAssumption DEF Names, PullManifest, Begin
  <2>2. path \in Roots
    BY DEF Roots
  <2>3. path \in Keys /\ IsManifest(path) /\ path \in Paths
    BY <2>2, RootIsManifest DEF Paths
  <2>4. k # Nowhere => k \in Keys /\ IsManifest(k)
    BY <1>1 DEF DockerInv, ManifestsApart
  <2>5. \/ cache[path] # Nowhere /\ Found(c, x, path, cache[path])
        \/ k # Nowhere /\ cache[k] # Nowhere /\ Found(c, x, k, cache[k])
        \/ Fetching(c, x, path)
    BY <1>5 DEF PullManifest
  <2>6. /\ cache[path] \in Bytes \union {Nowhere}
        /\ k # Nowhere => cache[k] \in Bytes \union {Nowhere}
    BY <1>1, <2>3, <2>4
  <2> HIDE DEF path, k
  <2> QED
    BY <1>2, <1>3, <2>1, <2>2, <2>3, <2>4, <2>5, <2>6
<1> QED
  BY <1>4, <1>5 DEF Pull

LEMMA FetchedRecord ==
    ASSUME NEW x \in Serving, NEW b \in Bytes, NEW d
    PROVE  [x EXCEPT !.pc = "decide", !.bytes = b, !.digest = d] =
             [pc |-> "decide", want |-> x.want, key |-> x.key, bytes |-> b,
              digest |-> d, got |-> x.got]
<1> DEFINE r1 == [x EXCEPT !.pc = "decide"]
           r2 == [r1 EXCEPT !.bytes = b]
           r3 == [r2 EXCEPT !.digest = d]
<1>1. [x EXCEPT !.pc = "decide", !.bytes = b, !.digest = d] = r3
  OBVIOUS
<1>2. r1 = [pc |-> "decide", want |-> x.want, key |-> x.key, bytes |-> x.bytes,
            digest |-> x.digest, got |-> x.got]
  BY DEF Serving
<1> HIDE DEF r1
<1>3. r2 = [pc |-> "decide", want |-> x.want, key |-> x.key, bytes |-> b,
            digest |-> x.digest, got |-> x.got]
  BY <1>2
<1> HIDE DEF r2
<1>4. r3 = [pc |-> "decide", want |-> x.want, key |-> x.key, bytes |-> b,
            digest |-> d, got |-> x.got]
  BY <1>3
<1> QED
  BY <1>1, <1>4

(* A pull that ends, perhaps after it has written to the cache.            *)
LEMMA FinishKeeps ==
    ASSUME DockerInv, NEW c \in Clients,
           NEW got \in Bytes \union {Nowhere, "error", "pending"}, Finish(c, got),
           UNCHANGED <<row, order, indexes, job>>,
           cache' \in [Keys -> Bytes \union {Nowhere}]
    PROVE  DockerInv'
<1>1. client' = [client EXCEPT ![c] = [NoPull EXCEPT !.got = got]]
  BY DEF Finish
<1>2. /\ UNCHANGED <<row, order, digestIndex, job>>
      /\ manifestIndex' \in [Manifests -> Keys \union {Nowhere}] /\ ManifestsApart'
  BY DEF indexes, DockerInv, DockerTypeOK, ManifestsApart
<1> QED
  BY <1>1, <1>2, IdleIsOK, OnlyClientMoves

LEMMA FetchKeeps ==
    ASSUME DockerInv, NEW c \in Clients, Fetch(c)
    PROVE  DockerInv'
<1> DEFINE x == client[c]
<1>1. PICK named \in Named(x.want), b \in Bytes :
        /\ client' = [client EXCEPT ![c].pc = "decide", ![c].bytes = b,
                                    ![c].digest = named]
        /\ manifestIndex' =
             IF named \in Manifests /\ manifestIndex[named] = Nowhere
             THEN [manifestIndex EXCEPT ![named] = x.key] ELSE manifestIndex
  BY DEF Fetch
<1>2. /\ x \in Serving /\ x.pc = "fetch" /\ PullOK(x, digestIndex)
      /\ UNCHANGED <<row, order, cache, digestIndex, job>>
      /\ client \in [Clients -> Serving]
      /\ manifestIndex \in [Manifests -> Keys \union {Nowhere}]
  BY DEF Fetch, DockerInv, DockerTypeOK, PullIsIndexed, storage
<1>3. x.want \in Names /\ (x.want \notin Layers => x.key \in Roots)
  BY <1>2 DEF PullOK
<1> DEFINE new == [x EXCEPT !.pc = "decide", !.bytes = b, !.digest = named]
<1>4. client' = [client EXCEPT ![c] = new]
  BY <1>1, <1>2
<1>5. new = [pc |-> "decide", want |-> x.want, key |-> x.key, bytes |-> b,
            digest |-> named, got |-> x.got]
  BY <1>2, FetchedRecord
<1>6. new \in Serving /\ PullOK(new, digestIndex)
  <2>1. x.key \in Paths \union {Nowhere} /\ x.want \in Names \union {Nowhere}
        /\ x.got \in Bytes \union {Nowhere, "error", "pending"}
    BY <1>2 DEF Serving
  <2>2. named \in Bytes
    BY <1>3, NamedIsKnown DEF Bytes, Names
  <2> HIDE DEF x, new
  <2> QED
    BY <1>2, <1>5, <2>1, <2>2 DEF Serving, PullOK
<1>7. named \in Manifests => x.key \in Keys /\ IsManifest(x.key)
  BY <1>3, NamedIsKnown, RootIsManifest
<1>8. /\ manifestIndex' \in [Manifests -> Keys \union {Nowhere}]
      /\ ManifestsApart'
  <2>1. manifestIndex' \in [Manifests -> Keys \union {Nowhere}]
    BY <1>1, <1>2, <1>7
  <2>2. ASSUME NEW m \in Manifests, manifestIndex'[m] # Nowhere
        PROVE  IsManifest(manifestIndex'[m])
    <3>1. manifestIndex'[m] = manifestIndex[m] \/ (named \in Manifests /\ manifestIndex'[m] = x.key)
      BY <1>1, <1>2
    <3> QED
      BY <1>7, <2>2, <3>1 DEF DockerInv, ManifestsApart
  <2> QED
    BY <2>1, <2>2 DEF ManifestsApart
<1> HIDE DEF new, x
<1>9. cache' \in [Keys -> Bytes \union {Nowhere}]
  BY <1>2 DEF DockerInv, DockerTypeOK
<1> QED
  BY <1>2, <1>4, <1>6, <1>8, <1>9, OnlyClientMoves

(* A row is filed, and its parts are prefetched.                           *)
LEMMA FiledKeeps ==
    ASSUME DockerInv, NEW c \in Clients, AtDecision(c), client[c].key \in Keys,
           Enqueue(client[c].key, client[c].bytes),
           NEW got \in Bytes \union {Nowhere, "error", "pending"}, Finish(c, got),
           \/ UNCHANGED job
           \/ job' = Launched(job, client[c].key, client[c].bytes),
           cache' \in [Keys -> Bytes \union {Nowhere}],
           UNCHANGED indexes
    PROVE  DockerInv'
<1> DEFINE k == client[c].key
           b == client[c].bytes
<1>1. k \in Keys /\ b \in Bytes \union {Nowhere} /\ PullOK(client[c], digestIndex)
  BY DEF DockerInv, DockerTypeOK, Serving, PullIsIndexed
<1>2. ~ IsManifest(k) => digestIndex[Last(k)] # Nowhere
  BY <1>1 DEF PullOK, AtDecision
<1> HIDE DEF k, b
<1>3. Enqueue(k, b)
  BY DEF k, b
<1>4. /\ row' \in [Keys -> Row] /\ order' \in Seq(Keys) /\ OrderIsRows'
      /\ RowsStay /\ row'[k].status # "absent"
      /\ \A j \in Keys \ {k} : row'[j] = row[j]
  BY <1>1, <1>3, EnqueueKeeps
<1>5. /\ job' \in [Keys -> Job]
      /\ \A j \in Keys : job'[j].pc = "index" <=> job[j].pc = "index"
  BY LaunchedKeeps DEF DockerInv, DockerTypeOK
<1>6. UNCHANGED digestIndex /\ UNCHANGED manifestIndex
  BY DEF indexes
<1>7. client' \in [Clients -> Serving] /\ PullIsIndexed'
  BY <1>6, IdleIsOK, ClientMoves DEF Finish
<1>8. DockerTypeOK'
  BY <1>4, <1>5, <1>6, <1>7 DEF DockerInv, DockerTypeOK
<1>9. ManifestsApart'
  BY <1>6 DEF DockerInv, ManifestsApart
<1>10. \A j \in Keys : ~ IsManifest(j) /\ row'[j].status # "absent" /\ job'[j].pc # "index" =>
          \/ row[j].status # "absent" /\ job[j].pc # "index"
          \/ digestIndex'[Last(j)] # Nowhere
  BY <1>2, <1>4, <1>5, <1>6
<1>11. \A j \in Keys : job'[j].pc = "index" => job[j].pc = "index"
  BY <1>5
<1> QED
  BY <1>4, <1>6, <1>7, <1>8, <1>9, <1>10, <1>11, PartsKeep

LEMMA ServeKeeps ==
    ASSUME DockerInv, NEW c \in Clients, Serve(c)
    PROVE  DockerInv'
<1> DEFINE k == client[c].key
           b == client[c].bytes
<1>1. /\ b \in Bytes \union {Nowhere}
      /\ cache \in [Keys -> Bytes \union {Nowhere}]
      /\ k \in Keys => cache[k] \in Bytes \union {Nowhere}
      /\ k \in Keys => [cache EXCEPT ![k] = b] \in [Keys -> Bytes \union {Nowhere}]
  BY DEF DockerInv, DockerTypeOK, Serving
<1>2. CASE Fetch(c)
  BY <1>2, FetchKeeps
<1>3. CASE FetchFails(c) \/ ServeDirect(c) \/ ServePending(c)
  <2>1. PICK got \in {"error", "pending", b} : Finish(c, got)
    BY <1>3 DEF FetchFails, ServeDirect, ServePending
  <2>2. UNCHANGED <<row, order, cache, indexes, job>>
    BY <1>3 DEF FetchFails, ServeDirect, ServePending, storage
  <2> HIDE DEF b
  <2> QED
    BY <1>1, <2>1, <2>2, FinishKeeps
<1>4. CASE ServeApproved(c)
  <2>1. PICK got \in {"error", b, cache[k]} : Finish(c, got)
    BY <1>4 DEF ServeApproved
  <2>2. /\ UNCHANGED <<row, order, indexes, job>> /\ k \in Keys
        /\ cache' = cache \/ cache' = [cache EXCEPT ![k] = b]
    BY <1>4 DEF ServeApproved
  <2>3. cache' \in [Keys -> Bytes \union {Nowhere}]
    BY <1>1, <2>2
  <2> HIDE DEF b, k
  <2> QED
    BY <1>1, <2>1, <2>2, <2>3, FinishKeeps
<1>5. CASE FirstPass(c)
  <2>1. /\ AtDecision(c) /\ k \in Keys /\ UNCHANGED indexes
        /\ cache' = cache \/ cache' = [cache EXCEPT ![k] = b]
    BY <1>5 DEF FirstPass, storage
  <2>2. cache' \in [Keys -> Bytes \union {Nowhere}]
    BY <1>1, <2>1
  <2>3. \/ \E got \in {"error", "pending"} :
             Finish(c, got) /\ UNCHANGED <<row, order, job>>
        \/ /\ Enqueue(k, b)
           /\ \E got \in {b, "pending"} : Finish(c, got)
           /\ UNCHANGED job \/ job' = Launched(job, k, b)
    BY <1>5 DEF FirstPass, storage
  <2>4. CASE \E got \in {"error", "pending"} : Finish(c, got) /\ UNCHANGED <<row, order, job>>
    BY <2>1, <2>2, <2>4, FinishKeeps
  <2>5. CASE /\ Enqueue(k, b)
             /\ \E got \in {b, "pending"} : Finish(c, got)
             /\ UNCHANGED job \/ job' = Launched(job, k, b)
    BY <1>1, <2>1, <2>2, <2>5, FiledKeeps
  <2> QED
    BY <2>3, <2>4, <2>5
<1> QED
  BY <1>2, <1>3, <1>4, <1>5 DEF Serve

-----------------------------------------------------------------------------
(* The prefetch.                                                           *)

(* A key is registered once its row is there.                              *)
LEMMA IndexedKeeps ==
    ASSUME DockerInv, NEW k \in Keys, row[k].status # "absent", Indexed(k)
    PROVE  /\ digestIndex' \in [Layers -> Keys \union {Nowhere}]
           /\ manifestIndex' \in [Manifests -> Keys \union {Nowhere}]
           /\ ManifestsApart'
           /\ ~ IsManifest(k) => digestIndex'[Last(k)] = k
           /\ \A y \in Layers : \/ digestIndex'[y] = digestIndex[y]
                                \/ digestIndex'[y] = k /\ Last(k) = y
<1>1. /\ digestIndex \in [Layers -> Keys \union {Nowhere}]
      /\ manifestIndex \in [Manifests -> Keys \union {Nowhere}]
  BY DEF DockerInv, DockerTypeOK
<1>2. CASE IsManifest(k)
  <2>1. /\ manifestIndex' = [manifestIndex EXCEPT ![Last(k)] = k]
        /\ UNCHANGED digestIndex
    BY <1>2 DEF Indexed
  <2>2. ManifestsApart'
    BY <1>1, <1>2, <2>1 DEF DockerInv, ManifestsApart
  <2> QED
    BY <1>1, <1>2, <2>1, <2>2
<1>3. CASE ~ IsManifest(k)
  <2>1. /\ digestIndex' = [digestIndex EXCEPT ![Last(k)] = k]
        /\ UNCHANGED manifestIndex
    BY <1>3 DEF Indexed
  <2>2. Last(k) \in Layers
    BY <1>3 DEF IsManifest
  <2>3. ManifestsApart'
    BY <2>1 DEF DockerInv, ManifestsApart
  <2> QED
    BY <1>1, <2>1, <2>2, <2>3
<1> QED
  BY <1>2, <1>3

(* The prefetch of a key that has its row registers it and ends.           *)
LEMMA RegisteredKeeps ==
    ASSUME DockerInv, NEW k \in Keys, row[k].status # "absent", Indexed(k),
           job' \in [Keys -> Job],
           \A j \in Keys : job'[j].pc = "index" => j # k /\ job[j].pc = "index",
           \A j \in Keys \ {k} : job[j].pc = "index" => job'[j].pc = "index",
           UNCHANGED <<storage, client>>
    PROVE  DockerInv'
<1>1. /\ digestIndex' \in [Layers -> Keys \union {Nowhere}]
      /\ manifestIndex' \in [Manifests -> Keys \union {Nowhere}]
      /\ ManifestsApart'
      /\ ~ IsManifest(k) => digestIndex'[Last(k)] = k
      /\ \A y \in Layers : \/ digestIndex'[y] = digestIndex[y]
                           \/ digestIndex'[y] = k /\ Last(k) = y
  BY IndexedKeeps
<1>2. k # Nowhere
  BY DockerAssumption
<1>3. UNCHANGED <<row, order, cache, client>>
  BY DEF storage
<1>4. DockerTypeOK'
  BY <1>1, <1>3 DEF DockerInv, DockerTypeOK
<1>5. OrderIsRows' /\ RowsStay
  BY <1>3 DEF DockerInv, OrderIsRows, Has, RowsStay
<1>6. \A y \in Layers : digestIndex[y] # Nowhere => digestIndex'[y] # Nowhere
  BY <1>1, <1>2
<1>7. PullIsIndexed'
  BY <1>3, <1>6, PullsStay DEF PullIsIndexed
<1>8. \A y \in Layers :
        \/ digestIndex'[y] = digestIndex[y]
        \/ /\ digestIndex'[y] \in Keys /\ Last(digestIndex'[y]) = y
           /\ row'[digestIndex'[y]].status # "absent"
  BY <1>1, <1>3
<1>9. \A j \in Keys : ~ IsManifest(j) /\ row'[j].status # "absent" /\ job'[j].pc # "index" =>
         \/ row[j].status # "absent" /\ job[j].pc # "index"
         \/ digestIndex'[Last(j)] # Nowhere
  BY <1>1, <1>2, <1>3
<1>10. \A j \in Keys : job'[j].pc = "index" => job[j].pc = "index"
  OBVIOUS
<1> QED
  BY <1>1, <1>4, <1>5, <1>7, <1>8, <1>9, <1>10, PartsKeep

(* A prefetch goes on without touching rows or indexes.                    *)
LEMMA OnlyJobMoves ==
    ASSUME DockerInv, NEW k \in Keys, NEW new \in Job, job' = [job EXCEPT ![k] = new],
           job[k].pc # "index", new.pc # "index",
           cache' \in [Keys -> Bytes \union {Nowhere}],
           UNCHANGED <<row, order, indexes, client>>
    PROVE  DockerInv'
<1>1. UNCHANGED <<row, order, digestIndex, manifestIndex, client>>
  BY DEF indexes
<1>2. /\ job' \in [Keys -> Job]
      /\ \A j \in Keys : job'[j].pc = "index" <=> job[j].pc = "index"
  BY DEF DockerInv, DockerTypeOK
<1>3. DockerTypeOK'
  BY <1>1, <1>2 DEF DockerInv, DockerTypeOK
<1>4. OrderIsRows' /\ RowsStay /\ ManifestsApart' /\ PullIsIndexed'
  BY <1>1 DEF DockerInv, OrderIsRows, Has, RowsStay, ManifestsApart, PullIsIndexed
<1>5. \A j \in Keys : ~ IsManifest(j) /\ row'[j].status # "absent" /\ job'[j].pc # "index" =>
         \/ row[j].status # "absent" /\ job[j].pc # "index"
         \/ digestIndex'[Last(j)] # Nowhere
  BY <1>1, <1>2
<1>6. \A j \in Keys : job'[j].pc = "index" => job[j].pc = "index"
  BY <1>2
<1> QED
  BY <1>1, <1>3, <1>4, <1>5, <1>6, PartsKeep

LEMMA PrefetchKeeps ==
    ASSUME DockerInv, NEW k \in Keys, Prefetch(k)
    PROVE  DockerInv'
<1>1. /\ job \in [Keys -> Job] /\ job[k] \in Job
      /\ cache \in [Keys -> Bytes \union {Nowhere}]
      /\ NoJob \in Job /\ NoJob.pc = "none"
  BY DEF DockerInv, DockerTypeOK, Job, NoJob
<1>2. CASE PrefetchCheck(k)
  <2>1. job[k].pc = "check" /\ UNCHANGED <<storage, client>>
    BY <1>2 DEF PrefetchCheck
  <2>2. CASE Live(k)
    <3>1. Indexed(k) /\ job' = [job EXCEPT ![k] = NoJob] /\ row[k].status # "absent"
      BY <1>2, <2>2 DEF PrefetchCheck, Live
    <3>2. /\ job' \in [Keys -> Job] /\ job'[k].pc = "none"
          /\ \A j \in Keys \ {k} : job'[j] = job[j]
      BY <1>1, <3>1
    <3> QED
      BY <2>1, <3>1, <3>2, RegisteredKeeps
  <2>3. CASE ~ Live(k)
    <3> DEFINE new == [job[k] EXCEPT !.pc = "fetch"]
    <3>1. /\ job' = [job EXCEPT ![k] = new] /\ UNCHANGED indexes
          /\ new \in Job /\ new.pc = "fetch"
      BY <1>1, <1>2, <2>3 DEF PrefetchCheck, Job
    <3>2. UNCHANGED <<row, order, cache, indexes, client>>
      BY <2>1, <3>1 DEF storage
    <3> HIDE DEF new
    <3> QED
      BY <1>1, <2>1, <3>1, <3>2, OnlyJobMoves
  <2> QED
    BY <2>2, <2>3
<1>3. CASE PrefetchFetch(k)
  <2>1. PICK b \in {Last(k), Wrong} :
          /\ cache' = [cache EXCEPT ![k] = b]
          /\ job' = [job EXCEPT ![k] = [pc |-> "enqueue", bytes |-> b]]
          /\ Answers(Last(k), b)
    BY <1>3 DEF PrefetchFetch
  <2>2. b \in Bytes
    BY <2>1, KeyShape, NamedIsKnown DEF Answers, Named, Bytes, Names
  <2>3. /\ [pc |-> "enqueue", bytes |-> b] \in Job
        /\ cache' \in [Keys -> Bytes \union {Nowhere}]
    BY <1>1, <2>1, <2>2 DEF Job
  <2>4. job[k].pc = "fetch" /\ UNCHANGED <<row, order, indexes, client>>
    BY <1>3 DEF PrefetchFetch
  <2> QED
    BY <2>1, <2>3, <2>4, OnlyJobMoves
<1>4. CASE PrefetchFails(k)
  <2>1. /\ job' = [job EXCEPT ![k] = NoJob] /\ job[k].pc # "index"
        /\ UNCHANGED <<row, order, cache, indexes, client>>
    BY <1>4 DEF PrefetchFails, storage
  <2> QED
    BY <1>1, <2>1, OnlyJobMoves
<1>5. CASE PrefetchEnqueue(k)
  <2> DEFINE new == [job[k] EXCEPT !.pc = "index"]
  <2>1. /\ Enqueue(k, job[k].bytes) /\ job[k].bytes \in Bytes \union {Nowhere}
        /\ job' = [job EXCEPT ![k] = new] /\ new \in Job /\ new.pc = "index"
        /\ UNCHANGED <<cache, digestIndex, manifestIndex, client>>
    BY <1>1, <1>5 DEF PrefetchEnqueue, Job, indexes
  <2> HIDE DEF new
  <2>2. /\ row' \in [Keys -> Row] /\ order' \in Seq(Keys) /\ OrderIsRows'
        /\ RowsStay /\ row'[k].status # "absent"
        /\ \A j \in Keys \ {k} : row'[j] = row[j]
    BY <2>1, EnqueueKeeps
  <2>3. /\ job' \in [Keys -> Job] /\ job'[k].pc = "index"
        /\ \A j \in Keys \ {k} : job'[j] = job[j]
    BY <1>1, <2>1
  <2>4. DockerTypeOK'
    BY <2>1, <2>2, <2>3 DEF DockerInv, DockerTypeOK
  <2>5. ManifestsApart' /\ PullIsIndexed'
    BY <2>1 DEF DockerInv, ManifestsApart, PullIsIndexed
  <2>6. \A j \in Keys : ~ IsManifest(j) /\ row'[j].status # "absent" /\ job'[j].pc # "index" =>
           \/ row[j].status # "absent" /\ job[j].pc # "index"
           \/ digestIndex'[Last(j)] # Nowhere
    BY <2>2, <2>3
  <2>7. \A j \in Keys : job'[j].pc = "index" => job[j].pc = "index" \/ row'[j].status # "absent"
    BY <2>2, <2>3
  <2> QED
    BY <2>1, <2>2, <2>4, <2>5, <2>6, <2>7, PartsKeep
<1>6. CASE PrefetchIndex(k)
  <2> DEFINE ended == [job EXCEPT ![k] = NoJob]
             b == job[k].bytes
  <2>1. /\ job[k].pc = "index" /\ Indexed(k) /\ job' = Launched(ended, k, b)
        /\ UNCHANGED <<storage, client>>
    BY <1>6 DEF PrefetchIndex
  <2>2. row[k].status # "absent"
    BY <2>1 DEF DockerInv, JobHasRow
  <2>3. /\ ended \in [Keys -> Job] /\ ended[k].pc = "none"
        /\ \A j \in Keys \ {k} : ended[j] = job[j]
    BY <1>1
  <2> HIDE DEF ended, b
  <2>4. /\ job' \in [Keys -> Job]
        /\ \A j \in Keys : job'[j].pc = "index" <=> ended[j].pc = "index"
    BY <2>1, <2>3, LaunchedKeeps
  <2> QED
    BY <2>1, <2>2, <2>3, <2>4, RegisteredKeeps
<1> QED
  BY <1>2, <1>3, <1>4, <1>5, <1>6 DEF Prefetch

-----------------------------------------------------------------------------
(* Decisions and restarts.                                                 *)

LEMMA DecideKeeps ==
    ASSUME DockerInv, NEW k \in Keys, NEW status \in {"approved", "rejected", "pending"},
           Decide(k, status)
    PROVE  DockerInv'
<1>1. /\ row[k].status # "absent"
      /\ row' = [c \in Keys |->
           IF c = k \/ (c \in Below[k] /\ row[c].status = "pending")
           THEN [row[c] EXCEPT !.status = status] ELSE row[c]]
      /\ UNCHANGED <<order, cache, digestIndex, manifestIndex, job, client>>
  BY DEF Decide, indexes
<1>2. row \in [Keys -> Row]
  BY DEF DockerInv, DockerTypeOK
<1>3. ASSUME NEW c \in Keys
      PROVE  row'[c] \in Row /\ (row'[c].status = "absent" <=> row[c].status = "absent")
  <2>1. /\ [row[c] EXCEPT !.status = status] \in Row
        /\ [row[c] EXCEPT !.status = status].status = status
    BY <1>2 DEF Row
  <2> QED
    BY <1>1, <1>2, <2>1
<1>4. row' \in [Keys -> Row]
  BY <1>1, <1>3
<1>5. DockerTypeOK'
  BY <1>1, <1>4 DEF DockerInv, DockerTypeOK
<1>6. OrderIsRows' /\ RowsStay
  BY <1>1, <1>3 DEF DockerInv, OrderIsRows, Has, RowsStay
<1>7. ManifestsApart' /\ PullIsIndexed'
  BY <1>1 DEF DockerInv, ManifestsApart, PullIsIndexed
<1>8. \A j \in Keys : ~ IsManifest(j) /\ row'[j].status # "absent" /\ job'[j].pc # "index" =>
         row[j].status # "absent" /\ job[j].pc # "index"
  BY <1>1, <1>3
<1> QED
  BY <1>1, <1>5, <1>6, <1>7, <1>8, PartsKeep

LEMMA RestartKeeps ==
    ASSUME DockerInv, Restart
    PROVE  DockerInv'
<1> DEFINE LayerKeys(y) == {k \in Keys : IsLayerKey(k, y)}
           ManifestKeys(m) == {k \in Keys : NamesManifest(k, m)}
<1>1. /\ digestIndex' = [y \in Layers |-> Oldest(LayerKeys(y))]
      /\ manifestIndex' = [m \in Manifests |-> Oldest(ManifestKeys(m))]
      /\ job' = [k \in Keys |-> NoJob]
      /\ client' = [c \in Clients |-> NoPull]
      /\ UNCHANGED <<row, order, cache>>
  BY DEF Restart, Rebuilt, storage
<1>2. ASSUME NEW y \in Layers
      PROVE  /\ Oldest(LayerKeys(y)) = Nowhere =>
                  \A k \in LayerKeys(y) : row[k].status = "absent"
             /\ Oldest(LayerKeys(y)) # Nowhere =>
                  /\ Oldest(LayerKeys(y)) \in LayerKeys(y)
                  /\ row[Oldest(LayerKeys(y))].status # "absent"
  BY OldestIsThere
<1>3. ASSUME NEW m \in Manifests
      PROVE  Oldest(ManifestKeys(m)) # Nowhere => Oldest(ManifestKeys(m)) \in ManifestKeys(m)
  BY OldestIsThere
<1>4. \A y \in Layers : \A k \in LayerKeys(y) : k \in Keys /\ Last(k) = y
  BY DEF IsLayerKey
<1>5. \A m \in Manifests : \A k \in ManifestKeys(m) : k \in Keys /\ IsManifest(k)
  <2>1. ASSUME NEW m \in Manifests, NEW k \in ManifestKeys(m)
        PROVE  IsManifest(k)
    <3>1. CASE Len(k) > 1 /\ Last(k) = m
      BY <3>1, DockerAssumption DEF IsManifest
    <3>2. CASE Len(k) = 1
      <4>1. k \in Roots
        <5>1. k \in Keys
          BY <2>1 DEF ManifestKeys
        <5>2. k \in Roots \/ Len(k) > 1
          BY <5>1, KeyShape
        <5> QED
          BY <3>2, <5>2
      <4> QED
        BY <4>1, RootIsManifest
    <3> QED
      BY <3>1, <3>2 DEF NamesManifest
  <2> QED
    BY <2>1
<1>6. \A k \in Keys : ~ IsManifest(k) => Last(k) \in Layers /\ k \in LayerKeys(Last(k))
  BY LayerKeyIsLong
<1> HIDE DEF LayerKeys, ManifestKeys
<1>7. /\ digestIndex' \in [Layers -> Keys \union {Nowhere}]
      /\ manifestIndex' \in [Manifests -> Keys \union {Nowhere}]
  BY <1>1, <1>2, <1>3, <1>4, <1>5
<1>8. /\ job' \in [Keys -> Job] /\ \A k \in Keys : job'[k].pc = "none"
      /\ client' \in [Clients -> Serving] /\ \A c \in Clients : client'[c].pc = "idle"
  BY <1>1 DEF NoJob, Job, NoPull, Serving
<1>9. DockerTypeOK' /\ OrderIsRows'
  BY <1>1, <1>7, <1>8 DEF DockerInv, DockerTypeOK, OrderIsRows, Has
<1>10. JobHasRow' /\ PullIsIndexed'
  BY <1>8 DEF JobHasRow, PullIsIndexed, PullOK
<1>11. ManifestsApart'
  BY <1>1, <1>3, <1>5 DEF ManifestsApart
<1>12. IndexedHasRow'
  BY <1>1, <1>2, <1>4 DEF IndexedHasRow
<1>13. RowIsIndexed'
  BY <1>1, <1>2, <1>6 DEF RowIsIndexed, IsManifest
<1> QED
  BY <1>9, <1>10, <1>11, <1>12, <1>13 DEF DockerInv

-----------------------------------------------------------------------------
(* The specification.                                                      *)

LEMMA DockerStarts == DockerInit => DockerInv
<1> SUFFICES ASSUME DockerInit PROVE DockerInv
  OBVIOUS
<1>1. DockerTypeOK
  BY DEF DockerInit, DockerTypeOK, Absent, Row, NoJob, Job, NoPull, Serving
<1>2. \A k \in Keys : ~ IsManifest(k) => Last(k) \in Layers
  BY DEF IsManifest
<1>3. OrderIsRows /\ JobHasRow
  BY DEF DockerInit, Absent, NoJob, OrderIsRows, Has, JobHasRow
<1>4. ManifestsApart /\ PullIsIndexed
  BY DEF DockerInit, NoPull, ManifestsApart, PullIsIndexed, PullOK
<1>5. IndexedHasRow /\ RowIsIndexed
  BY <1>2 DEF DockerInit, Absent, IndexedHasRow, RowIsIndexed
<1> QED
  BY <1>1, <1>3, <1>4, <1>5 DEF DockerInv

LEMMA DockerKeeps == DockerInv /\ [DockerNext]_dockerVars => DockerInv'
<1> SUFFICES ASSUME DockerInv, [DockerNext]_dockerVars PROVE DockerInv'
  OBVIOUS
<1>1. CASE \E c \in Clients : Pull(c) \/ Serve(c)
  BY <1>1, PullKeeps, ServeKeeps
<1>2. CASE \E k \in Keys : Prefetch(k)
  BY <1>2, PrefetchKeeps
<1>3. CASE \E k \in Keys, status \in {"approved", "rejected", "pending"} : Decide(k, status)
  BY <1>3, DecideKeeps
<1>4. CASE Restart
  BY <1>4, RestartKeeps
<1>5. CASE UNCHANGED dockerVars
  <2>1. UNCHANGED <<row, order, cache, digestIndex, manifestIndex, job, client>>
    BY <1>5 DEF dockerVars, storage, indexes
  <2>2. DockerTypeOK' /\ OrderIsRows' /\ JobHasRow' /\ ManifestsApart'
    BY <2>1 DEF DockerInv, DockerTypeOK, OrderIsRows, Has, JobHasRow, ManifestsApart
  <2>3. PullIsIndexed' /\ IndexedHasRow' /\ RowIsIndexed'
    BY <2>1 DEF DockerInv, PullIsIndexed, IndexedHasRow, RowIsIndexed
  <2> QED
    BY <2>2, <2>3 DEF DockerInv
<1> QED
  BY <1>1, <1>2, <1>3, <1>4, <1>5 DEF DockerNext

LEMMA DockerInvHolds == DockerSpec => []DockerInv
  BY DockerStarts, DockerKeeps, PTL DEF DockerSpec

(* Whatever is pulled, prefetched, decided, lost or restarted, the index   *)
(* of layers leads only to keys that have a row in quarantine, and to the  *)
(* row of that layer (driver.go:187-247, 574): a pull is never sent to a   *)
(* key that nobody can decide on.                                          *)
THEOREM IndexLeadsToRows == DockerSpec => []IndexedHasRow
<1>1. DockerInv => IndexedHasRow
  BY DEF DockerInv
<1> QED
  BY <1>1, DockerInvHolds, PTL

(* Whatever is pulled, prefetched, decided, lost or restarted, a layer     *)
(* that has a row is found by its digest, and so never served beside the   *)
(* quarantine, but for the moment in which its prefetch is about to        *)
(* register it (driver.go:561-574).                                        *)
THEOREM RowsAreIndexed == DockerSpec => []RowIsIndexed
<1>1. DockerInv => RowIsIndexed
  BY DEF DockerInv
<1> QED
  BY <1>1, DockerInvHolds, PTL

=============================================================================
