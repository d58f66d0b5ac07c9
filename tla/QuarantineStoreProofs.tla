----------------------- MODULE QuarantineStoreProofs -----------------------
(***************************************************************************)
(* The invariants of QuarantineStore, for every set of keys and processes  *)
(* and every bound.                                                        *)
(***************************************************************************)
EXTENDS QuarantineStore, TLAPS

(* Decisions only name ids that were issued.                               *)
AuditNamesIssued == \A n \in 1 .. Len(audit) : audit[n].id \in 1 .. nextId

(* A process about to insert an approved row found an approved parent, and *)
(* that parent's approval has a recorded source above the key.             *)
InheritanceHasSource ==
    \A p \in Procs : enq[p].pc = "insert" /\ enq[p].status = "approved" =>
        \E a \in Above(enq[p].art.key) : Granted(a)

(* Only rows that no cascade reaches carry the human-review flag.          *)
FlagOnRoots ==
    /\ \A k \in Keys : rows[k].human => k \in RootKeys /\ rows[k].status # "absent"
    /\ \A p \in Procs : enq[p].pc # "idle" /\ enq[p].art.human =>
           LET k == enq[p].art.key IN k \in RootKeys \/ rows[k].status # "absent"

(* No approval recorded for a flagged request is automatic.                *)
FlaggedDecisionsHuman ==
    \A k \in Keys : rows[k].human =>
        \A n \in DecisionsOn(rows[k].id) : audit[n].action = "approved" => audit[n].actor = "admin"

StoreInv ==
    /\ StoreTypeOK
    /\ IdNamesItsRow
    /\ AuditNamesIssued
    /\ InheritanceHasSource
    /\ ApprovalHasSource
    /\ FlagOnRoots
    /\ RootHistoryExplainsStatus
    /\ FlaggedDecisionsHuman

-----------------------------------------------------------------------------
(* Type correctness                                                        *)

LEMMA StoreInitType == StoreInit => StoreTypeOK
  BY BoundAssumption DEF StoreInit, StoreTypeOK, Row, NoRow, Status, Live, Ids, NoId,
     EnqueueState, Idle

(* Approve, Reject and Revoke append one well-formed decision.             *)
LEMMA RecordType ==
  ASSUME StoreTypeOK, NEW k \in Keys, rows[k].status # "absent", IdNamesItsRow,
         NEW action \in {"approved", "rejected", "revoked"}, NEW actor \in Actor,
         Record(k, action, actor)
  PROVE  /\ audit' \in Seq(Decision)
         /\ rows[k].id \in 1 .. nextId
         /\ Len(audit') = Len(audit) + 1
         /\ audit'[Len(audit) + 1] = [id |-> rows[k].id, action |-> action, actor |-> actor]
         /\ \A n \in 1 .. Len(audit) : audit'[n] = audit[n]
<1>1. rows[k].id \in 1 .. nextId /\ rows[k].id \in Ids
  BY BoundAssumption DEF IdNamesItsRow, StoreTypeOK, Ids
<1>2. [id |-> rows[k].id, action |-> action, actor |-> actor] \in Decision
  BY <1>1 DEF Decision
<1>3. audit \in Seq(Decision)
  BY DEF StoreTypeOK
<1> QED
  BY <1>1, <1>2, <1>3 DEF Record

LEMMA DecidedType ==
  ASSUME StoreTypeOK, NEW k \in Keys, NEW s \in Status
  PROVE  Decided(k, s) \in [Keys -> Row]
  BY DEF StoreTypeOK, Decided, Row

-----------------------------------------------------------------------------
(* The steps of Enqueue                                                    *)

LEMMA LookupKeepsInv ==
  ASSUME StoreInv, NEW p \in Procs, NEW art \in Artifact, EnqueueLookup(p, art)
  PROVE  StoreInv'
<1> USE DEF StoreInv, EnqueueLookup
<1>1. art.key \in Keys /\ [pc |-> "parent", art |-> art] \in EnqueueState
  BY DEF Artifact, EnqueueState
<1>2. StoreTypeOK'
  BY <1>1 DEF StoreTypeOK
<1>3. \A q \in Procs : enq'[q] = IF q = p THEN [pc |-> "parent", art |-> art] ELSE enq[q]
  BY DEF StoreTypeOK
<1>4. InheritanceHasSource'
  <2> SUFFICES ASSUME NEW q \in Procs, enq'[q].pc = "insert", enq'[q].status = "approved"
               PROVE  \E a \in Above(enq'[q].art.key) : Granted(a)
    BY DEF InheritanceHasSource, Granted, Above
  <2>1. enq'[q] = enq[q]
    BY <1>3
  <2> QED
    BY <2>1 DEF InheritanceHasSource
<1>5. FlagOnRoots'
  BY <1>3 DEF FlagOnRoots, MayBeFlagged, RootKeys, Above
<1>6. IdNamesItsRow' /\ AuditNamesIssued' /\ ApprovalHasSource'
  BY DEF IdNamesItsRow, AuditNamesIssued, ApprovalHasSource, Granted
<1>7. RootHistoryExplainsStatus' /\ FlaggedDecisionsHuman'
  BY DEF RootHistoryExplainsStatus, HistorySays, IsLastOn, DecisionsOn, FlaggedDecisionsHuman
<1> QED
  BY <1>2, <1>4, <1>5, <1>6, <1>7

(* Inheriting: the parent found approved has a source above the key,       *)
(* because Below is transitive.                                            *)
LEMMA ParentHasSource ==
  ASSUME StoreInv, NEW k \in Keys, HasApprovedParent(k)
  PROVE  \E a \in Above(k) : Granted(a)
<1>1. PICK a \in Above(k) : rows[a].status = "approved"
  BY DEF HasApprovedParent
<1>2. a \in Keys /\ <<k, a>> \in Below
  BY <1>1 DEF Above
<1>3. PICK b \in {a} \union Above(a) : Granted(b)
  BY <1>1, <1>2 DEF StoreInv, ApprovalHasSource
<1>4. b \in Above(k)
  BY <1>2, <1>3, BelowAssumption DEF Above
<1> QED
  BY <1>3, <1>4

LEMMA ParentKeepsInv ==
  ASSUME StoreInv, NEW p \in Procs, EnqueueParent(p)
  PROVE  StoreInv'
<1> DEFINE art == enq[p].art
           status == IF HasApprovedParent(art.key) THEN "approved" ELSE "pending"
           next == [pc |-> "insert", art |-> art, status |-> status]
<1> USE DEF StoreInv, EnqueueParent
<1>1. art \in Artifact /\ art.key \in Keys
  BY DEF StoreTypeOK, EnqueueState, Artifact
<1>2. next \in EnqueueState
  BY <1>1 DEF EnqueueState, Live
<1>3. /\ enq' = [enq EXCEPT ![p] = next]
      /\ \A q \in Procs : enq'[q] = IF q = p THEN next ELSE enq[q]
  BY DEF StoreTypeOK
<1>4. StoreTypeOK'
  BY <1>2, <1>3 DEF StoreTypeOK
<1>5. InheritanceHasSource'
  <2>1. ASSUME next.status = "approved"
        PROVE  \E a \in Above(next.art.key) : Granted(a)
    BY <1>1, <2>1, ParentHasSource
  <2> SUFFICES ASSUME NEW q \in Procs, enq'[q].pc = "insert", enq'[q].status = "approved"
               PROVE  \E a \in Above(enq'[q].art.key) : Granted(a)
    BY DEF InheritanceHasSource, Granted, Above
  <2>2. CASE q = p
    BY <1>3, <2>1, <2>2
  <2>3. CASE q # p
    BY <1>3, <2>3 DEF InheritanceHasSource
  <2> QED
    BY <2>2, <2>3
<1>6. FlagOnRoots'
  <2>1. enq[p].pc # "idle" /\ rows' = rows
    OBVIOUS
  <2>2. \A q \in Procs : enq'[q].pc # "idle" => enq[q].pc # "idle" /\ enq'[q].art = enq[q].art
    BY <1>3, <2>1
  <2> QED
    BY <2>1, <2>2 DEF FlagOnRoots, RootKeys, Above
<1>7. IdNamesItsRow' /\ AuditNamesIssued' /\ ApprovalHasSource'
  BY DEF IdNamesItsRow, AuditNamesIssued, ApprovalHasSource, Granted
<1>8. RootHistoryExplainsStatus' /\ FlaggedDecisionsHuman'
  BY DEF RootHistoryExplainsStatus, HistorySays, IsLastOn, DecisionsOn, FlaggedDecisionsHuman
<1> QED
  BY <1>4, <1>5, <1>6, <1>7, <1>8

(* A root key has no approved parent to inherit from.                      *)
LEMMA RootNeverInherits ==
  ASSUME StoreInv, NEW p \in Procs, enq[p].pc = "insert", enq[p].art.key \in RootKeys
  PROVE  enq[p].status = "pending"
<1>1. enq[p].status \in Live
  BY DEF StoreInv, StoreTypeOK, EnqueueState
<1>2. enq[p].status # "approved"
  BY DEF StoreInv, InheritanceHasSource, RootKeys
<1> QED
  BY <1>1, <1>2 DEF Live

LEMMA InsertKeepsInv ==
  ASSUME StoreInv, NEW p \in Procs, EnqueueInsert(p)
  PROVE  StoreInv'
<1> DEFINE id == nextId + 1
           art == enq[p].art
           key == art.key
           status == enq[p].status
           row == Upsert(rows[key], id, art, status)
<1>0. /\ enq[p].pc = "insert" /\ nextId < MaxId
      /\ rows' = [rows EXCEPT ![key] = row]
      /\ issued' = [i \in DOMAIN issued \union {id} |-> IF i = id THEN art ELSE issued[i]]
      /\ launched' = IF HasHook /\ status = "pending" THEN launched \union {id} ELSE launched
      /\ enq' = [enq EXCEPT ![p] = Idle]
      /\ nextId' = id
      /\ audit' = audit
      /\ id = nextId + 1 /\ art = enq[p].art /\ key = art.key /\ status = enq[p].status
  BY DEF EnqueueInsert
<1>1. art \in Artifact /\ key \in Keys /\ status \in Live /\ art.human \in BOOLEAN
  BY <1>0 DEF StoreInv, StoreTypeOK, EnqueueState, Artifact
<1>2. id \in Ids /\ id \in Nat /\ nextId \in Nat /\ id \notin 1 .. nextId
      /\ 1 .. id = 1 .. nextId \union {id}
  BY <1>0, BoundAssumption DEF StoreInv, StoreTypeOK, Ids
<1>3. row \in Row /\ row.id = id /\ row.status = status
  <2>1. rows[key] \in Row /\ status \in Status /\ art.sha \in Versions
    BY <1>1 DEF StoreInv, StoreTypeOK, Artifact, Status
  <2>2. CASE rows[key].status = "absent"
    BY <1>1, <1>2, <2>1, <2>2 DEF Upsert, Row
  <2>3. CASE rows[key].status # "absent"
    BY <1>1, <1>2, <2>1, <2>3 DEF Upsert, Row
  <2> QED
    BY <2>2, <2>3
<1>4. /\ \A k \in Keys : rows'[k] = IF k = key THEN row ELSE rows[k]
      /\ \A i \in 1 .. nextId : issued'[i] = issued[i]
      /\ issued'[id] = art
      /\ \A q \in Procs : enq'[q] = IF q = p THEN Idle ELSE enq[q]
  BY <1>0, <1>1, <1>2 DEF StoreInv, StoreTypeOK
<1>5. row.human => key \in RootKeys
  BY <1>0, <1>1 DEF StoreInv, FlagOnRoots, Upsert
<1> HIDE DEF id, art, key, status, row
<1>11. StoreTypeOK'
  <2>1. issued' \in [1 .. nextId' -> Artifact]
    BY <1>0, <1>1, <1>2 DEF StoreInv, StoreTypeOK
  <2>2. launched' \subseteq 1 .. nextId'
    BY <1>0, <1>2 DEF StoreInv, StoreTypeOK
  <2>3. enq' \in [Procs -> EnqueueState]
    BY <1>0 DEF StoreInv, StoreTypeOK, EnqueueState, Idle
  <2> QED
    BY <1>0, <1>1, <1>2, <1>3, <2>1, <2>2, <2>3 DEF StoreInv, StoreTypeOK
<1>6. IdNamesItsRow'
  <2> SUFFICES ASSUME NEW k \in Keys, rows'[k].status # "absent"
               PROVE  rows'[k].id \in 1 .. nextId' /\ issued'[rows'[k].id].key = k
    BY DEF IdNamesItsRow
  <2>1. CASE k = key
    BY <1>0, <1>2, <1>3, <1>4, <2>1
  <2>2. CASE k # key
    <3>1. rows'[k] = rows[k] /\ rows[k].id \in 1 .. nextId /\ issued[rows[k].id].key = k
      BY <1>4, <2>2 DEF StoreInv, IdNamesItsRow
    <3> QED
      BY <1>0, <1>2, <1>4, <3>1
  <2> QED
    BY <2>1, <2>2
<1>7. AuditNamesIssued'
  BY <1>0, <1>2 DEF StoreInv, AuditNamesIssued
<1>8. ASSUME NEW k \in Keys, Granted(k) PROVE Granted(k)'
  <2>1. PICK n \in 1 .. Len(audit) : audit[n].action = "approved" /\ issued[audit[n].id].key = k
    BY <1>8 DEF Granted
  <2>2. issued'[audit[n].id] = issued[audit[n].id]
    BY <1>4 DEF StoreInv, AuditNamesIssued
  <2> QED
    BY <1>0, <2>1, <2>2 DEF Granted
<1>9. InheritanceHasSource'
  <2> SUFFICES ASSUME NEW q \in Procs, enq'[q].pc = "insert", enq'[q].status = "approved"
               PROVE  \E a \in Above(enq'[q].art.key) : Granted(a)'
    BY DEF InheritanceHasSource, Above
  <2>1. q # p /\ enq'[q] = enq[q]
    BY <1>4 DEF Idle
  <2>2. PICK a \in Above(enq[q].art.key) : Granted(a)
    BY <2>1 DEF StoreInv, InheritanceHasSource
  <2> QED
    BY <1>8, <2>1, <2>2 DEF Above
<1>10. ApprovalHasSource'
  <2> SUFFICES ASSUME NEW k \in Keys, rows'[k].status = "approved"
               PROVE  \E a \in {k} \union Above(k) : Granted(a)'
    BY DEF ApprovalHasSource, Above
  <2>1. \E a \in {k} \union Above(k) : Granted(a)
    <3>1. CASE k = key
      BY <1>0, <1>3, <1>4, <3>1 DEF StoreInv, InheritanceHasSource
    <3>2. CASE k # key
      BY <1>4, <3>2 DEF StoreInv, ApprovalHasSource
    <3> QED
      BY <3>1, <3>2
  <2> QED
    BY <1>8, <2>1 DEF Above
<1>12. FlagOnRoots'
  <2>1. \A k \in Keys : rows[k].status # "absent" => rows'[k].status # "absent"
    BY <1>1, <1>3, <1>4 DEF Live
  <2>2. \A k \in Keys : rows'[k].human => k \in RootKeys /\ rows'[k].status # "absent"
    BY <1>1, <1>3, <1>4, <1>5 DEF StoreInv, FlagOnRoots, Live
  <2>3. ASSUME NEW q \in Procs, enq'[q].pc # "idle", enq'[q].art.human
        PROVE  enq'[q].art.key \in RootKeys \/ rows'[enq'[q].art.key].status # "absent"
    <3>1. enq'[q] = enq[q]
      BY <1>4, <2>3 DEF Idle
    <3>2. enq[q].art.key \in Keys
      BY <2>3, <3>1 DEF StoreInv, StoreTypeOK, EnqueueState, Artifact
    <3> QED
      BY <2>1, <2>3, <3>1, <3>2 DEF StoreInv, FlagOnRoots
  <2> QED
    BY <2>2, <2>3 DEF FlagOnRoots, RootKeys, Above
<1>13. DecisionsOn(id) = {} /\ \A i \in Ids : DecisionsOn(i)' = DecisionsOn(i)
  BY <1>0, <1>2 DEF StoreInv, AuditNamesIssued, DecisionsOn
<1>14. RootHistoryExplainsStatus'
  <2> SUFFICES ASSUME NEW k \in RootKeys, rows'[k].status # "absent"
               PROVE  HistorySays(rows[k].id, rows[k].status)'
    BY DEF RootHistoryExplainsStatus, RootKeys, Above
  <2>0. k \in Keys
    BY DEF RootKeys
  <2>1. CASE k = key
    <3>1. rows'[k].id = id /\ rows'[k].status = "pending"
      BY <1>0, <1>3, <1>4, <2>0, <2>1, RootNeverInherits
    <3> QED
      BY <1>0, <1>13, <3>1 DEF HistorySays, DecisionsOn
  <2>2. CASE k # key
    <3>1. rows'[k] = rows[k] /\ HistorySays(rows[k].id, rows[k].status)
      BY <1>4, <2>0, <2>2 DEF StoreInv, RootHistoryExplainsStatus
    <3> QED
      BY <1>0, <3>1 DEF HistorySays, IsLastOn, DecisionsOn
  <2> QED
    BY <2>1, <2>2
<1>15. FlaggedDecisionsHuman'
  <2> SUFFICES ASSUME NEW k \in Keys, rows'[k].human,
                      NEW n \in DecisionsOn(rows[k].id)', audit'[n].action = "approved"
               PROVE  audit'[n].actor = "admin"
    BY DEF FlaggedDecisionsHuman
  <2>1. CASE k = key
    BY <1>0, <1>3, <1>4, <1>13, <2>1 DEF DecisionsOn
  <2>2. CASE k # key
    BY <1>0, <1>4, <2>2 DEF StoreInv, FlaggedDecisionsHuman, DecisionsOn
  <2> QED
    BY <2>1, <2>2
<1> QED
  BY <1>11, <1>6, <1>7, <1>9, <1>10, <1>12, <1>14, <1>15 DEF StoreInv

-----------------------------------------------------------------------------
(* The decisions: Approve, Reject and Revoke differ in what they cascade   *)
(* to, and one lemma covers them.                                          *)

LEMMA DecisionKeepsInv ==
  ASSUME StoreInv,
         NEW k \in Keys, rows[k].status # "absent",
         NEW action \in {"approved", "rejected", "revoked"}, NEW actor \in Actor,
         Record(k, action, actor),
         action = "approved" /\ rows[k].human => actor = "admin",
         NEW s, s = IF action = "revoked" THEN "pending" ELSE action,
         rows' \in [Keys -> Row],
         rows'[k] = [rows[k] EXCEPT !.status = s],
         \A c \in Keys : c # k =>
             \/ rows'[c] = rows[c]
             \/ /\ <<c, k>> \in Below
                /\ rows[c].status # "absent"
                /\ rows'[c] = [rows[c] EXCEPT !.status = s],
         UNCHANGED <<issued, nextId, enq, launched>>
  PROVE  StoreInv'
<1>0. PICK last, i : last = Len(audit) + 1 /\ i = rows[k].id
  OBVIOUS
<1>1. /\ audit' \in Seq(Decision)
      /\ i \in 1 .. nextId
      /\ Len(audit') = last
      /\ audit'[last] = [id |-> i, action |-> action, actor |-> actor]
      /\ \A n \in 1 .. Len(audit) : audit'[n] = audit[n]
  BY <1>0, RecordType DEF StoreInv
<1>2. /\ Len(audit) \in Nat
      /\ 1 .. last = 1 .. Len(audit) \union {last}
      /\ last \notin 1 .. Len(audit)
      /\ last \in Nat
  BY <1>0 DEF StoreInv, StoreTypeOK
<1>3. \A c \in Keys : rows[c] \in Row
  BY DEF StoreInv, StoreTypeOK
<1>4. /\ \A c \in Keys : /\ rows'[c].id = rows[c].id
                         /\ rows'[c].human = rows[c].human
                         /\ rows'[c].status # rows[c].status =>
                               /\ rows'[c].status = s
                               /\ rows[c].status # "absent"
                               /\ c = k \/ <<c, k>> \in Below
      /\ rows'[k].status = s
  BY <1>3 DEF Row
<1>5. s # "absent"
  OBVIOUS
<1>6. issued' = issued /\ nextId' = nextId /\ enq' = enq /\ launched' = launched
  OBVIOUS
<1>7. StoreTypeOK'
  BY <1>1, <1>6 DEF StoreInv, StoreTypeOK
<1>8. IdNamesItsRow'
  BY <1>4, <1>6 DEF StoreInv, IdNamesItsRow
<1>9. AuditNamesIssued'
  BY <1>1, <1>2, <1>6 DEF StoreInv, AuditNamesIssued
<1>10. ASSUME NEW c \in Keys, Granted(c) PROVE Granted(c)'
  BY <1>1, <1>2, <1>6, <1>10 DEF Granted
<1>11. action = "approved" => Granted(k)'
  <2> HAVE action = "approved"
  <2>1. last \in 1 .. Len(audit') /\ audit'[last].action = "approved" /\ audit'[last].id = i
    BY <1>1, <1>2
  <2>2. issued'[i].key = k
    BY <1>0, <1>6 DEF StoreInv, IdNamesItsRow
  <2> QED
    BY <2>1, <2>2 DEF Granted
<1>12. InheritanceHasSource'
  <2> SUFFICES ASSUME NEW q \in Procs, enq[q].pc = "insert", enq[q].status = "approved"
               PROVE  \E a \in Above(enq[q].art.key) : Granted(a)'
    BY <1>6 DEF InheritanceHasSource, Above
  <2> QED
    BY <1>10 DEF StoreInv, InheritanceHasSource, Above
<1>13. ApprovalHasSource'
  <2> SUFFICES ASSUME NEW c \in Keys, rows'[c].status = "approved"
               PROVE  \E a \in {c} \union Above(c) : Granted(a)'
    BY DEF ApprovalHasSource, Above
  <2>1. CASE rows[c].status = "approved"
    BY <1>10, <2>1 DEF StoreInv, ApprovalHasSource, Above
  <2>2. CASE rows[c].status # "approved"
    <3>1. s = "approved" /\ k \in {c} \union Above(c)
      BY <1>4, <2>2 DEF Above
    <3> QED
      BY <1>11, <3>1
  <2> QED
    BY <2>1, <2>2
<1>14. FlagOnRoots'
  <2>1. \A c \in Keys : rows[c].status # "absent" => rows'[c].status # "absent"
    BY <1>4, <1>5
  <2>2. \A c \in Keys : rows'[c].human => c \in RootKeys /\ rows'[c].status # "absent"
    BY <1>4, <2>1 DEF StoreInv, FlagOnRoots
  <2>3. ASSUME NEW q \in Procs, enq'[q].pc # "idle", enq'[q].art.human
        PROVE  enq'[q].art.key \in RootKeys \/ rows'[enq'[q].art.key].status # "absent"
    <3>1. enq[q].art.key \in Keys
      BY <1>6, <2>3 DEF StoreInv, StoreTypeOK, EnqueueState, Artifact
    <3> QED
      BY <1>6, <2>1, <2>3, <3>1 DEF StoreInv, FlagOnRoots
  <2> QED
    BY <2>2, <2>3 DEF FlagOnRoots, RootKeys, Above
<1>15. /\ IsLastOn(last, i)'
       /\ \A c \in Keys : rows[c].status # "absent" /\ c # k =>
             /\ rows[c].id # i
             /\ DecisionsOn(rows[c].id)' = DecisionsOn(rows[c].id)
  <2>1. last \in DecisionsOn(i)' /\ \A m \in DecisionsOn(i)' : m <= last
    BY <1>0, <1>1, <1>2 DEF DecisionsOn
  <2>2. \A c \in Keys : rows[c].status # "absent" /\ c # k => rows[c].id # i
    BY <1>0 DEF StoreInv, IdNamesItsRow
  <2>3. ASSUME NEW c \in Keys, rows[c].status # "absent", c # k
        PROVE  DecisionsOn(rows[c].id)' = DecisionsOn(rows[c].id)
    <3>1. \A n \in 1 .. last : audit'[n].id = rows[c].id <=>
                               n \in 1 .. Len(audit) /\ audit[n].id = rows[c].id
      BY <1>1, <1>2, <2>2, <2>3
    <3> QED
      BY <1>1, <1>2, <1>4, <3>1 DEF DecisionsOn
  <2> QED
    BY <2>1, <2>2, <2>3 DEF IsLastOn
<1>16. RootHistoryExplainsStatus'
  <2> SUFFICES ASSUME NEW c \in RootKeys, rows'[c].status # "absent"
               PROVE  HistorySays(rows[c].id, rows[c].status)'
    BY DEF RootHistoryExplainsStatus, RootKeys, Above
  <2>0. c \in Keys /\ rows'[c].id = rows[c].id
    BY <1>4 DEF RootKeys
  <2>1. CASE c = k
    <3>1. last \in 1 .. Len(audit') /\ IsLastOn(last, i)' /\ audit'[last].action = action
      BY <1>1, <1>2, <1>15
    <3> QED
      BY <1>0, <1>4, <2>0, <2>1, <3>1 DEF HistorySays, IsLastOn, DecisionsOn
  <2>2. CASE c # k
    <3>1. rows'[c].status = rows[c].status /\ rows[c].status # "absent"
      BY <1>4, <2>0, <2>2 DEF RootKeys, Above
    <3>2. HistorySays(rows[c].id, rows[c].status)
      BY <3>1 DEF StoreInv, RootHistoryExplainsStatus
    <3>3. DecisionsOn(rows[c].id)' = DecisionsOn(rows[c].id)
      BY <1>15, <2>0, <2>2, <3>1
    <3> QED
      BY <1>1, <1>2, <2>0, <3>1, <3>2, <3>3 DEF HistorySays, IsLastOn, DecisionsOn
  <2> QED
    BY <2>1, <2>2
<1>17. FlaggedDecisionsHuman'
  <2> SUFFICES ASSUME NEW c \in Keys, rows'[c].human,
                      NEW n \in DecisionsOn(rows[c].id)', audit'[n].action = "approved"
               PROVE  audit'[n].actor = "admin"
    BY DEF FlaggedDecisionsHuman
  <2>0. rows[c].human /\ rows[c].status # "absent" /\ rows'[c].id = rows[c].id
    BY <1>4 DEF StoreInv, FlagOnRoots
  <2>1. CASE c = k
    <3>1. CASE n = last
      BY <1>0, <1>1, <2>0, <2>1, <3>1
    <3>2. CASE n # last
      BY <1>1, <1>2, <2>0, <3>2 DEF StoreInv, FlaggedDecisionsHuman, DecisionsOn
    <3> QED
      BY <3>1, <3>2
  <2>2. CASE c # k
    BY <1>1, <1>2, <1>15, <2>0, <2>2 DEF StoreInv, FlaggedDecisionsHuman, DecisionsOn
  <2> QED
    BY <2>1, <2>2
<1> QED
  BY <1>7, <1>8, <1>9, <1>12, <1>13, <1>14, <1>16, <1>17 DEF StoreInv

LEMMA ApproveKeepsInv ==
  ASSUME StoreInv, NEW k \in Keys, NEW actor \in Actor, Approve(k, actor)
  PROVE  StoreInv'
<1>1. rows' = Decided(k, "approved") /\ rows' \in [Keys -> Row]
  BY DecidedType DEF Approve, StoreInv, Status, Live
<1>2. \A c \in Keys : c # k => \/ rows'[c] = rows[c]
                              \/ /\ <<c, k>> \in Below
                                 /\ rows[c].status # "absent"
                                 /\ rows'[c] = [rows[c] EXCEPT !.status = "approved"]
  BY <1>1 DEF Decided
<1>3. rows'[k] = [rows[k] EXCEPT !.status = "approved"]
  BY <1>1 DEF Decided
<1> QED
  BY <1>1, <1>2, <1>3, DecisionKeepsInv DEF Approve, Actor

LEMMA RejectKeepsInv ==
  ASSUME StoreInv, NEW k \in Keys, NEW actor \in Actor, Reject(k, actor)
  PROVE  StoreInv'
<1>1. rows' = Decided(k, "rejected") /\ rows' \in [Keys -> Row]
  BY DecidedType DEF Reject, StoreInv, Status, Live
<1>2. \A c \in Keys : c # k => \/ rows'[c] = rows[c]
                              \/ /\ <<c, k>> \in Below
                                 /\ rows[c].status # "absent"
                                 /\ rows'[c] = [rows[c] EXCEPT !.status = "rejected"]
  BY <1>1 DEF Decided
<1>3. rows'[k] = [rows[k] EXCEPT !.status = "rejected"]
  BY <1>1 DEF Decided
<1> QED
  BY <1>1, <1>2, <1>3, DecisionKeepsInv DEF Reject

LEMMA RevokeKeepsInv ==
  ASSUME StoreInv, NEW k \in Keys, NEW actor \in Actor, Revoke(k, actor)
  PROVE  StoreInv'
<1>1. rows' \in [Keys -> Row] /\ rows'[k] = [rows[k] EXCEPT !.status = "pending"]
  BY DEF Revoke, StoreInv, StoreTypeOK, Row, Status, Live
<1>2. \A c \in Keys : c # k => rows'[c] = rows[c]
  BY DEF Revoke, StoreInv, StoreTypeOK
<1> QED
  BY <1>1, <1>2, DecisionKeepsInv DEF Revoke

-----------------------------------------------------------------------------
(* The invariant                                                           *)

LEMMA InitHasInv == StoreInit => StoreInv
<1> SUFFICES ASSUME StoreInit PROVE StoreInv
  OBVIOUS
<1>1. StoreTypeOK
  BY StoreInitType
<1>2. /\ \A k \in Keys : rows[k] = NoRow
      /\ \A p \in Procs : enq[p] = Idle
      /\ audit = <<>>
  BY DEF StoreInit
<1> QED
  BY <1>1, <1>2 DEF StoreInv, IdNamesItsRow, AuditNamesIssued, InheritanceHasSource,
     ApprovalHasSource, FlagOnRoots, RootHistoryExplainsStatus, RootKeys,
     FlaggedDecisionsHuman, NoRow, Idle

(* Steps that change neither the tables nor what a process is about to     *)
(* insert.                                                                 *)
LEMMA QuietKeepsInv ==
  ASSUME StoreInv, UNCHANGED <<rows, audit, issued, nextId>>,
         launched' \subseteq launched,
         enq' = enq \/ enq' = [p \in Procs |-> Idle]
  PROVE  StoreInv'
<1>1. \A p \in Procs : enq'[p] = enq[p] \/ enq'[p] = Idle
  OBVIOUS
<1>2. StoreTypeOK'
  BY DEF StoreInv, StoreTypeOK, EnqueueState, Idle
<1>3. IdNamesItsRow' /\ AuditNamesIssued' /\ ApprovalHasSource'
  BY DEF StoreInv, IdNamesItsRow, AuditNamesIssued, ApprovalHasSource, Granted, Above
<1>6. FlagOnRoots'
  BY <1>1 DEF StoreInv, FlagOnRoots, Idle, RootKeys, Above
<1>4. InheritanceHasSource'
  <2> SUFFICES ASSUME NEW q \in Procs, enq'[q].pc = "insert", enq'[q].status = "approved"
               PROVE  \E a \in Above(enq'[q].art.key) : Granted(a)
    BY DEF InheritanceHasSource, Granted, Above
  <2>1. enq'[q] = enq[q]
    BY <1>1 DEF Idle
  <2> QED
    BY <2>1 DEF StoreInv, InheritanceHasSource
<1>5. RootHistoryExplainsStatus' /\ FlaggedDecisionsHuman'
  BY DEF StoreInv, RootHistoryExplainsStatus, HistorySays, IsLastOn, DecisionsOn,
     FlaggedDecisionsHuman, RootKeys, Above
<1> QED
  BY <1>2, <1>3, <1>4, <1>5, <1>6 DEF StoreInv

LEMMA StepKeepsInv == StoreInv /\ [StoreNext]_storeVars => StoreInv'
<1> SUFFICES ASSUME StoreInv, [StoreNext]_storeVars PROVE StoreInv'
  OBVIOUS
<1>1. ASSUME NEW p \in Procs, Enqueue(p) PROVE StoreInv'
  <2>1. ASSUME NEW k \in Keys, EnqueueExisting(p, k) PROVE StoreInv'
    BY <2>1, QuietKeepsInv DEF EnqueueExisting, storeVars
  <2> QED
    BY <1>1, <2>1, LookupKeepsInv, ParentKeepsInv, InsertKeepsInv DEF Enqueue
<1>2. ASSUME NEW k \in Keys, Decide(k) PROVE StoreInv'
  BY <1>2, ApproveKeepsInv, RejectKeepsInv, RevokeKeepsInv DEF Decide, Actor
<1>3. ASSUME NEW id \in launched, RunHook(id) PROVE StoreInv'
  BY <1>3, QuietKeepsInv DEF RunHook
<1>4. CASE Crash
  BY <1>4, QuietKeepsInv DEF Crash
<1>5. CASE UNCHANGED storeVars
  BY <1>5, QuietKeepsInv DEF storeVars
<1> QED
  BY <1>1, <1>2, <1>3, <1>4, <1>5 DEF StoreNext

(* The tables keep their shape: the status of a request is one of three,   *)
(* an id is issued before it is used, and a goroutine inside Enqueue holds *)
(* an artifact.                                                            *)
THEOREM StoreTypeCorrect == StoreSpec => []StoreTypeOK
<1>1. StoreInv => StoreTypeOK
  BY DEF StoreInv
<1> QED
  BY <1>1, InitHasInv, StepKeepsInv, PTL DEF StoreSpec

(* An id names one request, however many upserts raced on its key.         *)
THEOREM IdsNameTheirRows == StoreSpec => []IdNamesItsRow
<1>1. StoreInv => IdNamesItsRow
  BY DEF StoreInv
<1> QED
  BY <1>1, InitHasInv, StepKeepsInv, PTL DEF StoreSpec

(* Every approved artifact has a recorded approval, its own or one of an   *)
(* artifact it belongs to.                                                 *)
THEOREM ApprovalsHaveSources == StoreSpec => []ApprovalHasSource
<1>1. StoreInv => ApprovalHasSource
  BY DEF StoreInv
<1> QED
  BY <1>1, InitHasInv, StepKeepsInv, PTL DEF StoreSpec

(* The history of an artifact that belongs to no other explains its status.*)
THEOREM RootHistoriesExplain == StoreSpec => []RootHistoryExplainsStatus
<1>1. StoreInv => RootHistoryExplainsStatus
  BY DEF StoreInv
<1> QED
  BY <1>1, InitHasInv, StepKeepsInv, PTL DEF StoreSpec

(* A flagged request is approved by a human or not at all.                 *)
THEOREM HumanGateHolds == StoreSpec => []HumanGate
<1>1. StoreInv => HumanGate
  <2> SUFFICES ASSUME StoreInv, NEW k \in Keys, rows[k].human, rows[k].status = "approved"
               PROVE  \E n \in 1 .. Len(audit) : /\ IsLastOn(n, rows[k].id)
                                                 /\ audit[n].action = "approved"
                                                 /\ audit[n].actor = "admin"
    BY DEF HumanGate
  <2>1. k \in RootKeys
    BY DEF StoreInv, FlagOnRoots
  <2>2. PICK n \in 1 .. Len(audit) : /\ IsLastOn(n, rows[k].id)
                                    /\ audit[n].action = "approved"
    BY <2>1 DEF StoreInv, RootHistoryExplainsStatus, HistorySays
  <2>3. audit[n].actor = "admin"
    BY <2>2 DEF StoreInv, FlaggedDecisionsHuman, IsLastOn
  <2> QED
    BY <2>2, <2>3
<1> QED
  BY <1>1, InitHasInv, StepKeepsInv, PTL DEF StoreSpec
=============================================================================
