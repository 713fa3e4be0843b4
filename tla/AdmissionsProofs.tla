---------------------------- MODULE AdmissionsProofs ----------------------------
(***************************************************************************)
(* A media key has one active admission at most, a download of the         *)
(* subscription keeps its key and no key is kept for nothing, for any      *)
(* candidates, callers and bounds.                                         *)
(***************************************************************************)
EXTENDS Admissions, TLAPS, FiniteSetTheorems

\* Where a caller has an admission, and where nothing is bound to it yet.
Engaged == {"begin", "submit", "bind", "dispatch", "send", "settle", "sync"}
Unbound == {"begin", "submit", "bind"}

\* A download keeps its key with such an admission.
Keeping == ActiveAdmission \cup {"completed", "released"}

\* A key that is kept for a submission to come.
Waiting(a) == Active(a) /\ a.request = 0

UniqueKeys(as) ==
    \A i, j \in DOMAIN as : Active(as[i]) /\ Active(as[j]) /\ KeyOf[as[i].cand] = KeyOf[as[j].cand]
                              => i = j

\* Only what was not dispatched is claimed, and a submission to come has no answer.
AdmissionFine(a) ==
    /\ a.status = "claimed" => a.request = 0
    /\ Waiting(a) => a.status \in {"claimed", "dispatching"}

\* Request r: before its dispatch it is nobody's, and then it has its key.
RequestFine(r, q, as) ==
    /\ q.status = "pending" => ~q.own
    /\ q.own /\ q.status \in UnderWay => \E i \in DOMAIN as : as[i].request = r /\ as[i].status \in Keeping

\* A resource has a row that owns its identity.
Owned(rs) == \A r \in DOMAIN rs : \E s \in DOMAIN rs : rs[s].current /\ rs[s].res = rs[r].res

\* What a caller holds is in the tables, in the state where the caller left it or
\* where others may have brought it.
CallerFine(c, as, rs) ==
    /\ c.pc \in Engaged => c.adm \in DOMAIN as
    /\ c.pc \in Unbound => as[c.adm].request = 0
    /\ c.pc = "begin" /\ Active(as[c.adm]) => as[c.adm].status = "claimed"
    /\ c.pc \in {"submit", "bind"} => as[c.adm].status # "claimed"
    /\ c.pc = "bind" /\ c.seen # "none" => c.request \in DOMAIN rs
    /\ c.pc \in Engaged \ Unbound => c.request \in DOMAIN rs
    /\ c.pc = "dispatch" /\ rs[c.request].status = "pending" =>
         as[c.adm].request = c.request /\ as[c.adm].status \in Keeping

\* No two callers have the same admission.
Apart ==
    \A p, q \in Callers :
        callers[p].pc \in Engaged /\ callers[q].pc \in Engaged /\ callers[p].adm = callers[q].adm
          => p = q

IInv ==
    /\ AdmTypeOK /\ UniqueKeys(adms) /\ Owned(reqs) /\ Apart /\ ClaimIsWorkedOn
    /\ \A i \in DOMAIN adms : AdmissionFine(adms[i])
    /\ \A r \in DOMAIN reqs : RequestFine(r, reqs[r], adms)
    /\ \A p \in Callers : CallerFine(callers[p], adms, reqs)

-----------------------------------------------------------------------------
(* Sequences as functions.                                                 *)

LEMMA SeqIsFunction ==
  ASSUME NEW S, NEW s \in Seq(S)
  PROVE  /\ Len(s) \in Nat /\ DOMAIN s = 1 .. Len(s) /\ s \in [DOMAIN s -> S]
         /\ DOMAIN s \subseteq Nat \ {0}
  OBVIOUS

LEMMA FunctionIsSeq ==
  ASSUME NEW S, NEW T, NEW s \in Seq(S), NEW t \in [DOMAIN s -> T]
  PROVE  t \in Seq(T) /\ DOMAIN t = DOMAIN s /\ Len(t) = Len(s)
<1>1. DOMAIN s = 1 .. Len(s) /\ Len(s) \in Nat
  BY SeqIsFunction
<1> QED  BY <1>1

\* One entry more.
LEMMA Appended ==
  ASSUME NEW S, NEW s \in Seq(S), NEW e \in S, NEW t, t = Append(s, e)
  PROVE  /\ t \in Seq(S) /\ DOMAIN t = DOMAIN s \cup {Len(s) + 1} /\ Len(s) + 1 \notin DOMAIN s
         /\ t[Len(s) + 1] = e /\ \A i \in DOMAIN s : t[i] = s[i]
         /\ Len(s) + 1 \in Nat \ {0}
  OBVIOUS

-----------------------------------------------------------------------------
(* What a request tells its admissions.                                    *)

LEMMA ProjectionValues ==
  ASSUME NEW q
  PROVE  /\ Projection(q) \in {"submitted", "cancelled", "failed", "processing", "as it was"}
         /\ q.status \in {"pending", "submitting"} => Projection(q) = "as it was"
         /\ q.status = "submitted" => Projection(q) = "submitted"
         /\ q.status = "manual_review" => Projection(q) = "processing"
<1>1. Projection(q) \in {"submitted", "cancelled", "failed", "processing", "as it was"}
  BY DEF Projection
<1>2. q.status \in {"pending", "submitting"} => Projection(q) = "as it was"
  BY DEF Projection
<1>3. q.status = "submitted" => Projection(q) = "submitted"
  BY DEF Projection
<1>4. q.status = "manual_review" => Projection(q) = "processing"
  BY DEF Projection
<1> QED  BY <1>1, <1>2, <1>3, <1>4

\* The entry b is the admission a, calmly: it is neither taken up anew nor moved, and
\* under a request that goes on it keeps its key.
CalmEntry(a, b, rs) ==
    /\ b.cand = a.cand /\ b.request = a.request
    /\ Active(b) => Active(a)
    /\ b.status = "claimed" => a.status = "claimed"
    /\ Waiting(b) => b.status = a.status
    /\ a.request # 0 /\ rs[a.request].status \in UnderWay \cup {"pending"} /\ a.status \in Keeping =>
         b.status \in Keeping

Calm(as, bs, rs) ==
    DOMAIN bs = DOMAIN as /\ \A i \in DOMAIN as : CalmEntry(as[i], bs[i], rs)

LEMMA SameIsCalm ==
  ASSUME NEW as, NEW rs
  PROVE  Calm(as, as, rs)
  BY DEF Calm, CalmEntry

LEMMA ProjectedCalm ==
  ASSUME NEW a \in Admission, NEW rs
  PROVE  Projected(a, rs) \in Admission /\ CalmEntry(a, Projected(a, rs), rs)
<1> DEFINE q == rs[a.request]
<1>1. CASE Active(a) /\ a.request # 0 /\ Projection(q) # "as it was"
  <2>1. Projected(a, rs) = [a EXCEPT !.status = Projection(q)]
    BY <1>1 DEF Projected
  <2>2. Projection(q) \in {"submitted", "cancelled", "failed", "processing"}
    BY <1>1, ProjectionValues
  <2>3. q.status \in UnderWay \cup {"pending"} => Projection(q) \in {"submitted", "processing"}
    BY <1>1, ProjectionValues DEF UnderWay
  <2> DEFINE b == [a EXCEPT !.status = Projection(q)]
  <2>4. /\ b \in Admission /\ b.cand = a.cand /\ b.request = a.request /\ b.status = Projection(q)
    BY <2>2 DEF Admission, AdmissionStatuses, ActiveAdmission
  <2> HIDE DEF b
  <2>5. CalmEntry(a, b, rs)
    BY <1>1, <2>2, <2>3, <2>4 DEF CalmEntry, Waiting, Active, Keeping, ActiveAdmission
  <2> QED  BY <2>1, <2>4, <2>5 DEF b
<1>2. CASE ~(Active(a) /\ a.request # 0 /\ Projection(q) # "as it was")
  BY <1>2 DEF Projected, CalmEntry
<1> QED  BY <1>1, <1>2

LEMMA SyncedCalm ==
  ASSUME NEW as \in Seq(Admission), NEW rs, NEW R
  PROVE  Synced(as, rs, R) \in Seq(Admission) /\ Calm(as, Synced(as, rs, R), rs)
<1> DEFINE bs == [i \in DOMAIN as |-> IF as[i].request \in R THEN Projected(as[i], rs) ELSE as[i]]
<1>1. as \in [DOMAIN as -> Admission]
  BY SeqIsFunction
<1>2. ASSUME NEW i \in DOMAIN as
      PROVE  bs[i] \in Admission /\ CalmEntry(as[i], bs[i], rs)
  <2>1. CASE as[i].request \in R
    BY <1>1, <2>1, ProjectedCalm
  <2>2. CASE as[i].request \notin R
    BY <1>1, <2>2 DEF CalmEntry
  <2> QED  BY <2>1, <2>2
<1>3. bs \in [DOMAIN as -> Admission]
  BY <1>2
<1> QED  BY <1>2, <1>3, FunctionIsSeq DEF Synced, Calm

LEMMA GivenUpCalm ==
  ASSUME NEW a \in Admission, NEW rs
  PROVE  GivenUp(a) \in Admission /\ CalmEntry(a, GivenUp(a), rs)
  BY DEF GivenUp, CalmEntry, Waiting, Active, Admission, AdmissionStatuses, ActiveAdmission

\* One admission gets another status.
LEMMA EntryCalm ==
  ASSUME NEW as \in Seq(Admission), NEW k, NEW b, NEW rs, NEW bs, bs = [as EXCEPT ![k] = b],
         k \in DOMAIN as => b \in Admission /\ CalmEntry(as[k], b, rs)
  PROVE  bs \in Seq(Admission) /\ Calm(as, bs, rs)
<1>1. as \in [DOMAIN as -> Admission]
  BY SeqIsFunction
<1>2. bs \in [DOMAIN as -> Admission]
  BY <1>1
<1>3. \A i \in DOMAIN as : CalmEntry(as[i], bs[i], rs)
  BY <1>1 DEF CalmEntry
<1> QED  BY <1>2, <1>3, FunctionIsSeq DEF Calm

-----------------------------------------------------------------------------
(* Steps that take nothing up.                                             *)

\* The requests go on or end: none comes up, and none becomes the subscription's.
Steady(rs, ss) ==
    /\ DOMAIN ss = DOMAIN rs
    /\ \A r \in DOMAIN rs :
         /\ ss[r].res = rs[r].res /\ ss[r].current = rs[r].current
         /\ ss[r].status = "pending" => rs[r].status = "pending" /\ ~ss[r].own
         /\ ss[r].own /\ ss[r].status \in UnderWay => rs[r].own /\ rs[r].status \in UnderWay

\* A caller stays where it is, leaves, or goes on with the request it has.
CallerGoes(c, d) ==
    \/ d.pc \notin Engaged
    \/ /\ c.pc \in Engaged /\ d.adm = c.adm
       /\ \/ d.pc = c.pc /\ d.request = c.request /\ d.seen = c.seen
          \/ c.pc \in Engaged \ Unbound /\ d.pc \in {"send", "settle", "sync"} /\ d.request = c.request

LEMMA CalmCaller ==
  ASSUME NEW c, NEW d, NEW as, NEW bs, NEW rs, NEW ss, Calm(as, bs, ss), Steady(rs, ss),
         CallerGoes(c, d), CallerFine(c, as, rs), 0 \notin DOMAIN rs
  PROVE  CallerFine(d, bs, ss)
<1>1. CASE d.pc \notin Engaged
  BY <1>1 DEF CallerFine, Engaged, Unbound
<1>2. CASE c.pc \in Engaged /\ d.adm = c.adm /\ d.pc \in Engaged
  <2>1. c.adm \in DOMAIN as /\ c.adm \in DOMAIN bs /\ DOMAIN ss = DOMAIN rs
        /\ CalmEntry(as[c.adm], bs[c.adm], ss)
    BY <1>2 DEF CallerFine, Calm, Steady
  <2>2. CASE d.pc = c.pc /\ d.request = c.request /\ d.seen = c.seen
    <3>1. c.pc \in Unbound => bs[c.adm].request = 0
      BY <2>1 DEF CallerFine, CalmEntry
    <3>2. c.pc = "begin" /\ Active(bs[c.adm]) => bs[c.adm].status = "claimed"
      BY <2>1, <3>1 DEF CallerFine, CalmEntry, Waiting, Unbound
    <3>3. c.pc \in {"submit", "bind"} => bs[c.adm].status # "claimed"
      BY <2>1 DEF CallerFine, CalmEntry
    <3>4. /\ c.pc = "bind" /\ c.seen # "none" => c.request \in DOMAIN ss
          /\ c.pc \in Engaged \ Unbound => c.request \in DOMAIN ss
      BY <2>1 DEF CallerFine
    <3>5. ASSUME c.pc = "dispatch", ss[c.request].status = "pending"
          PROVE  bs[c.adm].request = c.request /\ bs[c.adm].status \in Keeping
      <4>1. c.request \in DOMAIN rs
        BY <3>5 DEF CallerFine, Engaged, Unbound
      <4>2. rs[c.request].status = "pending" /\ c.request # 0
        BY <3>5, <4>1 DEF Steady
      <4> QED  BY <2>1, <3>5, <4>2 DEF CallerFine, CalmEntry
    <3> QED  BY <1>2, <2>1, <2>2, <3>1, <3>2, <3>3, <3>4, <3>5 DEF CallerFine
  <2>3. CASE c.pc \in Engaged \ Unbound /\ d.pc \in {"send", "settle", "sync"} /\ d.request = c.request
    BY <1>2, <2>1, <2>3 DEF CallerFine, Unbound
  <2> QED  BY <1>2, <2>2, <2>3 DEF CallerGoes
<1> QED  BY <1>1, <1>2 DEF CallerGoes

\* Nothing is taken up, so it is enough to look at who stops working on a key.
LEMMA CalmStep ==
  ASSUME IInv, AdmTypeOK', Calm(adms, adms', reqs'), Steady(reqs, reqs'),
         \A p \in Callers : CallerGoes(callers[p], callers'[p]),
         \A p \in Callers : callers[p].pc \in Unbound =>
            \/ callers'[p].pc \in Unbound /\ callers'[p].adm = callers[p].adm
            \/ ~Waiting(adms'[callers[p].adm])
            \/ booting' \/ unrecovered',
         booting \/ unrecovered => \/ booting' \/ unrecovered'
                                   \/ \A i \in DOMAIN adms : ~Waiting(adms'[i])
  PROVE  IInv'
<1>1. DOMAIN adms' = DOMAIN adms /\ \A i \in DOMAIN adms : CalmEntry(adms[i], adms'[i], reqs')
  BY DEF Calm
<1>2. DOMAIN reqs' = DOMAIN reqs /\ 0 \notin DOMAIN reqs
  <2>1. reqs \in Seq(Request)
    BY DEF IInv, AdmTypeOK
  <2> QED  BY <2>1, SeqIsFunction DEF Steady
<1>3. UniqueKeys(adms)'
  BY <1>1 DEF IInv, UniqueKeys, CalmEntry
<1>4. Owned(reqs)'
  BY <1>2 DEF IInv, Owned, Steady
<1>5. Apart'
  BY DEF IInv, Apart, CallerGoes
<1>6. ASSUME NEW i \in DOMAIN adms
      PROVE  AdmissionFine(adms'[i])
  <2>1. AdmissionFine(adms[i]) /\ CalmEntry(adms[i], adms'[i], reqs')
    BY <1>1 DEF IInv
  <2> QED  BY <2>1 DEF AdmissionFine, CalmEntry, Waiting
<1>7. ASSUME NEW r \in DOMAIN reqs
      PROVE  RequestFine(r, reqs'[r], adms')
  <2>1. reqs'[r].status = "pending" => ~reqs'[r].own
    BY DEF Steady
  <2>2. ASSUME reqs'[r].own, reqs'[r].status \in UnderWay
        PROVE  \E i \in DOMAIN adms' : adms'[i].request = r /\ adms'[i].status \in Keeping
    <3>1. reqs[r].own /\ reqs[r].status \in UnderWay
      BY <2>2 DEF Steady
    <3>2. PICK i \in DOMAIN adms : adms[i].request = r /\ adms[i].status \in Keeping
      BY <3>1 DEF IInv, RequestFine
    <3> QED  BY <1>1, <1>2, <2>2, <3>2 DEF CalmEntry
  <2> QED  BY <2>1, <2>2 DEF RequestFine
<1>8. \A p \in Callers : CallerFine(callers'[p], adms', reqs')
  BY <1>2, CalmCaller DEF IInv
<1>9. ClaimIsWorkedOn'
  <2> SUFFICES ASSUME NEW i \in DOMAIN adms, Waiting(adms'[i]), ~booting', ~unrecovered'
               PROVE  \E p \in Callers : callers'[p].adm = i /\ callers'[p].pc \in Unbound
    BY <1>1 DEF ClaimIsWorkedOn, Waiting, Unbound
  <2>1. Waiting(adms[i]) /\ ~booting /\ ~unrecovered
    BY <1>1 DEF Waiting, CalmEntry
  <2>2. PICK p \in Callers : callers[p].adm = i /\ callers[p].pc \in Unbound
    BY <2>1 DEF IInv, ClaimIsWorkedOn, Waiting, Unbound
  <2> QED  BY <2>2
<1> QED  BY <1>1, <1>2, <1>3, <1>4, <1>5, <1>6, <1>7, <1>8, <1>9 DEF IInv

-----------------------------------------------------------------------------
(* The steps of the subscription.                                          *)

LEMMA Types ==
  ASSUME IInv
  PROVE  /\ sub \in [enabled : BOOLEAN, rev : Nat]
         /\ cands \in [Candidates -> [status : {"available", "expired", "submitted"}, request : Nat]]
         /\ adms \in Seq(Admission) /\ reqs \in Seq(Request) /\ callers \in [Callers -> Caller]
         /\ library \subseteq Keys /\ booting \in BOOLEAN /\ unrecovered \in BOOLEAN
         /\ events \in 0 .. MaxEvents
  BY DEF IInv, AdmTypeOK

LEMMA OneEvent ==
  ASSUME IInv, Event
  PROVE  events' \in 0 .. MaxEvents
  BY Types, AdmissionsAssumption DEF Event

LEMMA SameIsSteady ==
  ASSUME IInv
  PROVE  Steady(reqs, reqs)
  BY DEF IInv, RequestFine, Steady

LEMMA IdleIsCaller == IdleCaller \in Caller /\ IdleCaller.pc \notin Engaged
<1>1. (CHOOSE c \in Candidates : TRUE) \in Candidates
  BY AdmissionsAssumption
<1> QED  BY <1>1 DEF IdleCaller, Caller, Engaged

LEMMA SameCallers ==
  ASSUME NEW c
  PROVE  CallerGoes(c, c)
  BY DEF CallerGoes

\* The callers do not move.
LEMMA CallersStay ==
  ASSUME IInv, AdmTypeOK', Calm(adms, adms', reqs'), Steady(reqs, reqs'), callers' = callers,
         booting' = booting, unrecovered' = unrecovered
  PROVE  IInv'
<1>1. \A p \in Callers : CallerGoes(callers[p], callers'[p])
  BY SameCallers
<1> QED  BY <1>1, CalmStep

LEMMA ChangeSubscriptionStep ==
  ASSUME IInv, ChangeSubscription
  PROVE  IInv'
<1>1. PICK enabled \in BOOLEAN :
       /\ sub' = [enabled |-> enabled, rev |-> sub.rev + 1]
       /\ \/ /\ cands' = [c \in Candidates |-> IF cands[c].status = "available"
                                               THEN [cands[c] EXCEPT !.status = "expired"]
                                               ELSE cands[c]]
             /\ adms' = [i \in DOMAIN adms |-> IF adms[i].status = "claimed"
                                               THEN [adms[i] EXCEPT !.status = "cancelled"]
                                               ELSE adms[i]]
          \/ enabled /\ UNCHANGED <<cands, adms>>
  BY DEF ChangeSubscription
<1>2. UNCHANGED <<reqs, callers, library, booting, unrecovered>> /\ events' \in 0 .. MaxEvents
  BY OneEvent DEF ChangeSubscription
<1>3. adms' \in Seq(Admission) /\ Calm(adms, adms', reqs')
  <2>1. CASE adms' = [i \in DOMAIN adms |-> IF adms[i].status = "claimed"
                                            THEN [adms[i] EXCEPT !.status = "cancelled"]
                                            ELSE adms[i]]
    <3>1. adms \in [DOMAIN adms -> Admission]
      BY Types, SeqIsFunction
    <3>2. ASSUME NEW a \in Admission, a.status = "claimed", NEW b, b = [a EXCEPT !.status = "cancelled"],
                 AdmissionFine(a)
          PROVE  b \in Admission /\ CalmEntry(a, b, reqs')
      <4>1. b \in Admission /\ b.status = "cancelled" /\ b.cand = a.cand /\ b.request = a.request
        BY <3>2 DEF Admission, AdmissionStatuses
      <4> QED  BY <3>2, <4>1 DEF CalmEntry, Waiting, Active, ActiveAdmission, AdmissionFine
    <3>3. ASSUME NEW i \in DOMAIN adms
          PROVE  adms'[i] \in Admission /\ CalmEntry(adms[i], adms'[i], reqs')
      <4>1. adms[i] \in Admission /\ AdmissionFine(adms[i])
        BY <3>1 DEF IInv
      <4>2. CASE adms[i].status = "claimed"
        BY <2>1, <3>2, <4>1, <4>2
      <4>3. CASE adms[i].status # "claimed"
        BY <2>1, <4>1, <4>3 DEF CalmEntry
      <4> QED  BY <4>2, <4>3
    <3>4. DOMAIN adms' = DOMAIN adms /\ adms' \in [DOMAIN adms -> Admission]
      BY <2>1, <3>3
    <3> QED  BY <3>3, <3>4, Types, FunctionIsSeq DEF Calm
  <2>2. CASE adms' = adms
    BY <2>2, Types, SameIsCalm
  <2> QED  BY <1>1, <2>1, <2>2
<1>4. cands' \in [Candidates -> [status : {"available", "expired", "submitted"}, request : Nat]]
  <2>1. ASSUME NEW c \in Candidates
        PROVE  cands'[c] \in [status : {"available", "expired", "submitted"}, request : Nat]
    <3>1. cands[c] \in [status : {"available", "expired", "submitted"}, request : Nat]
      BY Types
    <3>2. cands'[c] = cands[c] \/ cands'[c] = [cands[c] EXCEPT !.status = "expired"]
      BY <1>1
    <3> QED  BY <3>1, <3>2
  <2>2. CASE cands' = cands
    BY <2>2, Types
  <2>3. CASE cands' = [c \in Candidates |-> IF cands[c].status = "available"
                                            THEN [cands[c] EXCEPT !.status = "expired"]
                                            ELSE cands[c]]
    <3>1. cands' = [c \in Candidates |-> cands'[c]]
      BY <2>3
    <3> QED  BY <2>1, <3>1
  <2> QED  BY <1>1, <2>2, <2>3
<1>5. sub' \in [enabled : BOOLEAN, rev : Nat]
  BY <1>1, Types
<1>6. AdmTypeOK'
  BY <1>2, <1>3, <1>4, <1>5, Types DEF AdmTypeOK
<1> QED  BY <1>2, <1>3, <1>6, SameIsSteady, CallersStay

LEMMA OfferCandidatesStep ==
  ASSUME IInv, NEW k \in Keys, OfferCandidates(k)
  PROVE  IInv'
<1>1. PICK S \in SUBSET {c \in Candidates : KeyOf[c] = k} :
         cands' = [c \in Candidates |->
                     IF KeyOf[c] # k \/ cands[c].status = "submitted" THEN cands[c]
                     ELSE [cands[c] EXCEPT !.status = IF c \in S THEN "available" ELSE "expired"]]
  BY DEF OfferCandidates
<1>2. UNCHANGED <<sub, adms, reqs, callers, library, booting, unrecovered>>
      /\ events' \in 0 .. MaxEvents
  BY OneEvent DEF OfferCandidates
<1>3. cands' \in [Candidates -> [status : {"available", "expired", "submitted"}, request : Nat]]
  <2>1. ASSUME NEW c \in Candidates
        PROVE  cands'[c] \in [status : {"available", "expired", "submitted"}, request : Nat]
    <3>1. cands[c] \in [status : {"available", "expired", "submitted"}, request : Nat]
      BY Types
    <3>2. \/ cands'[c] = cands[c]
          \/ cands'[c] = [cands[c] EXCEPT !.status = "available"]
          \/ cands'[c] = [cands[c] EXCEPT !.status = "expired"]
      BY <1>1
    <3> QED  BY <3>1, <3>2
  <2>2. cands' = [c \in Candidates |-> cands'[c]]
    BY <1>1
  <2> QED  BY <2>1, <2>2
<1>4. AdmTypeOK'
  BY <1>2, <1>3, Types DEF AdmTypeOK
<1> QED  BY <1>2, <1>4, SameIsCalm, SameIsSteady, CallersStay

LEMMA ReconcileStep ==
  ASSUME IInv, Reconcile
  PROVE  IInv'
<1>1. UNCHANGED <<sub, cands, reqs, callers, library, booting, unrecovered, events>>
      /\ adms' = [i \in DOMAIN adms |-> Reconciled(adms[i])]
  BY DEF Reconcile
<1>2. adms \in [DOMAIN adms -> Admission]
  BY Types, SeqIsFunction
<1>3. ASSUME NEW a \in Admission
      PROVE  Reconciled(a) \in Admission /\ CalmEntry(a, Reconciled(a), reqs)
  <2>1. CASE Active(a) /\ KeyOf[a.cand] \in library
    <3> DEFINE b == [a EXCEPT !.status = "completed"]
    <3>1. /\ b \in Admission /\ b.status = "completed" /\ b.cand = a.cand /\ b.request = a.request
          /\ Reconciled(a) = b
      BY <2>1 DEF Admission, AdmissionStatuses, Reconciled
    <3> HIDE DEF b
    <3> QED  BY <3>1 DEF CalmEntry, Waiting, Active, ActiveAdmission, Keeping
  <2>2. CASE ~(Active(a) /\ KeyOf[a.cand] \in library)
    BY <2>2, ProjectedCalm DEF Reconciled
  <2> QED  BY <2>1, <2>2
<1>4. adms' \in Seq(Admission) /\ Calm(adms, adms', reqs')
  <2>1. DOMAIN adms' = DOMAIN adms /\ adms' \in [DOMAIN adms -> Admission]
        /\ \A i \in DOMAIN adms : CalmEntry(adms[i], adms'[i], reqs)
    BY <1>1, <1>2, <1>3
  <2> QED  BY <1>1, <2>1, Types, FunctionIsSeq DEF Calm
<1>5. AdmTypeOK'
  BY <1>1, <1>4, Types DEF AdmTypeOK
<1> QED  BY <1>1, <1>4, <1>5, SameIsSteady, CallersStay

LEMMA LibraryGainsStep ==
  ASSUME IInv, NEW k \in Keys, LibraryGains(k)
  PROVE  IInv'
<1>1. UNCHANGED <<sub, cands, adms, reqs, callers, booting, unrecovered>>
      /\ events' \in 0 .. MaxEvents /\ library' = library \cup {k}
  BY OneEvent DEF LibraryGains
<1>2. AdmTypeOK'
  BY <1>1, Types DEF AdmTypeOK
<1> QED  BY <1>1, <1>2, SameIsCalm, SameIsSteady, CallersStay

-----------------------------------------------------------------------------
(* The steps of the requests.                                              *)

\* Only requests and their admissions move.
LEMMA RequestsMove ==
  ASSUME IInv, UNCHANGED <<sub, cands, callers, library, booting, unrecovered>>,
         events' \in 0 .. MaxEvents, reqs' \in Seq(Request), Steady(reqs, reqs'),
         adms' \in Seq(Admission), Calm(adms, adms', reqs')
  PROVE  IInv'
<1>1. AdmTypeOK'
  BY Types DEF AdmTypeOK
<1> QED  BY <1>1, CallersStay

\* A request ends or goes on.
LEMMA RequestEntry ==
  ASSUME IInv, NEW r \in DOMAIN reqs, NEW q \in Request, NEW rs, rs = [reqs EXCEPT ![r] = q],
         q.res = reqs[r].res, q.current = reqs[r].current,
         q.status = "pending" => reqs[r].status = "pending" /\ ~q.own,
         q.own /\ q.status \in UnderWay => reqs[r].own /\ reqs[r].status \in UnderWay
  PROVE  rs \in Seq(Request) /\ Steady(reqs, rs)
<1>1. reqs \in Seq(Request) /\ reqs \in [DOMAIN reqs -> Request]
  BY Types, SeqIsFunction
<1>2. rs \in [DOMAIN reqs -> Request] /\ rs[r] = q /\ \A s \in DOMAIN reqs : s # r => rs[s] = reqs[s]
  BY <1>1
<1>3. \A s \in DOMAIN reqs : reqs[s].status = "pending" => ~reqs[s].own
  BY DEF IInv, RequestFine
<1> QED  BY <1>1, <1>2, <1>3, FunctionIsSeq DEF Steady

LEMMA BecomesStep ==
  ASSUME IInv, UNCHANGED <<sub, cands, callers, library, booting, unrecovered>>,
         events' \in 0 .. MaxEvents,
         NEW r \in DOMAIN reqs, NEW q \in Request, Becomes(r, q),
         q.res = reqs[r].res, q.current = reqs[r].current,
         q.status = "pending" => reqs[r].status = "pending" /\ ~q.own,
         q.own /\ q.status \in UnderWay => reqs[r].own /\ reqs[r].status \in UnderWay
  PROVE  IInv'
<1>1. reqs' \in Seq(Request) /\ Steady(reqs, reqs')
  BY RequestEntry DEF Becomes
<1>2. adms' \in Seq(Admission) /\ Calm(adms, adms', reqs')
  BY Types, SyncedCalm DEF Becomes
<1> QED  BY <1>1, <1>2, RequestsMove

LEMMA RequestType ==
  ASSUME IInv, NEW r \in DOMAIN reqs
  PROVE  reqs[r] \in Request
<1>1. reqs \in [DOMAIN reqs -> Request]
  BY Types, SeqIsFunction
<1> QED  BY <1>1

\* The statuses that a step without a caller may give.
LEMMA StatusStep ==
  ASSUME IInv, UNCHANGED <<sub, cands, callers, library, booting, unrecovered>>,
         events' \in 0 .. MaxEvents, NEW r \in DOMAIN reqs,
         NEW status \in RequestStatuses \ {"pending"},
         Becomes(r, [reqs[r] EXCEPT !.status = status]),
         status \in UnderWay => reqs[r].status \in UnderWay
  PROVE  IInv'
<1> DEFINE q == [reqs[r] EXCEPT !.status = status]
<1>1. reqs[r] \in Request
  BY RequestType
<1>2. /\ q \in Request /\ q.status = status /\ q.own = reqs[r].own /\ q.res = reqs[r].res
      /\ q.current = reqs[r].current
  BY <1>1 DEF Request
<1>3. Becomes(r, q)
  OBVIOUS
<1> HIDE DEF q
<1> QED  BY <1>2, <1>3, BecomesStep

LEMMA TrackStep ==
  ASSUME IInv, NEW r \in DOMAIN reqs, Track(r)
  PROVE  IInv'
<1>1. PICK status \in {"completed", "failed", "manual_review", "removed"} :
         Becomes(r, [reqs[r] EXCEPT !.status = status])
  BY DEF Track
<1>2. /\ reqs[r].status = "submitted" /\ UNCHANGED <<sub, cands, callers, library, booting, unrecovered>>
      /\ events' \in 0 .. MaxEvents
  BY OneEvent, Types DEF Track
<1>3. status \in RequestStatuses \ {"pending"}
  BY DEF RequestStatuses, Over, Retryable
<1> QED  BY <1>1, <1>2, <1>3, StatusStep DEF UnderWay

LEMMA PostprocessFailsStep ==
  ASSUME IInv, NEW r \in DOMAIN reqs, PostprocessFails(r)
  PROVE  IInv'
<1> DEFINE q == [reqs[r] EXCEPT !.postFailed = TRUE]
<1>1. /\ Becomes(r, q) /\ reqs[r].status = "completed"
      /\ UNCHANGED <<sub, cands, callers, library, booting, unrecovered, events>>
  BY DEF PostprocessFails
<1>2. /\ q \in Request /\ q.status = reqs[r].status /\ q.own = reqs[r].own /\ q.res = reqs[r].res
      /\ q.current = reqs[r].current
  BY RequestType DEF Request
<1> HIDE DEF q
<1> QED  BY <1>1, <1>2, Types, BecomesStep

LEMMA CancelPendingStep ==
  ASSUME IInv, NEW r \in DOMAIN reqs, CancelPending(r)
  PROVE  IInv'
<1>1. /\ UNCHANGED <<sub, cands, callers, library, booting, unrecovered>> /\ events' \in 0 .. MaxEvents
      /\ Becomes(r, [reqs[r] EXCEPT !.status = "cancelled"])
  BY OneEvent DEF CancelPending
<1> QED  BY <1>1, StatusStep DEF RequestStatuses, Over, Retryable, UnderWay

LEMMA RecoverStaleStep ==
  ASSUME IInv, NEW r \in DOMAIN reqs, RecoverStale(r)
  PROVE  IInv'
<1> DEFINE q == [reqs[r] EXCEPT !.status = "manual_review"]
<1>1. /\ UNCHANGED <<sub, cands, adms, callers, library, booting, unrecovered>>
      /\ events' \in 0 .. MaxEvents /\ reqs[r].status = "submitting"
  BY OneEvent DEF RecoverStale
<1>2. /\ q \in Request /\ q.status = "manual_review" /\ q.own = reqs[r].own /\ q.res = reqs[r].res
      /\ q.current = reqs[r].current
  BY RequestType DEF Request, RequestStatuses
<1>3. reqs' = [reqs EXCEPT ![r] = q]
  BY DEF RecoverStale
<1> HIDE DEF q
<1>4. reqs' \in Seq(Request) /\ Steady(reqs, reqs')
  BY <1>1, <1>2, <1>3, RequestEntry DEF UnderWay
<1> QED  BY <1>1, <1>4, Types, SameIsCalm, RequestsMove

LEMMA UserSubmittedStep ==
  ASSUME IInv, NEW r \in DOMAIN reqs, UserSubmitted(r)
  PROVE  IInv'
<1>1. PICK answer \in Answers :
         Becomes(r, [reqs[r] EXCEPT !.status = answer, !.mark = IF answer = "submitted" THEN @ ELSE 0])
  BY DEF UserSubmitted
<1>2. /\ UNCHANGED <<sub, cands, callers, library, booting, unrecovered, events>>
      /\ reqs[r].status = "submitting"
  BY DEF UserSubmitted
<1> DEFINE q == [reqs[r] EXCEPT !.status = answer, !.mark = IF answer = "submitted" THEN @ ELSE 0]
<1>3. /\ q \in Request /\ q.status = answer /\ q.own = reqs[r].own /\ q.res = reqs[r].res
      /\ q.current = reqs[r].current
  BY RequestType DEF Request, RequestStatuses, Answers, Over, Retryable
<1>4. Becomes(r, q)
  BY <1>1
<1> HIDE DEF q
<1> QED  BY <1>2, <1>3, <1>4, Types, BecomesStep DEF UnderWay, Answers

LEMMA MarkResubmittedStep ==
  ASSUME IInv, NEW r \in DOMAIN reqs, MarkResubmitted(r)
  PROVE  IInv'
<1> DEFINE source == reqs[r].mark
<1>1. /\ UNCHANGED <<sub, cands, adms, callers, library, booting, unrecovered, events>>
      /\ reqs' = [reqs EXCEPT ![r].mark = 0, ![source].postFailed = FALSE,
                   ![source].status = IF @ \in {"failed", "manual_review"} THEN "resubmitted" ELSE @]
  BY DEF MarkResubmitted
<1>2. reqs \in Seq(Request) /\ reqs \in [DOMAIN reqs -> Request]
  BY Types, SeqIsFunction
<1> DEFINE first == [reqs EXCEPT ![r].mark = 0]
           second == [first EXCEPT ![source].postFailed = FALSE]
<1>3. first \in [DOMAIN reqs -> Request] /\ \A s \in DOMAIN reqs :
         first[s].status = reqs[s].status /\ first[s].own = reqs[s].own
         /\ first[s].res = reqs[s].res /\ first[s].current = reqs[s].current
  BY <1>2 DEF Request
<1> HIDE DEF source, first
<1>4. second \in [DOMAIN reqs -> Request] /\ \A s \in DOMAIN reqs :
         second[s].status = reqs[s].status /\ second[s].own = reqs[s].own
         /\ second[s].res = reqs[s].res /\ second[s].current = reqs[s].current
  BY <1>3 DEF Request
<1>5. reqs' = [second EXCEPT ![source].status =
                 IF @ \in {"failed", "manual_review"} THEN "resubmitted" ELSE @]
  BY <1>1 DEF first, source
<1> HIDE DEF second
<1>6. reqs' \in [DOMAIN reqs -> Request] /\ \A s \in DOMAIN reqs :
         /\ reqs'[s].status \in {reqs[s].status, "resubmitted"} /\ reqs'[s].own = reqs[s].own
         /\ reqs'[s].res = reqs[s].res /\ reqs'[s].current = reqs[s].current
  <2> DEFINE status == IF second[source].status \in {"failed", "manual_review"} THEN "resubmitted"
                       ELSE second[source].status
  <2>1. reqs' = [second EXCEPT ![source].status = status]
    BY <1>5
  <2>2. source \in DOMAIN reqs => status \in RequestStatuses /\ status \in {reqs[source].status, "resubmitted"}
    BY <1>2, <1>4 DEF Request, RequestStatuses
  <2> HIDE DEF status
  <2> QED  BY <1>4, <2>1, <2>2 DEF Request
<1>7. DOMAIN reqs' = DOMAIN reqs /\ reqs' \in Seq(Request)
  BY <1>2, <1>6, FunctionIsSeq
<1>8. \A s \in DOMAIN reqs : reqs[s].status = "pending" => ~reqs[s].own
  BY DEF IInv, RequestFine
<1>9. Steady(reqs, reqs')
  BY <1>6, <1>7, <1>8 DEF Steady, UnderWay
<1> QED  BY <1>1, <1>7, <1>9, Types, SameIsCalm, RequestsMove

-----------------------------------------------------------------------------
(* The calm steps of the callers.                                          *)

\* One caller goes on, or leaves when nothing waits for it.
LEMMA OneCallerGoes ==
  ASSUME IInv, AdmTypeOK', Calm(adms, adms', reqs'), Steady(reqs, reqs'),
         booting' = booting, unrecovered' = unrecovered,
         NEW p \in Callers, NEW d, callers' = [callers EXCEPT ![p] = d], CallerGoes(callers[p], d),
         callers[p].pc \in Unbound => \/ d.pc \in Unbound /\ d.adm = callers[p].adm
                                      \/ ~Waiting(adms'[callers[p].adm])
  PROVE  IInv'
<1>1. callers' \in [Callers -> Caller] /\ callers'[p] = d
      /\ \A o \in Callers : o # p => callers'[o] = callers[o]
  BY Types DEF AdmTypeOK
<1>2. \A o \in Callers : CallerGoes(callers[o], callers'[o])
  BY <1>1, SameCallers
<1>3. \A o \in Callers : callers[o].pc \in Unbound =>
         \/ callers'[o].pc \in Unbound /\ callers'[o].adm = callers[o].adm
         \/ ~Waiting(adms'[callers[o].adm])
  BY <1>1
<1> QED  BY <1>2, <1>3, CalmStep

LEMMA CallerType ==
  ASSUME IInv, NEW p \in Callers
  PROVE  callers[p] \in Caller /\ CallerFine(callers[p], adms, reqs)
  BY Types DEF IInv

LEMMA AdmissionType ==
  ASSUME IInv, NEW i \in DOMAIN adms
  PROVE  adms[i] \in Admission /\ AdmissionFine(adms[i])
<1>1. adms \in [DOMAIN adms -> Admission]
  BY Types, SeqIsFunction
<1> QED  BY <1>1 DEF IInv

\* A caller leaves its admission in the state b, in which nothing waits.
LEMMA Leaves ==
  ASSUME IInv, NEW p \in Callers, NEW b, Leave(p), adms' = [adms EXCEPT ![callers[p].adm] = b],
         callers[p].adm \in DOMAIN adms =>
            b \in Admission /\ CalmEntry(adms[callers[p].adm], b, reqs) /\ ~Waiting(b),
         UNCHANGED <<sub, cands, reqs, library, booting, unrecovered, events>>
  PROVE  IInv'
<1>1. adms' \in Seq(Admission) /\ Calm(adms, adms', reqs')
  BY Types, EntryCalm
<1>2. callers' = [callers EXCEPT ![p] = IdleCaller] /\ callers' \in [Callers -> Caller]
  BY Types, IdleIsCaller DEF Leave
<1>3. AdmTypeOK'
  BY <1>1, <1>2, Types DEF AdmTypeOK
<1>4. callers[p].pc \in Unbound => ~Waiting(adms'[callers[p].adm])
  BY CallerType, Types, SeqIsFunction DEF CallerFine, Unbound, Engaged
<1>5. CallerGoes(callers[p], IdleCaller)
  BY IdleIsCaller DEF CallerGoes
<1> QED  BY <1>1, <1>2, <1>3, <1>4, <1>5, SameIsSteady, OneCallerGoes

LEMMA GivenUpIsNotWaiting ==
  ASSUME NEW a \in Admission, AdmissionFine(a)
  PROVE  ~Waiting(GivenUp(a))
<1>1. CASE a.status \in {"claimed", "dispatching"} /\ a.request = 0
  <2>1. GivenUp(a).status = "failed"
    BY <1>1 DEF GivenUp, Admission
  <2> QED  BY <2>1 DEF Waiting, Active, ActiveAdmission
<1>2. CASE ~(a.status \in {"claimed", "dispatching"} /\ a.request = 0)
  BY <1>2 DEF GivenUp, Waiting, AdmissionFine
<1> QED  BY <1>1, <1>2

LEMMA FailStep ==
  ASSUME IInv, NEW p \in Callers, Fail(p),
         UNCHANGED <<sub, cands, reqs, library, booting, unrecovered, events>>
  PROVE  IInv'
<1>1. callers[p].adm \in DOMAIN adms =>
         /\ GivenUp(adms[callers[p].adm]) \in Admission
         /\ CalmEntry(adms[callers[p].adm], GivenUp(adms[callers[p].adm]), reqs)
         /\ ~Waiting(GivenUp(adms[callers[p].adm]))
  BY AdmissionType, GivenUpCalm, GivenUpIsNotWaiting
<1>2. adms' = [adms EXCEPT ![callers[p].adm] = GivenUp(adms[callers[p].adm])] /\ Leave(p)
  BY DEF Fail
<1> QED  BY <1>1, <1>2, Leaves

\* A caller that has bound nothing ends its admission.
LEMMA EndsUnbound ==
  ASSUME IInv, NEW p \in Callers, callers[p].pc \in Unbound, Leave(p), NEW status,
         AdmissionBecomes(p, status),
         \/ status = "cancelled"
         \/ status = adms[callers[p].adm].status /\ ~Waiting(adms[callers[p].adm]),
         UNCHANGED <<sub, cands, reqs, library, booting, unrecovered, events>>
  PROVE  IInv'
<1> DEFINE a == adms[callers[p].adm]
           b == [a EXCEPT !.status = status]
<1>1. callers[p].adm \in DOMAIN adms /\ a.request = 0
  BY CallerType DEF CallerFine, Unbound, Engaged
<1>2. a \in Admission
  BY <1>1, AdmissionType
<1>3. adms' = [adms EXCEPT ![callers[p].adm] = b]
  BY DEF AdmissionBecomes
<1>4. b \in Admission /\ CalmEntry(a, b, reqs) /\ ~Waiting(b)
  <2>1. CASE status = "cancelled"
    <3>1. b \in Admission /\ b.status = "cancelled" /\ b.cand = a.cand /\ b.request = a.request
      BY <1>2, <2>1 DEF Admission, AdmissionStatuses
    <3> HIDE DEF a, b
    <3> QED  BY <1>1, <3>1 DEF CalmEntry, Waiting, Active, ActiveAdmission
  <2>2. CASE status = a.status /\ ~Waiting(a)
    <3>1. b = a
      BY <1>2, <2>2 DEF Admission
    <3> HIDE DEF b
    <3> QED  BY <1>2, <2>2, <3>1 DEF CalmEntry
  <2> QED  BY <2>1, <2>2
<1> HIDE DEF b
<1> QED  BY <1>3, <1>4, Leaves

LEMMA BeginStep ==
  ASSUME IInv, NEW p \in Callers, Begin(p)
  PROVE  IInv'
<1>1. UNCHANGED <<sub, adms, reqs, library, booting, unrecovered, events>> /\ callers[p].pc = "idle"
  BY DEF Begin
<1>2. PICK c \in Candidates :
         \/ /\ UNCHANGED cands
            /\ callers' = [callers EXCEPT ![p] = [IdleCaller EXCEPT !.pc = "claim", !.cand = c,
                                                                    !.rev = sub.rev]]
         \/ /\ UNCHANGED callers
            /\ cands' = [cands EXCEPT ![c].status = "expired"]
  BY DEF Begin
<1>3. CASE UNCHANGED cands /\ callers' = [callers EXCEPT ![p] = [IdleCaller EXCEPT !.pc = "claim",
                                                                    !.cand = c, !.rev = sub.rev]]
  <2> DEFINE d == [IdleCaller EXCEPT !.pc = "claim", !.cand = c, !.rev = sub.rev]
  <2>1. d \in Caller /\ d.pc = "claim"
    BY IdleIsCaller, Types DEF Caller
  <2>2. callers' = [callers EXCEPT ![p] = d]
    BY <1>3
  <2> HIDE DEF d
  <2>3. callers' \in [Callers -> Caller]
    BY <2>1, <2>2, Types
  <2>4. AdmTypeOK'
    BY <1>1, <1>3, <2>3, Types DEF AdmTypeOK
  <2>5. CallerGoes(callers[p], d) /\ callers[p].pc \notin Unbound
    BY <1>1, <2>1 DEF CallerGoes, Engaged, Unbound
  <2> QED  BY <1>1, <2>2, <2>4, <2>5, SameIsCalm, SameIsSteady, OneCallerGoes
<1>4. CASE UNCHANGED callers /\ cands' = [cands EXCEPT ![c].status = "expired"]
  <2>1. cands' \in [Candidates -> [status : {"available", "expired", "submitted"}, request : Nat]]
    <3>1. cands[c] \in [status : {"available", "expired", "submitted"}, request : Nat]
      BY Types
    <3>2. cands' = [cands EXCEPT ![c] = [cands[c] EXCEPT !.status = "expired"]]
      BY <1>4
    <3>3. [cands[c] EXCEPT !.status = "expired"]
            \in [status : {"available", "expired", "submitted"}, request : Nat]
      BY <3>1
    <3> QED  BY <3>2, <3>3, Types
  <2>2. AdmTypeOK'
    BY <1>1, <1>4, <2>1, Types DEF AdmTypeOK
  <2> QED  BY <1>1, <1>4, <2>2, SameIsCalm, SameIsSteady, CallersStay
<1> QED  BY <1>2, <1>3, <1>4

LEMMA StopCallerStep ==
  ASSUME IInv, NEW p \in Callers, StopCaller(p)
  PROVE  IInv'
<1> DEFINE a == adms[callers[p].adm]
           status == IF a.status = (IF callers[p].pc = "begin" THEN "claimed" ELSE "dispatching")
                     THEN "cancelled" ELSE a.status
<1>1. /\ callers[p].pc \in {"begin", "submit"} /\ Leave(p) /\ AdmissionBecomes(p, status)
      /\ UNCHANGED <<sub, cands, reqs, library, booting, unrecovered, events>>
  BY DEF StopCaller
<1>2. callers[p].pc \in Unbound /\ callers[p].adm \in DOMAIN adms
  BY <1>1, CallerType DEF CallerFine, Unbound, Engaged
<1>3. status = "cancelled" \/ (status = a.status /\ ~Waiting(a))
  BY <1>1, <1>2, CallerType, AdmissionType DEF CallerFine, AdmissionFine, Waiting
<1> HIDE DEF status
<1> QED  BY <1>1, <1>2, <1>3, EndsUnbound

LEMMA AbandonStep ==
  ASSUME IInv, NEW p \in Callers, Abandon(p)
  PROVE  IInv'
<1> DEFINE a == adms[callers[p].adm]
<1>1. /\ callers[p].pc \in {"submit", "bind", "dispatch", "send"}
      /\ UNCHANGED <<sub, cands, reqs, library, booting, unrecovered, events>>
      /\ adms' = [adms EXCEPT ![callers[p].adm] = GivenUp(a)]
  BY DEF Abandon
<1>2. CASE callers[p].pc = "submit"
  <2>1. Fail(p)
    BY <1>1, <1>2 DEF Abandon, Fail
  <2> QED  BY <1>1, <2>1, FailStep
<1>3. CASE callers[p].pc # "submit"
  <2> DEFINE d == [callers[p] EXCEPT !.left = TRUE]
  <2>1. callers' = [callers EXCEPT ![p] = d]
    BY <1>3 DEF Abandon
  <2>2. d \in Caller /\ d.pc = callers[p].pc /\ d.adm = callers[p].adm
        /\ d.request = callers[p].request /\ d.seen = callers[p].seen
    BY CallerType DEF Caller
  <2> HIDE DEF d
  <2>3. CallerGoes(callers[p], d)
    BY <1>1, <2>2 DEF CallerGoes, Engaged
  <2>4. callers' \in [Callers -> Caller]
    BY <2>1, <2>2, Types
  <2>5. adms' \in Seq(Admission) /\ Calm(adms, adms', reqs')
    <3>1. callers[p].adm \in DOMAIN adms => GivenUp(a) \in Admission /\ CalmEntry(a, GivenUp(a), reqs')
      BY AdmissionType, GivenUpCalm
    <3> HIDE DEF a
    <3> QED  BY <1>1, <3>1, Types, EntryCalm DEF a
  <2>6. AdmTypeOK'
    BY <1>1, <2>4, <2>5, Types DEF AdmTypeOK
  <2> QED  BY <1>1, <2>1, <2>2, <2>3, <2>5, <2>6, SameIsSteady, OneCallerGoes
<1> QED  BY <1>2, <1>3

-----------------------------------------------------------------------------
(* The steps in which a caller moves its own admission or request.         *)

\* A caller goes on with its admission, which becomes b, and the requests go on: what
\* comes to be the subscription's has its key in b.
LEMMA OwnStep ==
  ASSUME IInv, AdmTypeOK', booting' = booting, unrecovered' = unrecovered,
         NEW p \in Callers, callers[p].pc \in Engaged,
         NEW a, a = adms[callers[p].adm],
         NEW b, adms' = [adms EXCEPT ![callers[p].adm] = b],
         b.cand = a.cand, Active(b) => Active(a), AdmissionFine(b),
         a.request # 0 => b.request = a.request,
         a.status \in Keeping => b.status \in Keeping,
         NEW d, callers' = [callers EXCEPT ![p] = d], d.pc \in Engaged, d.adm = callers[p].adm,
         CallerFine(d, adms', reqs'), Waiting(b) => d.pc \in Unbound,
         Owned(reqs'), DOMAIN reqs \subseteq DOMAIN reqs',
         \A r \in DOMAIN reqs : reqs'[r].status = "pending" => reqs[r].status = "pending",
         \A r \in DOMAIN reqs' :
            /\ reqs'[r].status = "pending" => ~reqs'[r].own
            /\ reqs'[r].own /\ reqs'[r].status \in UnderWay =>
                 \/ r \in DOMAIN reqs /\ reqs[r].own /\ reqs[r].status \in UnderWay
                 \/ b.request = r /\ b.status \in Keeping
  PROVE  IInv'
<1> DEFINE k == callers[p].adm
<1>1. k \in DOMAIN adms /\ CallerFine(callers[p], adms, reqs)
  BY CallerType DEF CallerFine
<1>2. /\ DOMAIN adms' = DOMAIN adms /\ adms'[k] = b
      /\ \A i \in DOMAIN adms : i # k => adms'[i] = adms[i]
  BY <1>1, Types
<1>3. callers'[p] = d /\ \A o \in Callers : o # p => callers'[o] = callers[o]
  BY Types
<1>4. 0 \notin DOMAIN reqs
  BY Types, SeqIsFunction
<1> HIDE DEF k
<1>5. UniqueKeys(adms)'
  BY <1>2, <1>1 DEF IInv, UniqueKeys, k
<1>6. Apart'
  BY <1>3 DEF IInv, Apart
<1>7. \A i \in DOMAIN adms' : AdmissionFine(adms'[i])
  BY <1>2 DEF IInv
<1>8. ASSUME NEW r \in DOMAIN reqs'
      PROVE  RequestFine(r, reqs'[r], adms')
  <2>1. ASSUME reqs'[r].own, reqs'[r].status \in UnderWay
        PROVE  \E i \in DOMAIN adms' : adms'[i].request = r /\ adms'[i].status \in Keeping
    <3>1. CASE r \in DOMAIN reqs /\ reqs[r].own /\ reqs[r].status \in UnderWay
      <4>1. PICK i \in DOMAIN adms : adms[i].request = r /\ adms[i].status \in Keeping
        BY <3>1 DEF IInv, RequestFine
      <4>2. adms'[i].request = r /\ adms'[i].status \in Keeping
        BY <1>2, <1>4, <3>1, <4>1 DEF k
      <4> QED  BY <1>2, <4>2
    <3>2. CASE b.request = r /\ b.status \in Keeping
      BY <1>1, <1>2, <3>2
    <3> QED  BY <2>1, <3>1, <3>2
  <2> QED  BY <2>1 DEF RequestFine
<1>9. ASSUME NEW o \in Callers
      PROVE  CallerFine(callers'[o], adms', reqs')
  <2>1. CASE o = p
    BY <1>3, <2>1
  <2>2. CASE o # p /\ callers[o].pc \in Engaged
    <3>1. callers[o].adm # k /\ CallerFine(callers[o], adms, reqs) /\ callers'[o] = callers[o]
      BY <1>3, <2>2 DEF IInv, Apart, k
    <3>2. callers[o].adm \in DOMAIN adms /\ adms'[callers[o].adm] = adms[callers[o].adm]
      BY <1>2, <2>2, <3>1 DEF CallerFine
    <3>3. \A r \in DOMAIN reqs : r \in DOMAIN reqs'
      OBVIOUS
    <3> QED  BY <1>2, <2>2, <3>1, <3>2, <3>3 DEF CallerFine, Engaged, Unbound
  <2>3. CASE o # p /\ callers[o].pc \notin Engaged
    BY <1>3, <2>3 DEF CallerFine, Engaged, Unbound
  <2> QED  BY <2>1, <2>2, <2>3
<1>10. ClaimIsWorkedOn'
  <2> SUFFICES ASSUME NEW i \in DOMAIN adms, Waiting(adms'[i]), ~booting, ~unrecovered
               PROVE  \E o \in Callers : callers'[o].adm = i /\ callers'[o].pc \in Unbound
    BY <1>2 DEF ClaimIsWorkedOn, Waiting, Unbound
  <2>1. CASE i = k
    BY <1>2, <1>3, <2>1 DEF k
  <2>2. CASE i # k
    <3>1. Waiting(adms[i])
      BY <1>2, <2>2
    <3>2. PICK o \in Callers : callers[o].adm = i /\ callers[o].pc \in Unbound
      BY <3>1 DEF IInv, ClaimIsWorkedOn, Waiting, Unbound
    <3> QED  BY <1>3, <2>2, <3>2 DEF k
  <2> QED  BY <2>1, <2>2
<1> QED  BY <1>5, <1>6, <1>7, <1>8, <1>9, <1>10 DEF IInv

\* A submission that finds its key free claims it.
LEMMA ClaimStep ==
  ASSUME IInv, NEW p \in Callers, Claim(p)
  PROVE  IInv'
<1> DEFINE c == callers[p].cand
           e == [status |-> "claimed", cand |-> c, rev |-> sub.rev, request |-> 0]
           n == Len(adms) + 1
<1>1. /\ callers[p].pc = "claim" /\ UNCHANGED <<sub, cands, reqs, library, booting, unrecovered, events>>
  BY DEF Claim
<1>2. CASE Leave(p) /\ UNCHANGED adms
  <2>1. callers' = [callers EXCEPT ![p] = IdleCaller] /\ callers' \in [Callers -> Caller]
    BY <1>2, IdleIsCaller, Types DEF Leave
  <2>2. AdmTypeOK'
    BY <1>1, <1>2, <2>1, Types DEF AdmTypeOK
  <2>3. CallerGoes(callers[p], IdleCaller) /\ callers[p].pc \notin Unbound
    BY <1>1, IdleIsCaller DEF CallerGoes, Unbound
  <2> QED  BY <1>1, <1>2, <2>1, <2>2, <2>3, SameIsCalm, SameIsSteady, OneCallerGoes
<1>3. CASE /\ Holders(adms, KeyOf[c]) = {} /\ adms' = Append(adms, e)
           /\ callers' = [callers EXCEPT ![p].pc = "begin", ![p].adm = Len(adms) + 1]
  <2> DEFINE d == [callers[p] EXCEPT !.pc = "begin", !.adm = n]
  <2>1. e \in Admission /\ e.status = "claimed" /\ e.cand = c /\ e.request = 0
    BY CallerType, Types DEF Caller, Admission, AdmissionStatuses, ActiveAdmission
  <2>2. adms' = Append(adms, e)
    BY <1>3
  <2> HIDE DEF e
  <2>3. /\ adms' \in Seq(Admission) /\ DOMAIN adms' = DOMAIN adms \cup {n} /\ n \notin DOMAIN adms
        /\ adms'[n] = e /\ (\A i \in DOMAIN adms : adms'[i] = adms[i]) /\ n \in Nat \ {0}
    BY <2>1, <2>2, Types, Appended
  <2>4. callers' = [callers EXCEPT ![p] = d]
    BY <1>3, Types
  <2> HIDE DEF n
  <2>5. d \in Caller /\ d.pc = "begin" /\ d.adm = n
    BY CallerType, <2>3 DEF Caller
  <2> HIDE DEF d
  <2>6. /\ callers' \in [Callers -> Caller] /\ callers'[p] = d
        /\ \A o \in Callers : o # p => callers'[o] = callers[o]
    BY <2>4, <2>5, Types
  <2>7. AdmTypeOK'
    BY <1>1, <2>3, <2>6, Types DEF AdmTypeOK
  <2>8. \A i \in DOMAIN adms : Active(adms[i]) => KeyOf[adms[i].cand] # KeyOf[c]
    BY <1>3 DEF Holders
  <2>9. UniqueKeys(adms)'
    BY <2>1, <2>3, <2>8 DEF IInv, UniqueKeys
  <2>10. Owned(reqs)'
    BY <1>1 DEF IInv
  <2>11. \A o \in Callers : callers[o].pc \in Engaged => callers[o].adm \in DOMAIN adms
    BY CallerType DEF CallerFine
  <2>12. Apart'
    BY <2>3, <2>5, <2>6, <2>11 DEF IInv, Apart
  <2>13. ClaimIsWorkedOn'
    <3> SUFFICES ASSUME NEW i \in DOMAIN adms', Waiting(adms'[i]), ~booting, ~unrecovered
                 PROVE  \E o \in Callers : callers'[o].adm = i /\ callers'[o].pc \in Unbound
      BY <1>1 DEF ClaimIsWorkedOn, Waiting, Unbound
    <3>1. CASE i = n
      BY <2>5, <2>6, <3>1 DEF Unbound
    <3>2. CASE i \in DOMAIN adms
      <4>1. PICK o \in Callers : callers[o].adm = i /\ callers[o].pc \in Unbound
        BY <2>3, <3>2 DEF IInv, ClaimIsWorkedOn, Waiting, Unbound
      <4>2. o # p
        BY <1>1, <4>1 DEF Unbound
      <4> QED  BY <2>6, <4>1, <4>2
    <3> QED  BY <2>3, <3>1, <3>2
  <2>14. \A i \in DOMAIN adms' : AdmissionFine(adms'[i])
    BY <2>1, <2>3 DEF IInv, AdmissionFine
  <2>15. \A r \in DOMAIN reqs' : RequestFine(r, reqs'[r], adms')
    BY <1>1, <2>3 DEF IInv, RequestFine
  <2>16. ASSUME NEW o \in Callers
         PROVE  CallerFine(callers'[o], adms', reqs')
    <3>1. CASE o = p
      BY <2>1, <2>3, <2>5, <2>6, <3>1 DEF CallerFine, Engaged, Unbound
    <3>2. CASE o # p
      <4>1. CallerFine(callers[o], adms, reqs) /\ callers'[o] = callers[o] /\ reqs' = reqs
        BY <1>1, <2>6, <3>2, CallerType
      <4>2. callers[o].pc \in Engaged =>
              callers[o].adm \in DOMAIN adms' /\ adms'[callers[o].adm] = adms[callers[o].adm]
        BY <2>3, <2>11
      <4> QED  BY <4>1, <4>2 DEF CallerFine, Engaged, Unbound
    <3> QED  BY <3>1, <3>2
  <2> QED  BY <2>7, <2>9, <2>10, <2>12, <2>13, <2>14, <2>15, <2>16 DEF IInv
<1> QED  BY <1>2, <1>3 DEF Claim

\* Only the requests of old are there.
LEMMA SameRequests ==
  ASSUME IInv, reqs' = reqs
  PROVE  /\ Owned(reqs') /\ DOMAIN reqs \subseteq DOMAIN reqs'
         /\ \A r \in DOMAIN reqs : reqs'[r].status = "pending" => reqs[r].status = "pending"
         /\ \A r \in DOMAIN reqs' :
              /\ reqs'[r].status = "pending" => ~reqs'[r].own
              /\ reqs'[r].own /\ reqs'[r].status \in UnderWay =>
                   r \in DOMAIN reqs /\ reqs[r].own /\ reqs[r].status \in UnderWay
  BY DEF IInv, RequestFine

LEMMA BeginDispatchStep ==
  ASSUME IInv, NEW p \in Callers, BeginDispatch(p)
  PROVE  IInv'
<1> DEFINE k == callers[p].adm
           a == adms[k]
<1>1. callers[p].pc = "begin" /\ UNCHANGED <<sub, cands, reqs, library, booting, unrecovered, events>>
  BY DEF BeginDispatch
<1>2. k \in DOMAIN adms /\ a.request = 0 /\ (Active(a) => a.status = "claimed") /\ a \in Admission
  BY <1>1, CallerType, AdmissionType DEF CallerFine, Engaged, Unbound
<1>3. CASE a.status = "claimed" /\ AdmissionBecomes(p, "dispatching") /\ Step(p, "begin", "submit")
  <2> DEFINE b == [a EXCEPT !.status = "dispatching"]
             d == [callers[p] EXCEPT !.pc = "submit"]
  <2>1. b \in Admission /\ b.status = "dispatching" /\ b.cand = a.cand /\ b.request = 0
    BY <1>2 DEF Admission, AdmissionStatuses, ActiveAdmission
  <2>2. adms' = [adms EXCEPT ![k] = b] /\ callers' = [callers EXCEPT ![p] = d]
    BY <1>3 DEF AdmissionBecomes, Step
  <2>3. d \in Caller /\ d.pc = "submit" /\ d.adm = k
    BY CallerType DEF Caller
  <2> HIDE DEF b, d
  <2>4. adms' \in Seq(Admission) /\ adms'[k] = b /\ DOMAIN adms' = DOMAIN adms
    BY <1>2, <2>1, <2>2, Types
  <2>5. callers' \in [Callers -> Caller]
    BY <2>2, <2>3, Types
  <2>6. AdmTypeOK'
    BY <1>1, <2>4, <2>5, Types DEF AdmTypeOK
  <2>7. CallerFine(d, adms', reqs')
    BY <1>2, <2>1, <2>3, <2>4 DEF CallerFine, Engaged, Unbound
  <2>8. /\ Active(b) => Active(a)
        /\ AdmissionFine(b)
        /\ a.status \in Keeping => b.status \in Keeping
    BY <1>3, <2>1 DEF Active, ActiveAdmission, AdmissionFine, Keeping
  <2>9. callers[p].pc \in Engaged /\ d.pc \in Engaged /\ d.pc \in Unbound
    BY <1>1, <2>3 DEF Engaged, Unbound
  <2> QED  BY <1>1, <1>2, <2>1, <2>2, <2>3, <2>6, <2>7, <2>8, <2>9, SameRequests, OwnStep
<1>4. CASE AdmissionBecomes(p, IF a.status = "claimed" THEN "cancelled" ELSE a.status) /\ Leave(p)
  <2> DEFINE status == IF a.status = "claimed" THEN "cancelled" ELSE a.status
  <2>1. status = "cancelled" \/ (status = a.status /\ ~Waiting(a))
    BY <1>2 DEF Waiting
  <2>2. AdmissionBecomes(p, status) /\ callers[p].pc \in Unbound
    BY <1>1, <1>4 DEF Unbound
  <2> HIDE DEF status
  <2> QED  BY <1>1, <1>4, <2>1, <2>2, EndsUnbound
<1> QED  BY <1>3, <1>4 DEF BeginDispatch

LEMMA OwnerFacts ==
  ASSUME IInv, NEW res
  PROVE  Owner(res) # 0 => Owner(res) \in DOMAIN reqs /\ reqs[Owner(res)].res = res
  BY DEF Owner

LEMMA LookupStep ==
  ASSUME IInv, NEW p \in Callers, Lookup(p)
  PROVE  IInv'
<1> DEFINE k == callers[p].adm
           a == adms[k]
           r == Owner(ResourceOf[callers[p].cand])
           seen == IF r = 0 THEN "none" ELSE reqs[r].status
<1>1. callers[p].pc = "submit" /\ UNCHANGED <<sub, cands, reqs, library, booting, unrecovered, events>>
  BY DEF Lookup
<1>2. k \in DOMAIN adms /\ a.request = 0 /\ a.status # "claimed" /\ a \in Admission
      /\ AdmissionFine(a)
  BY <1>1, CallerType, AdmissionType DEF CallerFine, Engaged, Unbound
<1>3. CASE UNCHANGED adms /\ callers' = [callers EXCEPT ![p].pc = "bind", ![p].request = r, ![p].seen = seen]
  <2> DEFINE d == [callers[p] EXCEPT !.pc = "bind", !.request = r, !.seen = seen]
  <2>1. r \in Nat /\ (r # 0 => r \in DOMAIN reqs /\ reqs[r] \in Request)
    BY OwnerFacts, Types, SeqIsFunction, RequestType
  <2>2. seen \in RequestStatuses \cup {"none"} /\ (seen # "none" => r \in DOMAIN reqs)
    BY <2>1 DEF Request
  <2>3. callers' = [callers EXCEPT ![p] = d]
    BY <1>3
  <2> HIDE DEF r, seen
  <2>4. /\ d \in Caller /\ d.pc = "bind" /\ d.adm = k /\ d.request = r /\ d.seen = seen
    BY <2>1, <2>2, CallerType DEF Caller
  <2> HIDE DEF d
  <2>5. callers' \in [Callers -> Caller]
    BY <2>3, <2>4, Types
  <2>6. AdmTypeOK'
    BY <1>1, <1>3, <2>5, Types DEF AdmTypeOK
  <2>7. CallerFine(d, adms', reqs')
    BY <1>1, <1>2, <1>3, <2>2, <2>4 DEF CallerFine, Engaged, Unbound
  <2>8. adms' = [adms EXCEPT ![k] = a]
    BY <1>2, <1>3, Types
  <2>9. callers[p].pc \in Engaged /\ d.pc \in Engaged /\ d.pc \in Unbound
    BY <1>1, <2>4 DEF Engaged, Unbound
  <2> QED  BY <1>1, <1>2, <2>3, <2>4, <2>6, <2>7, <2>8, <2>9, SameRequests, OwnStep
<1>4. CASE Fail(p)
  BY <1>1, <1>4, FailStep
<1> QED  BY <1>3, <1>4 DEF Lookup

\* The caller's admission is bound to a request r.
LEMMA BoundEntry ==
  ASSUME NEW a \in Admission, NEW r \in Nat \ {0}, Bindable(a, r), NEW b, b = [a EXCEPT !.request = r]
  PROVE  /\ b \in Admission /\ b.cand = a.cand /\ b.request = r /\ b.status = a.status
         /\ b.status \in Keeping /\ b.status # "claimed"
         /\ Active(b) => Active(a)
         /\ AdmissionFine(b) /\ ~Waiting(b)
         /\ a.request # 0 => b.request = a.request
<1>1. b \in Admission /\ b.cand = a.cand /\ b.request = r /\ b.status = a.status
  BY DEF Admission
<1>2. a.status \in ActiveAdmission \ {"claimed"} /\ (a.request # 0 => a.request = r)
  BY DEF Bindable, ActiveAdmission
<1> QED  BY <1>1, <1>2 DEF Keeping, Active, AdmissionFine, Waiting

LEMMA BindExistingStep ==
  ASSUME IInv, NEW p \in Callers, BindExisting(p)
  PROVE  IInv'
<1> DEFINE k == callers[p].adm
           a == adms[k]
           r == callers[p].request
           pc == IF callers[p].seen = "pending" THEN "dispatch" ELSE "settle"
<1>1. /\ callers[p].pc = "bind" /\ callers[p].seen # "none"
      /\ UNCHANGED <<sub, cands, reqs, library, booting, unrecovered, events>>
  BY DEF BindExisting
<1>2. k \in DOMAIN adms /\ a \in Admission /\ r \in DOMAIN reqs /\ r \in Nat \ {0}
  <2>1. k \in DOMAIN adms /\ r \in DOMAIN reqs
    BY <1>1, CallerType DEF CallerFine, Engaged, Unbound
  <2> QED  BY <2>1, AdmissionType, Types, SeqIsFunction
<1>3. CASE /\ Bindable(a, r) /\ adms' = [adms EXCEPT ![k].request = r]
           /\ callers' = [callers EXCEPT ![p].pc = pc, ![p].accepted = TRUE]
  <2> DEFINE b == [a EXCEPT !.request = r]
             d == [callers[p] EXCEPT !.pc = pc, !.accepted = TRUE]
  <2>1. adms' = [adms EXCEPT ![k] = b] /\ callers' = [callers EXCEPT ![p] = d]
    BY <1>3
  <2>2. b = [a EXCEPT !.request = r]
    OBVIOUS
  <2>3. d \in Caller /\ d.pc \in {"dispatch", "settle"} /\ d.adm = k /\ d.request = r
    BY CallerType DEF Caller
  <2> HIDE DEF b, d
  <2>4. /\ b \in Admission /\ b.cand = a.cand /\ b.request = r /\ b.status = a.status
        /\ b.status \in Keeping /\ b.status # "claimed" /\ (Active(b) => Active(a))
        /\ AdmissionFine(b) /\ ~Waiting(b) /\ (a.request # 0 => b.request = a.request)
    BY <1>2, <1>3, <2>2, BoundEntry
  <2>5. adms' \in Seq(Admission) /\ adms'[k] = b /\ DOMAIN adms' = DOMAIN adms
    BY <1>2, <2>1, <2>4, Types
  <2>6. callers' \in [Callers -> Caller]
    BY <2>1, <2>3, Types
  <2>7. AdmTypeOK'
    BY <1>1, <2>5, <2>6, Types DEF AdmTypeOK
  <2>8. CallerFine(d, adms', reqs')
    BY <1>1, <1>2, <2>3, <2>4, <2>5 DEF CallerFine, Engaged, Unbound
  <2>9. callers[p].pc \in Engaged /\ d.pc \in Engaged
    BY <1>1, <2>3 DEF Engaged
  <2> QED  BY <1>1, <1>2, <2>1, <2>3, <2>4, <2>7, <2>8, <2>9, SameRequests, OwnStep
<1>4. CASE Fail(p)
  BY <1>1, <1>4, FailStep
<1> QED  BY <1>3, <1>4 DEF BindExisting

\* A new row takes over the identity of its resource.
LEMMA SucceededFacts ==
  ASSUME IInv, NEW q \in Request, q.current = TRUE, NEW rs, rs = Succeeded(reqs, q)
  PROVE  /\ rs \in Seq(Request) /\ Owned(rs)
         /\ DOMAIN rs = DOMAIN reqs \cup {Len(reqs) + 1} /\ Len(reqs) + 1 \notin DOMAIN reqs
         /\ Len(reqs) + 1 \in Nat \ {0} /\ rs[Len(reqs) + 1] = q
         /\ \A r \in DOMAIN reqs : rs[r].status = reqs[r].status /\ rs[r].own = reqs[r].own
<1> DEFINE old == [r \in DOMAIN reqs |-> IF reqs[r].res = q.res THEN [reqs[r] EXCEPT !.current = FALSE]
                                         ELSE reqs[r]]
           n == Len(reqs) + 1
<1>1. reqs \in Seq(Request) /\ reqs \in [DOMAIN reqs -> Request]
  BY Types, SeqIsFunction
<1>2. ASSUME NEW r \in DOMAIN reqs
      PROVE  /\ old[r] \in Request /\ old[r].status = reqs[r].status /\ old[r].own = reqs[r].own
             /\ old[r].res = reqs[r].res /\ (reqs[r].res # q.res => old[r].current = reqs[r].current)
  <2>1. reqs[r] \in Request
    BY <1>1
  <2>2. old[r] = reqs[r] \/ (old[r] = [reqs[r] EXCEPT !.current = FALSE] /\ reqs[r].res = q.res)
    OBVIOUS
  <2> HIDE DEF old
  <2> QED  BY <2>1, <2>2 DEF Request
<1>3. old \in [DOMAIN reqs -> Request]
  BY <1>2
<1>4. old \in Seq(Request) /\ DOMAIN old = DOMAIN reqs /\ Len(old) = Len(reqs)
  BY <1>1, <1>3, FunctionIsSeq
<1>5. rs = Append(old, q)
  BY DEF Succeeded
<1> HIDE DEF old
<1>6. /\ rs \in Seq(Request) /\ DOMAIN rs = DOMAIN reqs \cup {n} /\ n \notin DOMAIN reqs
      /\ rs[n] = q /\ (\A r \in DOMAIN reqs : rs[r] = old[r]) /\ n \in Nat \ {0}
  BY <1>4, <1>5, Appended
<1> HIDE DEF n
<1>7. ASSUME NEW r \in DOMAIN rs
      PROVE  \E s \in DOMAIN rs : rs[s].current /\ rs[s].res = rs[r].res
  <2>1. CASE rs[r].res = q.res
    BY <1>6, <2>1
  <2>2. CASE rs[r].res # q.res
    <3>1. r \in DOMAIN reqs /\ rs[r].res = reqs[r].res
      BY <1>2, <1>6, <2>2
    <3>2. PICK s \in DOMAIN reqs : reqs[s].current /\ reqs[s].res = reqs[r].res
      BY <3>1 DEF IInv, Owned
    <3> QED  BY <1>2, <1>6, <2>2, <3>1, <3>2
  <2> QED  BY <2>1, <2>2
<1>8. Owned(rs)
  BY <1>7 DEF Owned
<1> QED  BY <1>2, <1>6, <1>8 DEF n

LEMMA ResourceType ==
  ASSUME NEW c \in Candidates
  PROVE  ResourceOf[c] \in Resources /\ KeyOf[c] \in Keys
  BY DEF Resources, Keys

LEMMA CreateRequestStep ==
  ASSUME IInv, NEW p \in Callers, CreateRequest(p)
  PROVE  IInv'
<1> DEFINE k == callers[p].adm
           a == adms[k]
           res == ResourceOf[callers[p].cand]
           owner == Owner(res)
           reused == owner # 0 /\ reqs[owner].status \notin Over
           r == IF reused THEN owner ELSE Len(reqs) + 1
           q == NewRequest(res, "pending", FALSE, 0)
<1>1. callers[p].pc = "bind" /\ UNCHANGED <<sub, cands, library, booting, unrecovered, events>>
  BY DEF CreateRequest
<1>2. k \in DOMAIN adms /\ a \in Admission /\ callers[p] \in Caller
  BY <1>1, CallerType, AdmissionType DEF CallerFine, Engaged, Unbound
<1>3. q \in Request /\ q.status = "pending" /\ ~q.own /\ q.current = TRUE
  <2>1. res \in Resources
    BY <1>2, ResourceType DEF Caller
  <2> HIDE DEF res
  <2> QED  BY <2>1 DEF NewRequest, Request, RequestStatuses
<1> HIDE DEF q
<1>4. CASE /\ Bindable(a, r) /\ adms' = [adms EXCEPT ![k].request = r]
           /\ reqs' = IF reused THEN reqs ELSE Succeeded(reqs, q)
           /\ callers' = [callers EXCEPT ![p].pc = "dispatch", ![p].request = r]
  <2>1. /\ reqs' \in Seq(Request) /\ Owned(reqs') /\ DOMAIN reqs \subseteq DOMAIN reqs'
        /\ r \in DOMAIN reqs' /\ r \in Nat \ {0}
        /\ \A s \in DOMAIN reqs : reqs'[s].status = "pending" => reqs[s].status = "pending"
        /\ \A s \in DOMAIN reqs' :
              /\ reqs'[s].status = "pending" => ~reqs'[s].own
              /\ reqs'[s].own /\ reqs'[s].status \in UnderWay =>
                   s \in DOMAIN reqs /\ reqs[s].own /\ reqs[s].status \in UnderWay
    <3>1. CASE reused
      <4>1. reqs' = reqs /\ r = owner /\ owner \in DOMAIN reqs
        BY <1>4, <3>1, OwnerFacts
      <4>2. owner \in Nat \ {0}
        BY <4>1, Types, SeqIsFunction
      <4> HIDE DEF owner, r
      <4> QED  BY <4>1, <4>2, Types, SameRequests
    <3>2. CASE ~reused
      <4> DEFINE n == Len(reqs) + 1
      <4>1. reqs' = Succeeded(reqs, q) /\ r = n
        BY <1>4, <3>2
      <4> HIDE DEF r
      <4>2. /\ reqs' \in Seq(Request) /\ Owned(reqs')
            /\ DOMAIN reqs' = DOMAIN reqs \cup {n} /\ n \notin DOMAIN reqs /\ n \in Nat \ {0}
            /\ reqs'[n] = q
            /\ \A s \in DOMAIN reqs : reqs'[s].status = reqs[s].status /\ reqs'[s].own = reqs[s].own
        <5>1. \A rs : rs = Succeeded(reqs, q) =>
                 /\ rs \in Seq(Request) /\ Owned(rs)
                 /\ DOMAIN rs = DOMAIN reqs \cup {n} /\ n \notin DOMAIN reqs /\ n \in Nat \ {0}
                 /\ rs[n] = q
                 /\ \A s \in DOMAIN reqs : rs[s].status = reqs[s].status /\ rs[s].own = reqs[s].own
          BY <1>3, SucceededFacts, ZenonT(60)
        <5> HIDE DEF n
        <5> QED  BY <4>1, <5>1
      <4> HIDE DEF n
      <4>3. \A s \in DOMAIN reqs : reqs[s].status = "pending" => ~reqs[s].own
        BY DEF IInv, RequestFine
      <4> QED  BY <1>3, <4>1, <4>2, <4>3
    <3> QED  BY <3>1, <3>2
  <2> DEFINE b == [a EXCEPT !.request = r]
             d == [callers[p] EXCEPT !.pc = "dispatch", !.request = r]
  <2>2. adms' = [adms EXCEPT ![k] = b] /\ callers' = [callers EXCEPT ![p] = d] /\ Bindable(a, r)
    BY <1>4
  <2>3. b = [a EXCEPT !.request = r]
    OBVIOUS
  <2> HIDE DEF r
  <2>4. d \in Caller /\ d.pc = "dispatch" /\ d.adm = k /\ d.request = r
    BY <1>2, <2>1 DEF Caller
  <2> HIDE DEF b, d
  <2>5. /\ b \in Admission /\ b.cand = a.cand /\ b.request = r /\ b.status = a.status
        /\ b.status \in Keeping /\ b.status # "claimed" /\ (Active(b) => Active(a))
        /\ AdmissionFine(b) /\ ~Waiting(b) /\ (a.request # 0 => b.request = a.request)
    BY <1>2, <2>1, <2>2, <2>3, BoundEntry
  <2>6. adms' \in Seq(Admission) /\ adms'[k] = b /\ DOMAIN adms' = DOMAIN adms
    BY <1>2, <2>2, <2>5, Types
  <2>7. callers' \in [Callers -> Caller]
    BY <2>2, <2>4, Types
  <2>8. AdmTypeOK'
    BY <1>1, <2>1, <2>6, <2>7, Types DEF AdmTypeOK
  <2>9. CallerFine(d, adms', reqs')
    BY <1>2, <2>1, <2>4, <2>5, <2>6 DEF CallerFine, Engaged, Unbound
  <2>10. callers[p].pc \in Engaged /\ d.pc \in Engaged
    BY <1>1, <2>4 DEF Engaged
  <2> QED  BY <1>1, <1>2, <2>1, <2>2, <2>4, <2>5, <2>8, <2>9, <2>10, OwnStep
<1>5. CASE Fail(p) /\ UNCHANGED reqs
  BY <1>1, <1>5, FailStep
<1>6. \/ /\ Bindable(a, r) /\ adms' = [adms EXCEPT ![k].request = r]
         /\ reqs' = IF reused THEN reqs ELSE Succeeded(reqs, q)
         /\ callers' = [callers EXCEPT ![p].pc = "dispatch", ![p].request = r]
      \/ Fail(p) /\ UNCHANGED reqs
  BY DEF CreateRequest, q
<1> QED  BY <1>4, <1>5, <1>6

LEMMA DispatchStep ==
  ASSUME IInv, NEW p \in Callers, Dispatch(p)
  PROVE  IInv'
<1> DEFINE k == callers[p].adm
           a == adms[k]
           r == callers[p].request
<1>1. /\ callers[p].pc = "dispatch"
      /\ UNCHANGED <<sub, cands, adms, library, booting, unrecovered, events>>
  BY DEF Dispatch
<1>2. /\ k \in DOMAIN adms /\ a \in Admission /\ AdmissionFine(a) /\ r \in DOMAIN reqs
      /\ reqs[r].status = "pending" => a.request = r /\ a.status \in Keeping
  BY <1>1, CallerType, AdmissionType DEF CallerFine, Engaged, Unbound
<1>3. CASE /\ reqs[r].status = "pending" /\ Step(p, "dispatch", "send")
           /\ reqs' = [reqs EXCEPT ![r].status = "submitting", ![r].own = TRUE]
  <2> DEFINE d == [callers[p] EXCEPT !.pc = "send"]
             q == [reqs[r] EXCEPT !.status = "submitting", !.own = TRUE]
  <2>1. callers' = [callers EXCEPT ![p] = d] /\ reqs' = [reqs EXCEPT ![r] = q]
    BY <1>3 DEF Step
  <2>2. d \in Caller /\ d.pc = "send" /\ d.adm = k /\ d.request = r
    BY CallerType DEF Caller
  <2>3. /\ q \in Request /\ q.status = "submitting" /\ q.own = TRUE /\ q.res = reqs[r].res
        /\ q.current = reqs[r].current
    BY <1>2, RequestType DEF Request, RequestStatuses
  <2> HIDE DEF d, q
  <2>4. callers' \in [Callers -> Caller]
    BY <2>1, <2>2, Types
  <2>5. reqs' \in Seq(Request) /\ DOMAIN reqs' = DOMAIN reqs /\ reqs'[r] = q
        /\ \A s \in DOMAIN reqs : s # r => reqs'[s] = reqs[s]
    BY <1>2, <2>1, <2>3, Types
  <2>6. AdmTypeOK'
    BY <1>1, <2>4, <2>5, Types DEF AdmTypeOK
  <2>7. CallerFine(d, adms', reqs')
    BY <1>1, <1>2, <2>2, <2>5 DEF CallerFine, Engaged, Unbound
  <2>8. /\ adms' = [adms EXCEPT ![k] = a] /\ callers[p].pc \in Engaged /\ d.pc \in Engaged
    BY <1>1, <1>2, <2>2, Types DEF Engaged
  <2>9. Owned(reqs')
    <3>1. \A s \in DOMAIN reqs : reqs'[s].current = reqs[s].current /\ reqs'[s].res = reqs[s].res
      BY <2>3, <2>5
    <3> QED  BY <2>5, <3>1 DEF IInv, Owned
  <2>10. ~Waiting(a) /\ a.request = r /\ a.status \in Keeping
    <3>1. r # 0
      BY <1>2, Types, SeqIsFunction
    <3> QED  BY <1>2, <1>3, <3>1 DEF Waiting
  <2>11. \A s \in DOMAIN reqs' :
            /\ reqs'[s].status = "pending" => ~reqs'[s].own
            /\ reqs'[s].own /\ reqs'[s].status \in UnderWay =>
                 \/ s \in DOMAIN reqs /\ reqs[s].own /\ reqs[s].status \in UnderWay
                 \/ a.request = s /\ a.status \in Keeping
    BY <2>3, <2>5, <2>10 DEF IInv, RequestFine
  <2>12. DOMAIN reqs \subseteq DOMAIN reqs'
         /\ \A s \in DOMAIN reqs : reqs'[s].status = "pending" => reqs[s].status = "pending"
    BY <2>3, <2>5
  <2> QED  BY <1>1, <1>2, <2>1, <2>2, <2>6, <2>7, <2>8, <2>9, <2>10, <2>11, <2>12, OwnStep
<1>4. CASE UNCHANGED reqs /\ callers' = [callers EXCEPT ![p].pc = "settle", ![p].accepted = TRUE]
  <2> DEFINE d == [callers[p] EXCEPT !.pc = "settle", !.accepted = TRUE]
  <2>1. callers' = [callers EXCEPT ![p] = d]
    BY <1>4
  <2>2. d \in Caller /\ d.pc = "settle" /\ d.adm = k /\ d.request = r
    BY CallerType DEF Caller
  <2> HIDE DEF d
  <2>3. callers' \in [Callers -> Caller]
    BY <2>1, <2>2, Types
  <2>4. AdmTypeOK'
    BY <1>1, <1>4, <2>3, Types DEF AdmTypeOK
  <2>5. CallerGoes(callers[p], d) /\ callers[p].pc \notin Unbound
    BY <1>1, <2>2 DEF CallerGoes, Engaged, Unbound
  <2> QED  BY <1>1, <1>4, <2>1, <2>4, <2>5, SameIsCalm, SameIsSteady, OneCallerGoes
<1> QED  BY <1>3, <1>4 DEF Dispatch

\* A caller whose request is known goes on to settle.
LEMMA Settles ==
  ASSUME IInv, NEW p \in Callers, callers[p].pc \in Engaged \ Unbound,
         NEW d \in Caller, callers' = [callers EXCEPT ![p] = d],
         \/ d.pc \in {"settle", "sync"} /\ d.adm = callers[p].adm /\ d.request = callers[p].request
         \/ d.pc \notin Engaged,
         cands' \in [Candidates -> [status : {"available", "expired", "submitted"}, request : Nat]],
         reqs' \in Seq(Request), Steady(reqs, reqs'),
         adms' \in Seq(Admission), Calm(adms, adms', reqs'),
         UNCHANGED <<sub, library, booting, unrecovered, events>>
  PROVE  IInv'
<1>1. callers' \in [Callers -> Caller]
  BY Types
<1>2. AdmTypeOK'
  BY <1>1, Types DEF AdmTypeOK
<1>3. CallerGoes(callers[p], d)
  BY DEF CallerGoes
<1> QED  BY <1>2, <1>3, OneCallerGoes

LEMMA SendStep ==
  ASSUME IInv, NEW p \in Callers, Send(p)
  PROVE  IInv'
<1> DEFINE r == callers[p].request
<1>1. callers[p].pc = "send" /\ UNCHANGED <<sub, cands, library, booting, unrecovered, events>>
  BY DEF Send
<1>2. r \in DOMAIN reqs /\ callers[p].pc \in Engaged \ Unbound
  BY <1>1, CallerType DEF CallerFine, Engaged, Unbound
<1>3. ASSUME reqs[r].status = "submitting", NEW answer \in Answers,
             Becomes(r, [reqs[r] EXCEPT !.status = answer]),
             callers' = [callers EXCEPT ![p].pc = "settle", ![p].accepted = answer # "failed"]
      PROVE  IInv'
  <2> DEFINE d == [callers[p] EXCEPT !.pc = "settle", !.accepted = (answer # "failed")]
             q == [reqs[r] EXCEPT !.status = answer]
  <2>1. callers' = [callers EXCEPT ![p] = d] /\ Becomes(r, q)
    BY <1>3
  <2>2. d \in Caller /\ d.pc = "settle" /\ d.adm = callers[p].adm /\ d.request = r
    BY CallerType DEF Caller
  <2>3. /\ q \in Request /\ q.status = answer /\ q.own = reqs[r].own /\ q.res = reqs[r].res
        /\ q.current = reqs[r].current
    BY <1>2, <1>3, RequestType DEF Request, RequestStatuses, Answers, Over, Retryable
  <2> HIDE DEF d, q
  <2>4. reqs' = [reqs EXCEPT ![r] = q] /\ adms' = Synced(adms, reqs', {r})
    BY <2>1 DEF Becomes
  <2>5. reqs' \in Seq(Request) /\ Steady(reqs, reqs')
    BY <1>2, <1>3, <2>3, <2>4, RequestEntry DEF UnderWay, Answers
  <2>6. adms' \in Seq(Admission) /\ Calm(adms, adms', reqs')
    BY <2>4, Types, SyncedCalm
  <2> QED  BY <1>1, <1>2, <2>1, <2>2, <2>5, <2>6, Types, Settles
<1>4. ASSUME UNCHANGED <<adms, reqs>>, callers' = [callers EXCEPT ![p].pc = "settle", ![p].accepted = TRUE]
      PROVE  IInv'
  <2> DEFINE d == [callers[p] EXCEPT !.pc = "settle", !.accepted = TRUE]
  <2>1. callers' = [callers EXCEPT ![p] = d]
    BY <1>4
  <2>2. d \in Caller /\ d.pc = "settle" /\ d.adm = callers[p].adm /\ d.request = r
    BY CallerType DEF Caller
  <2> HIDE DEF d
  <2> QED  BY <1>1, <1>2, <1>4, <2>1, <2>2, Types, SameIsCalm, SameIsSteady, Settles
<1> QED  BY <1>3, <1>4 DEF Send

LEMMA SettleStep ==
  ASSUME IInv, NEW p \in Callers, Settle(p)
  PROVE  IInv'
<1> DEFINE r == callers[p].request
           c == callers[p].cand
           d == [callers[p] EXCEPT !.pc = "sync"]
<1>1. /\ callers[p].pc = "settle" /\ UNCHANGED <<sub, reqs, library, booting, unrecovered, events>>
      /\ \/ Leave(p) /\ UNCHANGED <<cands, adms>>
         \/ adms' = Synced(adms, reqs, {r}) /\ Leave(p) /\ UNCHANGED cands
         \/ /\ cands' = IF callers[p].accepted
                        THEN [cands EXCEPT ![c] = [status |-> "submitted", request |-> r]]
                        ELSE cands
            /\ Step(p, "settle", "sync") /\ UNCHANGED adms
  BY DEF Settle
<1>2. callers[p].pc \in Engaged \ Unbound /\ callers[p] \in Caller
  BY <1>1, CallerType DEF Engaged, Unbound
<1>3. d \in Caller /\ d.pc = "sync" /\ d.adm = callers[p].adm /\ d.request = r
  BY <1>2 DEF Caller
<1>4. cands' \in [Candidates -> [status : {"available", "expired", "submitted"}, request : Nat]]
  <2>1. c \in Candidates /\ r \in Nat
    BY <1>2 DEF Caller
  <2>2. cands' = cands \/ cands' = [cands EXCEPT ![c] = [status |-> "submitted", request |-> r]]
    BY <1>1
  <2>3. [status |-> "submitted", request |-> r]
          \in [status : {"available", "expired", "submitted"}, request : Nat]
    BY <2>1
  <2> HIDE DEF c, r
  <2> QED  BY <2>2, <2>3, Types
<1>5. adms' \in Seq(Admission) /\ Calm(adms, adms', reqs')
  <2>1. adms' = adms \/ adms' = Synced(adms, reqs', {r})
    BY <1>1
  <2> QED  BY <2>1, Types, SameIsCalm, SyncedCalm
<1>6. CASE Leave(p)
  BY <1>1, <1>2, <1>4, <1>5, <1>6, IdleIsCaller, Types, SameIsSteady, Settles DEF Leave
<1>7. CASE Step(p, "settle", "sync")
  <2>1. callers' = [callers EXCEPT ![p] = d]
    BY <1>7 DEF Step
  <2> HIDE DEF d
  <2> QED  BY <1>1, <1>2, <1>3, <1>4, <1>5, <2>1, Types, SameIsSteady, Settles
<1> QED  BY <1>1, <1>6, <1>7

LEMMA SyncResultStep ==
  ASSUME IInv, NEW p \in Callers, SyncResult(p)
  PROVE  IInv'
<1>1. /\ callers[p].pc \in Engaged \ Unbound /\ Leave(p)
      /\ adms' = Synced(adms, reqs, {callers[p].request})
      /\ UNCHANGED <<sub, cands, reqs, library, booting, unrecovered, events>>
  BY DEF SyncResult, Engaged, Unbound
<1>2. adms' \in Seq(Admission) /\ Calm(adms, adms', reqs')
  BY <1>1, Types, SyncedCalm
<1> QED  BY <1>1, <1>2, IdleIsCaller, Types, SameIsSteady, Settles DEF Leave

-----------------------------------------------------------------------------
(* The steps that take admissions up again, and restarts.                  *)

\* The failed admissions F are taken up for a request; the others are calm.
LEMMA TakenUp ==
  ASSUME IInv, AdmTypeOK', UNCHANGED <<callers, booting, unrecovered>>,
         DOMAIN adms' = DOMAIN adms, NEW F \in SUBSET DOMAIN adms,
         \A i \in DOMAIN adms \ F : CalmEntry(adms[i], adms'[i], reqs'),
         \A i \in F : /\ adms[i].status = "failed" /\ adms[i].request # 0
                      /\ adms'[i].cand = adms[i].cand /\ adms'[i].request # 0
                      /\ adms'[i].status # "claimed"
         ,
         \A i \in F : \A j \in F \cup Holders(adms, KeyOf[adms[i].cand]) :
            KeyOf[adms[j].cand] = KeyOf[adms[i].cand] => j = i,
         Owned(reqs'), DOMAIN reqs \subseteq DOMAIN reqs',
         \A r \in DOMAIN reqs : reqs'[r].status = "pending" => reqs[r].status = "pending",
         \A r \in DOMAIN reqs' :
            /\ reqs'[r].status = "pending" => ~reqs'[r].own
            /\ reqs'[r].own /\ reqs'[r].status \in UnderWay =>
                 \/ r \in DOMAIN reqs /\ reqs[r].own /\ reqs[r].status \in UnderWay
                 \/ \E i \in F : adms'[i].request = r /\ adms'[i].status \in Keeping
  PROVE  IInv'
<1>1. 0 \notin DOMAIN reqs
  BY Types, SeqIsFunction
<1>2. UniqueKeys(adms)'
  <2> SUFFICES ASSUME NEW i \in DOMAIN adms, NEW j \in DOMAIN adms,
                      Active(adms'[i]), Active(adms'[j]), KeyOf[adms'[i].cand] = KeyOf[adms'[j].cand]
               PROVE  i = j
    BY DEF UniqueKeys
  <2>1. \A m \in DOMAIN adms : adms'[m].cand = adms[m].cand
    BY DEF CalmEntry
  <2>2. \A m \in DOMAIN adms \ F : Active(adms'[m]) => Active(adms[m])
    BY DEF CalmEntry
  <2>3. \A m \in DOMAIN adms : \A o \in DOMAIN adms :
          m \in F /\ Active(adms'[o]) /\ KeyOf[adms[o].cand] = KeyOf[adms[m].cand] => o = m
    BY <2>2 DEF Holders
  <2>4. KeyOf[adms[i].cand] = KeyOf[adms[j].cand]
    BY <2>1
  <2>5. CASE i \in F \/ j \in F
    BY <2>3, <2>4, <2>5
  <2>6. CASE i \notin F /\ j \notin F
    BY <2>2, <2>4, <2>6 DEF IInv, UniqueKeys
  <2> QED  BY <2>5, <2>6
<1>3. Apart'
  BY DEF IInv, Apart
<1>4. ASSUME NEW i \in DOMAIN adms
      PROVE  AdmissionFine(adms'[i])
  <2>1. CASE i \in F
    BY <2>1 DEF AdmissionFine, Waiting
  <2>2. CASE i \notin F
    <3>1. AdmissionFine(adms[i]) /\ CalmEntry(adms[i], adms'[i], reqs')
      BY <2>2 DEF IInv
    <3> QED  BY <3>1 DEF AdmissionFine, CalmEntry, Waiting
  <2> QED  BY <2>1, <2>2
<1>5. ASSUME NEW r \in DOMAIN reqs'
      PROVE  RequestFine(r, reqs'[r], adms')
  <2>1. ASSUME reqs'[r].own, reqs'[r].status \in UnderWay
        PROVE  \E i \in DOMAIN adms' : adms'[i].request = r /\ adms'[i].status \in Keeping
    <3>1. CASE r \in DOMAIN reqs /\ reqs[r].own /\ reqs[r].status \in UnderWay
      <4>1. PICK i \in DOMAIN adms : adms[i].request = r /\ adms[i].status \in Keeping
        BY <3>1 DEF IInv, RequestFine
      <4>2. i \notin F
        BY <4>1 DEF Keeping, ActiveAdmission
      <4>3. adms'[i].request = r /\ adms'[i].status \in Keeping
        BY <1>1, <2>1, <3>1, <4>1, <4>2 DEF CalmEntry
      <4> QED  BY <4>3
    <3>2. CASE \E i \in F : adms'[i].request = r /\ adms'[i].status \in Keeping
      BY <3>2
    <3> QED  BY <2>1, <3>1, <3>2
  <2> QED  BY <2>1 DEF RequestFine
<1>6. ASSUME NEW p \in Callers
      PROVE  CallerFine(callers'[p], adms', reqs')
  <2>1. CallerFine(callers[p], adms, reqs) /\ callers' = callers
    BY CallerType
  <2>2. CASE callers[p].pc \notin Engaged
    BY <2>1, <2>2 DEF CallerFine, Engaged, Unbound
  <2>3. CASE callers[p].pc \in Engaged
    <3> DEFINE k == callers[p].adm
    <3>1. k \in DOMAIN adms /\ k \in DOMAIN adms'
      BY <2>1, <2>3 DEF CallerFine
    <3>2. CASE k \in F
      <4>1. callers[p].pc \notin Unbound /\ adms[k].status \notin Keeping
        BY <2>1, <3>2 DEF CallerFine, Keeping, ActiveAdmission
      <4>2. callers[p].request \in DOMAIN reqs
        BY <2>1, <2>3, <4>1 DEF CallerFine
      <4>3. callers[p].pc = "dispatch" => reqs'[callers[p].request].status # "pending"
        BY <2>1, <4>1, <4>2 DEF CallerFine
      <4> QED  BY <2>1, <3>1, <4>1, <4>2, <4>3 DEF CallerFine, Unbound
    <3>3. CASE k \notin F
      <4>1. CalmEntry(adms[k], adms'[k], reqs')
        BY <3>1, <3>3
      <4>2. callers[p].pc \in Unbound => adms'[k].request = 0
        BY <2>1, <4>1 DEF CallerFine, CalmEntry
      <4>3. callers[p].pc = "begin" /\ Active(adms'[k]) => adms'[k].status = "claimed"
        BY <2>1, <4>1, <4>2 DEF CallerFine, CalmEntry, Waiting, Unbound
      <4>4. callers[p].pc \in {"submit", "bind"} => adms'[k].status # "claimed"
        BY <2>1, <4>1 DEF CallerFine, CalmEntry
      <4>5. /\ callers[p].pc = "bind" /\ callers[p].seen # "none" => callers[p].request \in DOMAIN reqs'
            /\ callers[p].pc \in Engaged \ Unbound => callers[p].request \in DOMAIN reqs'
        BY <2>1 DEF CallerFine
      <4>6. ASSUME callers[p].pc = "dispatch", reqs'[callers[p].request].status = "pending"
            PROVE  adms'[k].request = callers[p].request /\ adms'[k].status \in Keeping
        <5>1. callers[p].request \in DOMAIN reqs
          BY <2>1, <4>6 DEF CallerFine, Engaged, Unbound
        <5>2. reqs[callers[p].request].status = "pending" /\ callers[p].request # 0
          BY <1>1, <4>6, <5>1
        <5> QED  BY <2>1, <4>1, <4>6, <5>2 DEF CallerFine, CalmEntry
      <4> QED  BY <2>1, <2>3, <3>1, <4>2, <4>3, <4>4, <4>5, <4>6 DEF CallerFine
    <3> QED  BY <3>2, <3>3
  <2> QED  BY <2>2, <2>3
<1>7. ClaimIsWorkedOn'
  <2> SUFFICES ASSUME NEW i \in DOMAIN adms, Waiting(adms'[i]), ~booting, ~unrecovered
               PROVE  \E p \in Callers : callers[p].adm = i /\ callers[p].pc \in Unbound
    BY DEF ClaimIsWorkedOn, Waiting, Unbound
  <2>1. i \notin F
    BY DEF Waiting
  <2>2. Waiting(adms[i])
    BY <2>1 DEF Waiting, CalmEntry
  <2> QED  BY <2>2 DEF IInv, ClaimIsWorkedOn, Waiting, Unbound
<1> QED  BY <1>2, <1>3, <1>4, <1>5, <1>6, <1>7 DEF IInv

LEMMA UserDownloadsStep ==
  ASSUME IInv, NEW res \in Resources, UserDownloads(res)
  PROVE  IInv'
<1> DEFINE owner == Owner(res)
           q == NewRequest(res, "submitting", FALSE, 0)
           n == Len(reqs) + 1
<1>1. UNCHANGED <<sub, cands, adms, callers, library, booting, unrecovered>>
      /\ events' \in 0 .. MaxEvents
  BY OneEvent DEF UserDownloads
<1>2. CASE /\ owner # 0 /\ reqs[owner].status = "pending"
           /\ reqs' = [reqs EXCEPT ![owner].status = "submitting"]
  <2> DEFINE d == [reqs[owner] EXCEPT !.status = "submitting"]
  <2>1. owner \in DOMAIN reqs /\ reqs' = [reqs EXCEPT ![owner] = d] /\ reqs[owner].status = "pending"
    BY <1>2, OwnerFacts
  <2> HIDE DEF owner
  <2>2. ~reqs[owner].own
    BY <2>1 DEF IInv, RequestFine
  <2>3. /\ d \in Request /\ d.status = "submitting" /\ d.own = reqs[owner].own
        /\ d.res = reqs[owner].res /\ d.current = reqs[owner].current
    BY <2>1, RequestType DEF Request, RequestStatuses
  <2> HIDE DEF d
  <2>4. reqs' \in Seq(Request) /\ Steady(reqs, reqs')
    BY <2>1, <2>2, <2>3, RequestEntry
  <2> QED  BY <1>1, <2>4, Types, SameIsCalm, RequestsMove
<1>3. CASE reqs' = Succeeded(reqs, q)
  <2>1. q \in Request /\ q.status = "submitting" /\ ~q.own /\ q.current = TRUE
    BY DEF NewRequest, Request, RequestStatuses
  <2> HIDE DEF q
  <2>2. \A rs : rs = Succeeded(reqs, q) =>
           /\ rs \in Seq(Request) /\ Owned(rs)
           /\ DOMAIN rs = DOMAIN reqs \cup {n} /\ n \notin DOMAIN reqs /\ n \in Nat \ {0}
           /\ rs[n] = q
           /\ \A s \in DOMAIN reqs : rs[s].status = reqs[s].status /\ rs[s].own = reqs[s].own
    BY <2>1, SucceededFacts, ZenonT(60)
  <2> HIDE DEF n
  <2>3. /\ reqs' \in Seq(Request) /\ Owned(reqs')
        /\ DOMAIN reqs' = DOMAIN reqs \cup {n} /\ n \notin DOMAIN reqs /\ reqs'[n] = q
        /\ \A s \in DOMAIN reqs : reqs'[s].status = reqs[s].status /\ reqs'[s].own = reqs[s].own
    BY <1>3, <2>2
  <2>4. AdmTypeOK'
    BY <1>1, <2>3, Types DEF AdmTypeOK
  <2>5. \A i \in DOMAIN adms : CalmEntry(adms[i], adms'[i], reqs')
    BY <1>1 DEF CalmEntry
  <2>6. \A s \in DOMAIN reqs' :
           /\ reqs'[s].status = "pending" => ~reqs'[s].own
           /\ reqs'[s].own /\ reqs'[s].status \in UnderWay =>
                s \in DOMAIN reqs /\ reqs[s].own /\ reqs[s].status \in UnderWay
    BY <2>1, <2>3 DEF IInv, RequestFine
  <2> DEFINE F == {}
  <2>7. F \in SUBSET DOMAIN adms /\ \A i \in F : FALSE
    OBVIOUS
  <2> HIDE DEF F
  <2> QED  BY <1>1, <2>3, <2>4, <2>5, <2>6, <2>7, TakenUp
<1> QED  BY <1>2, <1>3 DEF UserDownloads

LEMMA RetryStep ==
  ASSUME IInv, NEW r \in DOMAIN reqs, Retry(r)
  PROVE  IInv'
<1> DEFINE owner == Owner(reqs[r].res)
           n == Len(reqs) + 1
           sources == {r} \cup {s \in {owner} : reqs[s].status \in {"failed", "manual_review"}}
           F == {i \in DOMAIN adms : adms[i].request \in sources /\ adms[i].status = "failed"}
           q == NewRequest(reqs[r].res, "submitting", F # {}, r)
<1>1. /\ UNCHANGED <<sub, callers, library, booting, unrecovered>> /\ events' \in 0 .. MaxEvents
      /\ MayHandOver(F) /\ reqs' = Succeeded(reqs, q) /\ adms' = HandedOver(adms, n, F)
      /\ cands' = [c \in Candidates |-> IF \E i \in F : adms[i].cand = c
                                        THEN [cands[c] EXCEPT !.request = n] ELSE cands[c]]
  BY OneEvent DEF Retry
<1>2. 0 \notin sources
  <2>1. owner \in DOMAIN reqs
    <3>1. \E s \in DOMAIN reqs : reqs[s].current /\ reqs[s].res = reqs[r].res
      BY DEF IInv, Owned
    <3> QED  BY <3>1 DEF Owner
  <2> HIDE DEF owner
  <2> QED  BY <2>1, Types, SeqIsFunction
<1>3. /\ F \in SUBSET DOMAIN adms
      /\ \A i \in F : adms[i].status = "failed" /\ adms[i].request # 0
  BY <1>2
<1> HIDE DEF sources, owner, F
<1>4. q \in Request /\ q.status = "submitting" /\ q.own = (F # {}) /\ q.current = TRUE
  <2>1. reqs[r] \in Request /\ r \in Nat
    BY RequestType, Types, SeqIsFunction
  <2>2. reqs[r].res \in Resources
    BY <2>1 DEF Request
  <2> QED  BY <2>1, <2>2 DEF NewRequest, Request, RequestStatuses
<1> HIDE DEF q
<1>5. \A rs : rs = Succeeded(reqs, q) =>
         /\ rs \in Seq(Request) /\ Owned(rs)
         /\ DOMAIN rs = DOMAIN reqs \cup {n} /\ n \notin DOMAIN reqs /\ n \in Nat \ {0}
         /\ rs[n] = q
         /\ \A s \in DOMAIN reqs : rs[s].status = reqs[s].status /\ rs[s].own = reqs[s].own
  BY <1>4, SucceededFacts, ZenonT(60)
<1> HIDE DEF n
<1>6. /\ reqs' \in Seq(Request) /\ Owned(reqs') /\ n \in Nat \ {0}
      /\ DOMAIN reqs' = DOMAIN reqs \cup {n} /\ n \notin DOMAIN reqs /\ reqs'[n] = q
      /\ \A s \in DOMAIN reqs : reqs'[s].status = reqs[s].status /\ reqs'[s].own = reqs[s].own
  BY <1>1, <1>5
<1>7. ASSUME NEW i \in DOMAIN adms
      PROVE  /\ adms'[i] \in Admission
             /\ i \notin F => adms'[i] = adms[i]
             /\ i \in F => /\ adms'[i].status = "dispatching" /\ adms'[i].request = n
                           /\ adms'[i].cand = adms[i].cand
  <2>1. adms[i] \in Admission
    BY AdmissionType
  <2>2. adms'[i] = IF i \in F THEN [adms[i] EXCEPT !.status = "dispatching", !.request = n] ELSE adms[i]
    BY <1>1 DEF HandedOver
  <2> QED  BY <1>6, <2>1, <2>2 DEF Admission, AdmissionStatuses, ActiveAdmission
<1>8. adms' \in Seq(Admission) /\ DOMAIN adms' = DOMAIN adms
  <2>1. adms' = [i \in DOMAIN adms |-> adms'[i]]
    BY <1>1 DEF HandedOver
  <2>2. adms' \in [DOMAIN adms -> Admission]
    BY <1>7, <2>1
  <2> QED  BY <2>2, Types, FunctionIsSeq
<1>9. cands' \in [Candidates -> [status : {"available", "expired", "submitted"}, request : Nat]]
  <2>1. ASSUME NEW c \in Candidates
        PROVE  cands'[c] \in [status : {"available", "expired", "submitted"}, request : Nat]
    <3>1. cands[c] \in [status : {"available", "expired", "submitted"}, request : Nat]
      BY Types
    <3>2. cands'[c] = cands[c] \/ cands'[c] = [cands[c] EXCEPT !.request = n]
      BY <1>1
    <3> QED  BY <1>6, <3>1, <3>2
  <2>2. cands' = [c \in Candidates |-> cands'[c]]
    BY <1>1
  <2> QED  BY <2>1, <2>2
<1>10. AdmTypeOK'
  BY <1>1, <1>6, <1>8, <1>9, Types DEF AdmTypeOK
<1>11. \A i \in DOMAIN adms \ F : CalmEntry(adms[i], adms'[i], reqs')
  BY <1>7 DEF CalmEntry
<1>12. \A i \in F : /\ adms[i].status = "failed" /\ adms[i].request # 0
                    /\ adms'[i].cand = adms[i].cand /\ adms'[i].request # 0
                    /\ adms'[i].status # "claimed"
  BY <1>3, <1>6, <1>7
<1>13. \A i \in F : \A j \in F \cup Holders(adms, KeyOf[adms[i].cand]) :
          KeyOf[adms[j].cand] = KeyOf[adms[i].cand] => j = i
  BY <1>1 DEF MayHandOver
<1>14. \A s \in DOMAIN reqs' :
          /\ reqs'[s].status = "pending" => ~reqs'[s].own
          /\ reqs'[s].own /\ reqs'[s].status \in UnderWay =>
               \/ s \in DOMAIN reqs /\ reqs[s].own /\ reqs[s].status \in UnderWay
               \/ \E i \in F : adms'[i].request = s /\ adms'[i].status \in Keeping
  <2>1. CASE F # {}
    <3>1. PICK i \in F : TRUE
      BY <2>1
    <3>2. adms'[i].request = n /\ adms'[i].status \in Keeping
      BY <1>3, <1>7 DEF Keeping, ActiveAdmission
    <3> QED  BY <1>4, <1>6, <3>2 DEF IInv, RequestFine
  <2>2. CASE F = {}
    BY <1>4, <1>6, <2>2 DEF IInv, RequestFine
  <2> QED  BY <2>1, <2>2
<1>15. DOMAIN reqs \subseteq DOMAIN reqs'
       /\ \A s \in DOMAIN reqs : reqs'[s].status = "pending" => reqs[s].status = "pending"
  BY <1>6
<1> QED  BY <1>1, <1>3, <1>6, <1>8, <1>10, <1>11, <1>12, <1>13, <1>14, <1>15, TakenUp

LEMMA PostprocessResumesStep ==
  ASSUME IInv, NEW r \in DOMAIN reqs, PostprocessResumes(r)
  PROVE  IInv'
<1> DEFINE q == [reqs[r] EXCEPT !.postFailed = FALSE]
<1>1. PICK S \in SUBSET DOMAIN adms :
         /\ \A k \in Keys : IF Revivable(r, k) = {} THEN S \cap Revivable(r, k) = {}
                            ELSE Cardinality(S \cap Revivable(r, k)) = 1
         /\ S \subseteq UNION {Revivable(r, k) : k \in Keys}
         /\ adms' = Synced([i \in DOMAIN adms |-> IF i \in S THEN [adms[i] EXCEPT !.status = "processing"]
                                                  ELSE adms[i]], [reqs EXCEPT ![r].postFailed = FALSE], {r})
  BY DEF PostprocessResumes
<1>2. /\ UNCHANGED <<sub, cands, callers, library, booting, unrecovered, events>>
      /\ reqs' = [reqs EXCEPT ![r] = q] /\ reqs[r].status = "completed"
  BY DEF PostprocessResumes
<1>3. /\ q \in Request /\ q.status = "completed" /\ q.postFailed = FALSE /\ q.own = reqs[r].own
      /\ q.res = reqs[r].res /\ q.current = reqs[r].current
  BY <1>2, RequestType DEF Request
<1> HIDE DEF q
<1>4. reqs' \in Seq(Request) /\ Steady(reqs, reqs') /\ reqs'[r] = q
  BY <1>2, <1>3, Types, RequestEntry DEF UnderWay
<1>5. ASSUME NEW i \in S
      PROVE  /\ i \in DOMAIN adms /\ adms[i].request = r /\ adms[i].status = "failed" /\ r # 0
             /\ i \in Revivable(r, KeyOf[adms[i].cand]) /\ KeyOf[adms[i].cand] \in Keys
             /\ Holders(adms, KeyOf[adms[i].cand]) = {}
  <2>1. PICK k \in Keys : i \in Revivable(r, k)
    BY <1>1
  <2>2. i \in DOMAIN adms /\ adms[i].request = r /\ adms[i].status = "failed"
        /\ KeyOf[adms[i].cand] = k /\ Holders(adms, k) = {}
    BY <2>1 DEF Revivable
  <2>3. r # 0
    BY Types, SeqIsFunction
  <2> QED  BY <2>1, <2>2, <2>3
<1> DEFINE mid == [i \in DOMAIN adms |-> IF i \in S THEN [adms[i] EXCEPT !.status = "processing"]
                                         ELSE adms[i]]
<1>6. ASSUME NEW i \in DOMAIN adms
      PROVE  /\ mid[i] \in Admission
             /\ i \notin S => mid[i] = adms[i]
             /\ i \in S => /\ mid[i].status = "processing" /\ mid[i].cand = adms[i].cand
                           /\ mid[i].request = r
  <2>1. adms[i] \in Admission
    BY AdmissionType
  <2>2. mid[i] = IF i \in S THEN [adms[i] EXCEPT !.status = "processing"] ELSE adms[i]
    OBVIOUS
  <2> HIDE DEF mid
  <2> QED  BY <1>5, <2>1, <2>2 DEF Admission, AdmissionStatuses, ActiveAdmission
<1>7. mid \in Seq(Admission) /\ DOMAIN mid = DOMAIN adms
  <2>1. mid = [i \in DOMAIN adms |-> mid[i]]
    OBVIOUS
  <2> HIDE DEF mid
  <2>2. mid \in [DOMAIN adms -> Admission]
    BY <1>6, <2>1
  <2> QED  BY <2>2, Types, FunctionIsSeq
<1>8. adms' = Synced(mid, reqs', {r})
  BY <1>1, <1>2 DEF q
<1> HIDE DEF mid
<1>9. adms' \in Seq(Admission) /\ DOMAIN adms' = DOMAIN adms /\ Calm(mid, adms', reqs')
  BY <1>7, <1>8, SyncedCalm DEF Calm
<1>10. AdmTypeOK'
  BY <1>2, <1>4, <1>9, Types DEF AdmTypeOK
<1>11. \A i \in DOMAIN adms \ S : CalmEntry(adms[i], adms'[i], reqs')
  BY <1>6, <1>7, <1>9 DEF Calm
<1>12. \A i \in S : /\ adms[i].status = "failed" /\ adms[i].request # 0
                    /\ adms'[i].cand = adms[i].cand /\ adms'[i].request # 0
                    /\ adms'[i].status # "claimed"
  BY <1>5, <1>6, <1>7, <1>9 DEF Calm, CalmEntry
<1>13. ASSUME NEW i \in S, NEW j \in S \cup Holders(adms, KeyOf[adms[i].cand]),
              KeyOf[adms[j].cand] = KeyOf[adms[i].cand]
       PROVE  j = i
  <2> DEFINE k == KeyOf[adms[i].cand]
             T == S \cap Revivable(r, k)
  <2>1. i \in T /\ j \in T
    BY <1>5, <1>13
  <2>2. Cardinality(T) = 1
    BY <1>1, <1>5, <2>1
  <2>3. IsFiniteSet(T)
    <3>1. IsFiniteSet(DOMAIN adms)
      <4>1. DOMAIN adms = 1 .. Len(adms) /\ Len(adms) \in Nat
        BY Types, SeqIsFunction
      <4> QED  BY <4>1, FS_Interval
    <3>2. T \subseteq DOMAIN adms
      BY DEF Revivable
    <3> HIDE DEF T
    <3> QED  BY <3>1, <3>2, FS_Subset
  <2> HIDE DEF T
  <2>4. PICK x : T = {x}
    BY <2>2, <2>3, FS_Singleton
  <2> QED  BY <2>1, <2>4
<1>14. \A s \in DOMAIN reqs' :
          /\ reqs'[s].status = "pending" => ~reqs'[s].own
          /\ reqs'[s].own /\ reqs'[s].status \in UnderWay =>
               s \in DOMAIN reqs /\ reqs[s].own /\ reqs[s].status \in UnderWay
  BY <1>4 DEF Steady
<1>15. /\ Owned(reqs') /\ DOMAIN reqs \subseteq DOMAIN reqs'
       /\ \A s \in DOMAIN reqs : reqs'[s].status = "pending" => reqs[s].status = "pending"
  <2>1. DOMAIN reqs' = DOMAIN reqs
        /\ \A s \in DOMAIN reqs : reqs'[s].current = reqs[s].current /\ reqs'[s].res = reqs[s].res
    BY <1>4 DEF Steady
  <2>2. Owned(reqs')
    BY <2>1 DEF IInv, Owned
  <2> QED  BY <1>4, <2>1, <2>2 DEF Steady
<1> QED  BY <1>2, <1>9, <1>10, <1>11, <1>12, <1>13, <1>14, <1>15, TakenUp

LEMMA RestartStep ==
  ASSUME IInv, Restart
  PROVE  IInv'
<1>1. /\ callers' = [p \in Callers |-> IdleCaller] /\ booting' = TRUE
      /\ UNCHANGED <<sub, cands, adms, library, unrecovered>> /\ events' \in 0 .. MaxEvents
      /\ reqs' = [r \in DOMAIN reqs |->
                    [reqs[r] EXCEPT !.status = IF @ = "submitting" THEN "manual_review" ELSE @,
                                    !.mark = 0]]
  BY OneEvent DEF Restart
<1>2. ASSUME NEW r \in DOMAIN reqs
      PROVE  /\ reqs'[r] \in Request /\ reqs'[r].own = reqs[r].own
             /\ reqs'[r].res = reqs[r].res /\ reqs'[r].current = reqs[r].current
             /\ \/ reqs'[r].status = reqs[r].status
                \/ reqs[r].status = "submitting" /\ reqs'[r].status = "manual_review"
  <2> DEFINE status == IF reqs[r].status = "submitting" THEN "manual_review" ELSE reqs[r].status
  <2>1. reqs[r] \in Request
    BY RequestType
  <2>2. reqs'[r] = [reqs[r] EXCEPT !.status = status, !.mark = 0]
    BY <1>1
  <2>3. status \in RequestStatuses
    BY <2>1 DEF Request, RequestStatuses
  <2>4. status = reqs[r].status \/ (reqs[r].status = "submitting" /\ status = "manual_review")
    OBVIOUS
  <2> HIDE DEF status
  <2> DEFINE q == [reqs[r] EXCEPT !.status = status]
  <2>5. /\ q \in Request /\ q.status = status /\ q.own = reqs[r].own
        /\ q.res = reqs[r].res /\ q.current = reqs[r].current
    BY <2>1, <2>3 DEF Request
  <2>6. reqs'[r] = [q EXCEPT !.mark = 0]
    BY <2>2
  <2> HIDE DEF q
  <2>7. /\ reqs'[r] \in Request /\ reqs'[r].status = status /\ reqs'[r].own = q.own
        /\ reqs'[r].res = q.res /\ reqs'[r].current = q.current
    BY <2>5, <2>6 DEF Request
  <2> QED  BY <2>4, <2>5, <2>7
<1>3. reqs' \in Seq(Request) /\ DOMAIN reqs' = DOMAIN reqs
  <2>1. reqs' \in [DOMAIN reqs -> Request]
    BY <1>1, <1>2
  <2> QED  BY <2>1, Types, FunctionIsSeq
<1>4. Steady(reqs, reqs')
  BY <1>2, <1>3 DEF IInv, RequestFine, Steady, UnderWay
<1>5. callers' \in [Callers -> Caller]
  BY <1>1, IdleIsCaller
<1>6. AdmTypeOK'
  BY <1>1, <1>3, <1>5, Types DEF AdmTypeOK
<1>7. \A p \in Callers : CallerGoes(callers[p], callers'[p])
  BY <1>1, IdleIsCaller DEF CallerGoes
<1> QED  BY <1>1, <1>4, <1>6, <1>7, SameIsCalm, CalmStep

LEMMA ReconcileStartupStep ==
  ASSUME IInv, ReconcileStartup
  PROVE  IInv'
<1>1. UNCHANGED <<sub, cands, reqs, callers, library>> /\ booting' = FALSE
  BY DEF ReconcileStartup
<1>2. \A p \in Callers : CallerGoes(callers[p], callers'[p])
  BY <1>1, SameCallers
<1> DEFINE synced == Synced(adms, reqs, DOMAIN reqs)
<1>3. CASE /\ adms' = [i \in DOMAIN adms |-> IF Releasable(synced[i])
                                             THEN [synced[i] EXCEPT !.status = "released"]
                                             ELSE synced[i]]
           /\ UNCHANGED <<unrecovered, events>>
  <2>1. synced \in Seq(Admission) /\ Calm(adms, synced, reqs)
    BY Types, SyncedCalm
  <2> HIDE DEF synced
  <2>2. ASSUME NEW i \in DOMAIN adms
        PROVE  adms'[i] \in Admission /\ CalmEntry(adms[i], adms'[i], reqs') /\ ~Waiting(adms'[i])
    <3>1. synced[i] \in Admission /\ CalmEntry(adms[i], synced[i], reqs) /\ AdmissionFine(adms[i])
      BY <2>1, AdmissionType, SeqIsFunction DEF Calm
    <3> DEFINE b == [synced[i] EXCEPT !.status = "released"]
    <3>2. /\ b \in Admission /\ b.status = "released" /\ b.cand = synced[i].cand
          /\ b.request = synced[i].request
      BY <3>1 DEF Admission, AdmissionStatuses
    <3>3. adms'[i] = IF Releasable(synced[i]) THEN b ELSE synced[i]
      BY <1>3
    <3> HIDE DEF b
    <3>4. CASE Releasable(synced[i])
      BY <1>1, <3>1, <3>2, <3>3, <3>4 DEF CalmEntry, Waiting, Active, ActiveAdmission, Keeping
    <3>5. CASE ~Releasable(synced[i])
      <4>1. ~Waiting(synced[i])
        BY <3>1, <3>5 DEF Releasable, CalmEntry, Waiting, AdmissionFine
      <4> QED  BY <1>1, <3>1, <3>3, <3>5, <4>1
    <3> QED  BY <3>4, <3>5
  <2>3. adms' \in Seq(Admission) /\ DOMAIN adms' = DOMAIN adms
    <3>1. adms' \in [DOMAIN adms -> Admission]
      BY <1>3, <2>2
    <3> QED  BY <3>1, Types, FunctionIsSeq
  <2>4. Calm(adms, adms', reqs')
    BY <2>2, <2>3 DEF Calm
  <2>5. AdmTypeOK'
    BY <1>1, <1>3, <2>3, Types DEF AdmTypeOK
  <2>6. \A p \in Callers : callers[p].pc \in Unbound => ~Waiting(adms'[callers[p].adm])
    BY <2>2, CallerType DEF CallerFine, Unbound, Engaged
  <2> QED  BY <1>1, <1>2, <2>2, <2>4, <2>5, <2>6, SameIsSteady, CalmStep
<1>4. CASE Event /\ unrecovered' = TRUE /\ UNCHANGED adms
  <2>1. AdmTypeOK'
    BY <1>1, <1>4, OneEvent, Types DEF AdmTypeOK
  <2> QED  BY <1>1, <1>2, <1>4, <2>1, SameIsCalm, SameIsSteady, CalmStep
<1> QED  BY <1>3, <1>4 DEF ReconcileStartup

-----------------------------------------------------------------------------
(* The invariant.                                                          *)

LEMMA Initially ==
  ASSUME AdmInit
  PROVE  IInv
<1>1. adms = <<>> /\ reqs = <<>> /\ callers = [p \in Callers |-> IdleCaller]
  BY DEF AdmInit
<1>2. adms \in Seq(Admission) /\ reqs \in Seq(Request) /\ DOMAIN adms = {} /\ DOMAIN reqs = {}
  BY <1>1
<1>3. callers \in [Callers -> Caller] /\ \A p \in Callers : callers[p].pc \notin Engaged
  BY <1>1, IdleIsCaller
<1>4. AdmTypeOK
  <2>1. cands \in [Candidates -> [status : {"available", "expired", "submitted"}, request : Nat]]
    <3>1. [status |-> "available", request |-> 0]
            \in [status : {"available", "expired", "submitted"}, request : Nat]
      OBVIOUS
    <3> QED  BY <3>1 DEF AdmInit
  <2>2. sub \in [enabled : BOOLEAN, rev : Nat] /\ library \subseteq Keys /\ booting \in BOOLEAN
        /\ unrecovered \in BOOLEAN
    BY DEF AdmInit
  <2>3. events \in 0 .. MaxEvents
    BY AdmissionsAssumption DEF AdmInit
  <2> QED  BY <1>2, <1>3, <2>1, <2>2, <2>3 DEF AdmTypeOK
<1>5. Apart /\ \A p \in Callers : CallerFine(callers[p], adms, reqs)
  BY <1>3 DEF Apart, CallerFine, Engaged, Unbound
<1> QED  BY <1>2, <1>4, <1>5 DEF IInv, UniqueKeys, Owned, ClaimIsWorkedOn

LEMMA Preserved ==
  ASSUME IInv, [AdmNext]_admVars
  PROVE  IInv'
<1>1. CASE UNCHANGED admVars
  BY <1>1 DEF admVars, IInv, AdmTypeOK, Apart, ClaimIsWorkedOn
<1>2. CASE ChangeSubscription \/ Reconcile \/ Restart \/ ReconcileStartup
  BY <1>2, ChangeSubscriptionStep, ReconcileStep, RestartStep, ReconcileStartupStep
<1>3. ASSUME NEW k \in Keys, OfferCandidates(k) \/ LibraryGains(k)
      PROVE  IInv'
  BY <1>3, OfferCandidatesStep, LibraryGainsStep
<1>4. ASSUME NEW p \in Callers, Begin(p) \/ CallerStep(p) \/ StopCaller(p) \/ Abandon(p)
      PROVE  IInv'
  BY <1>4, BeginStep, ClaimStep, BeginDispatchStep, LookupStep, BindExistingStep, CreateRequestStep,
     DispatchStep, SendStep, SettleStep, SyncResultStep, StopCallerStep, AbandonStep DEF CallerStep
<1>5. ASSUME NEW r \in DOMAIN reqs,
             \/ Track(r) \/ PostprocessFails(r) \/ PostprocessResumes(r) \/ CancelPending(r)
             \/ RecoverStale(r) \/ Retry(r) \/ UserSubmitted(r) \/ MarkResubmitted(r)
      PROVE  IInv'
  BY <1>5, TrackStep, PostprocessFailsStep, PostprocessResumesStep, CancelPendingStep,
     RecoverStaleStep, RetryStep, UserSubmittedStep, MarkResubmittedStep
<1>6. ASSUME NEW res \in Resources, UserDownloads(res)
      PROVE  IInv'
  BY <1>6, UserDownloadsStep
<1> QED  BY <1>1, <1>2, <1>3, <1>4, <1>5, <1>6 DEF AdmNext

\* In every reachable state the tables are consistent: the active admissions of a key
\* are unique, what a caller works on is there, and what it left is in the state that
\* the guards of the repository's updates bring it to.
THEOREM AdmissionsConsistent == AdmSpec => []IInv
<1>1. AdmInit => IInv
  BY Initially
<1>2. IInv /\ [AdmNext]_admVars => IInv'
  BY Preserved
<1> QED  BY <1>1, <1>2, PTL DEF AdmSpec

\* Every row keeps the shape and the statuses of its table.
THEOREM AdmissionsTypeCorrect == AdmSpec => []AdmTypeOK
<1>1. IInv => AdmTypeOK
  BY DEF IInv
<1> QED  BY <1>1, AdmissionsConsistent, PTL

\* A media key never has two active admissions, whatever the callers, the retries, the
\* stages that resume and the restarts do to it.
THEOREM OneHolderAlways == AdmSpec => []OneHolder
<1>1. IInv => OneHolder
  <2> SUFFICES ASSUME IInv, NEW k \in Keys
               PROVE  Cardinality(Holders(adms, k)) <= 1
    BY DEF OneHolder
  <2>1. \A i, j \in Holders(adms, k) : i = j
    BY DEF IInv, UniqueKeys, Holders
  <2>2. CASE Holders(adms, k) = {}
    BY <2>2, FS_EmptySet
  <2>3. CASE Holders(adms, k) # {}
    <3>1. PICK i : Holders(adms, k) = {i}
      BY <2>1, <2>3
    <3>2. Cardinality({i}) = 1
      BY FS_Singleton
    <3> QED  BY <3>1, <3>2
  <2> QED  BY <2>2, <2>3
<1> QED  BY <1>1, AdmissionsConsistent, PTL

\* A download that was dispatched for the subscription has its media key until it is
\* over, or the recovery at start-up has let it go.
THEOREM DownloadKeepsKey == AdmSpec => []DownloadHoldsKey
<1>1. IInv => DownloadHoldsKey
  BY DEF IInv, RequestFine, DownloadHoldsKey, Keeping
<1> QED  BY <1>1, AdmissionsConsistent, PTL

\* A media key that is kept without a download is in the hands of a caller, or the
\* recovery at start-up is still to come or has failed.
THEOREM ClaimAlwaysWorkedOn == AdmSpec => []ClaimIsWorkedOn
<1>1. IInv => ClaimIsWorkedOn
  BY DEF IInv
<1> QED  BY <1>1, AdmissionsConsistent, PTL
=============================================================================
