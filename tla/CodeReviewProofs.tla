---------------------------- MODULE CodeReviewProofs ----------------------------
(***************************************************************************)
(* Proofs about CodeReview, for any number of commits, reviewers, events   *)
(* and dispatchers, whatever is available and authorized: types, that an   *)
(* accepted code review of a High Risk task is of a signed-off commit, that*)
(* sign-offs are of one reviewer, and that code reviews are independent.   *)
(***************************************************************************)
EXTENDS CodeReview, TLAPS

(* The routing request decides for good whether a sign-off is required.     *)
Routed ==
    /\ MayRoute(request)
    /\ review.required = (EffectiveGear(request) = HighRisk)

(* The first n changes kept beside the sign-off lead from its commit to a   *)
(* next and on, and are what Git says: claims that are not are caught late. *)
LeadOn(s, n) ==
    \A i \in 1..n :
        /\ s.preserved[i].base = IF i = 1 THEN s.approval.head ELSE s.preserved[i - 1].new
        /\ s.preserved[i] = GitChange(s.preserved[i].base, s.preserved[i].new)
        /\ ~IsSensitive(s.preserved[i])

(* As far as they lead on, the sensitive paths are as they were signed.     *)
Unchanged(s) ==
    s.approval # Nothing =>
        \A n \in 1..Len(s.preserved) :
            LeadOn(s, n) =>
                Content[s.preserved[n].new]["sensitive"] = Content[s.approval.head]["sensitive"]

SignedCommit(h) ==
    \E a \in signed : a.verdict = "APPROVE" /\ Content[a.head]["sensitive"] = Content[h]["sensitive"]

GoodProfile(profile) ==
    /\ profile[1] \notin EngineerModels
    /\ EffortRank(profile[2]) >= EffortRank(EffortFor("code_reviewer", EffectiveGear(request)))

(* The sign-off held is one that was recorded, all recorded ones are of the *)
(* reviewer the state remembers, and reviews under way or accepted are of   *)
(* commits and profiles that were right when they were dispatched.          *)
Held ==
    /\ review \in SecurityState
    /\ review.approval # Nothing => review.approval \in recorded
    /\ Unchanged(review)
    /\ \A a \in recorded : a.reviewer = PriorReviewer(review)

RightReview(h, profile) == (review.required => SignedCommit(h)) /\ GoodProfile(profile)

Dispatched ==
    /\ \A d \in Dispatchers : dispatch[d] # Idle =>
          RightReview(dispatch[d].target, dispatch[d].profile)
    /\ \A c \in accepted : RightReview(c.head, c.profile) /\ c.event \in {e.id : e \in events}
    /\ \A c, d \in accepted : c.event = d.event => c = d

IInv == TypeOK /\ Routed /\ Held /\ Dispatched

-----------------------------------------------------------------------------
(* The steps a security-review state takes.                                 *)
LEMMA RetargetedFields ==
  ASSUME NEW s \in SecurityState, NEW e \in Evidence
  PROVE  LET r == Retargeted(s, e)
         IN  /\ r \in SecurityState
             /\ r.target = e.new /\ r.priorEvent = PriorEvent(s)
             /\ r.priorReviewer = PriorReviewer(s)
             /\ r.required = s.required /\ r.triggered = s.triggered /\ r.elevated = s.elevated
             /\ r.downgrade = s.downgrade /\ r.preserved = s.preserved /\ r.approval = s.approval
<1>1. PriorEvent(s) \in EventIds \cup {Nothing} /\ PriorReviewer(s) \in Reviewers \cup {Nothing}
  BY DEF SecurityState, PriorEvent, PriorReviewer, Approval
<1>2. e.new \in Heads
  BY DEF Evidence
<1> QED BY <1>1, <1>2 DEF Retargeted, SecurityState

LEMMA ChangedFields ==
  ASSUME NEW s \in SecurityState, NEW e \in Evidence
  PROVE  LET c == Changed(s, e)
         IN  /\ c \in SecurityState
             /\ c.target = e.new /\ c.priorEvent = PriorEvent(s)
             /\ c.priorReviewer = PriorReviewer(s)
             /\ c.required = s.required /\ c.triggered = s.triggered /\ c.elevated = s.elevated
             /\ c.downgrade = s.downgrade
             /\ IF NeedsFreshReview(s, e) THEN c.preserved = <<>> /\ c.approval = Nothing
                ELSE c.preserved = Append(s.preserved, e) /\ c.approval = s.approval
<1> DEFINE r == Retargeted(s, e)
<1>1. /\ r \in SecurityState
      /\ r.target = e.new /\ r.priorEvent = PriorEvent(s)
      /\ r.priorReviewer = PriorReviewer(s)
      /\ r.required = s.required /\ r.triggered = s.triggered /\ r.elevated = s.elevated
      /\ r.downgrade = s.downgrade /\ r.preserved = s.preserved /\ r.approval = s.approval
  BY RetargetedFields
<1> HIDE DEF r
<1>2. CASE NeedsFreshReview(s, e)
  <2>1. Changed(s, e) = [r EXCEPT !.preserved = <<>>, !.approval = Nothing]
    BY <1>2 DEF Changed, r
  <2>2. <<>> \in Seq(Evidence)
    OBVIOUS
  <2> QED BY <1>1, <1>2, <2>1, <2>2 DEF SecurityState
<1>3. CASE ~NeedsFreshReview(s, e)
  <2>1. Changed(s, e) = [r EXCEPT !.preserved = Append(s.preserved, e)]
    BY <1>3 DEF Changed, r
  <2>2. Append(s.preserved, e) \in Seq(Evidence)
    BY DEF SecurityState
  <2> QED BY <1>1, <1>3, <2>1, <2>2 DEF SecurityState
<1> QED BY <1>2, <1>3

LEMMA ApprovedFields ==
  ASSUME NEW s \in SecurityState, NEW a \in Approval
  PROVE  LET c == Approved(s, a)
         IN  /\ c \in SecurityState
             /\ c.target = s.target /\ c.priorEvent = s.priorEvent
             /\ c.priorReviewer = s.priorReviewer
             /\ c.required = s.required /\ c.triggered = s.triggered /\ c.elevated = s.elevated
             /\ c.downgrade = s.downgrade /\ c.preserved = <<>> /\ c.approval = a
<1>1. <<>> \in Seq(Evidence)
  OBVIOUS
<1> QED BY <1>1 DEF Approved, SecurityState

-----------------------------------------------------------------------------
(* What Git says of a change that is not sensitive.                         *)
LEMMA NotSensitive ==
  ASSUME NEW e, NEW b, NEW h, e = GitChange(b, h), ~IsSensitive(e)
  PROVE  Content[b]["sensitive"] = Content[h]["sensitive"]
  BY DEF GitChange, IsSensitive, Parts

(* The changes kept stay traced to the sign-off when one is added.          *)
LEMMA UnchangedStands ==
  ASSUME NEW s \in SecurityState, NEW c \in SecurityState, NEW e \in Evidence, Unchanged(s),
         c.preserved = Append(s.preserved, e), c.approval = s.approval
  PROVE  Unchanged(c)
<1> DEFINE k == Len(s.preserved)
<1>1. /\ k \in Nat /\ Len(c.preserved) = k + 1 /\ c.preserved[k + 1] = e
      /\ \A i \in 1..k : c.preserved[i] = s.preserved[i]
  BY DEF SecurityState
<1> HIDE DEF k
<1> SUFFICES ASSUME c.approval # Nothing, NEW n \in 1..(k + 1), LeadOn(c, n)
             PROVE  Content[c.preserved[n].new]["sensitive"]
                    = Content[c.approval.head]["sensitive"]
  BY <1>1 DEF Unchanged
<1>2. ASSUME NEW m \in 1..k, LeadOn(c, m)
      PROVE  Content[c.preserved[m].new]["sensitive"] = Content[c.approval.head]["sensitive"]
  <2>1. LeadOn(s, m)
    <3> SUFFICES ASSUME NEW i \in 1..m
                 PROVE  /\ s.preserved[i].base = IF i = 1 THEN s.approval.head
                                                 ELSE s.preserved[i - 1].new
                        /\ s.preserved[i] = GitChange(s.preserved[i].base, s.preserved[i].new)
                        /\ ~IsSensitive(s.preserved[i])
      BY DEF LeadOn
    <3>1. i \in 1..k /\ (i # 1 => i - 1 \in 1..k)
      BY <1>1
    <3>2. c.preserved[i] = s.preserved[i] /\ (i # 1 => c.preserved[i - 1] = s.preserved[i - 1])
      BY <1>1, <3>1
    <3> QED BY <1>2, <3>2 DEF LeadOn
  <2> QED BY <1>1, <1>2, <2>1 DEF Unchanged, k
<1>3. CASE n \in 1..k
  BY <1>2, <1>3
<1>4. CASE n = k + 1
  <2>1. /\ c.preserved[n].base = IF n = 1 THEN c.approval.head ELSE c.preserved[n - 1].new
        /\ Content[c.preserved[n].base]["sensitive"] = Content[c.preserved[n].new]["sensitive"]
    BY <1>1, <1>4, NotSensitive DEF LeadOn
  <2>2. CASE n = 1
    BY <2>1, <2>2
  <2>3. CASE n # 1
    <3>1. n - 1 \in 1..k /\ LeadOn(c, n - 1)
      BY <1>1, <1>4, <2>3 DEF LeadOn
    <3>2. Content[c.preserved[n - 1].new]["sensitive"] = Content[c.approval.head]["sensitive"]
      BY <1>2, <3>1
    <3> QED BY <2>1, <2>3, <3>2
  <2> QED BY <2>2, <2>3
<1> QED BY <1>1, <1>3, <1>4

(* A state that clears a commit has a sign-off of its sensitive paths.      *)
LEMMA ClearedIsSigned ==
  ASSUME TypeOK, Held, NEW h, ReviewCleared(review, h, events), review.required
  PROVE  SignedCommit(h)
<1>1. /\ review.approval # Nothing /\ review.approval.verdict = "APPROVE"
      /\ review.approval \in signed /\ review.target = h
      /\ review.approval.head # h => PreservedScope(review)
  BY DEF ReviewCleared, Held, TypeOK
<1>2. CASE review.approval.head = h
  BY <1>1, <1>2 DEF SignedCommit
<1>3. CASE review.approval.head # h
  <2> DEFINE n == Len(review.preserved)
  <2>1. /\ LeadOn(review, n)
        /\ review.target = IF n = 0 THEN review.approval.head ELSE review.preserved[n].new
    BY <1>1, <1>3 DEF PreservedScope, LeadOn
  <2>2. n \in Nat /\ n # 0
    BY <1>1, <1>3, <2>1 DEF Held, SecurityState
  <2>3. Content[review.preserved[n].new]["sensitive"]
        = Content[review.approval.head]["sensitive"]
    BY <1>1, <2>1, <2>2 DEF Held, Unchanged
  <2> QED BY <1>1, <2>1, <2>2, <2>3 DEF SignedCommit
<1> QED BY <1>2, <1>3

-----------------------------------------------------------------------------
(* The security-review state after a change, and after a sign-off.          *)
LEMMA ChangeKeeps ==
  ASSUME IInv, NEW e \in Evidence, MayChange(review, e), review' = Changed(review, e),
         UNCHANGED <<request, recorded>>
  PROVE  /\ ValidState(review)' /\ review'.target \in Heads
         /\ Held' /\ Routed' /\ review'.required = review.required
<1>1. review \in SecurityState /\ ValidState(review) /\ ValidEvidence(e)
  BY DEF IInv, Held, TypeOK, MayChange
<1>2. /\ review' \in SecurityState
      /\ review'.target = e.new /\ review'.priorEvent = PriorEvent(review)
      /\ review'.priorReviewer = PriorReviewer(review)
      /\ review'.required = review.required /\ review'.triggered = review.triggered
      /\ review'.elevated = review.elevated /\ review'.downgrade = review.downgrade
      /\ IF NeedsFreshReview(review, e) THEN review'.preserved = <<>> /\ review'.approval = Nothing
         ELSE /\ review'.preserved = Append(review.preserved, e)
              /\ review'.approval = review.approval
  BY <1>1, ChangedFields
<1>3. /\ \A i \in DOMAIN review'.preserved : ValidEvidence(review'.preserved[i])
      /\ review'.approval # Nothing => review'.preserved # <<>>
  <2>1. /\ \A i \in DOMAIN Append(review.preserved, e) : ValidEvidence(Append(review.preserved, e)[i])
        /\ Append(review.preserved, e) # <<>>
    BY <1>1 DEF ValidState, SecurityState
  <2> QED BY <1>2, <2>1
<1>4. /\ (review'.priorEvent = Nothing) = (review'.priorReviewer = Nothing)
      /\ review'.approval # Nothing => review'.approval.reviewer = review'.priorReviewer
  <2>1. review.approval # Nothing =>
           review.approval.event # Nothing /\ review.approval.reviewer # Nothing
    BY <1>1, NothingIsNone DEF SecurityState, Approval
  <2> QED BY <1>1, <1>2, <2>1 DEF ValidState, PriorEvent, PriorReviewer
<1>5. ValidState(review)'
  BY <1>1, <1>2, <1>3, <1>4 DEF ValidState
<1>6. PriorReviewer(review)' = PriorReviewer(review)
  BY <1>2, <1>4 DEF PriorReviewer
<1>7. Unchanged(review)'
  BY <1>1, <1>2, UnchangedStands DEF Unchanged, IInv, Held
<1>8. Held'
  BY <1>2, <1>6, <1>7 DEF IInv, Held
<1>9. e.new \in Heads
  BY DEF Evidence
<1> QED BY <1>2, <1>5, <1>8, <1>9 DEF IInv, Routed

LEMMA ApprovalKeeps ==
  ASSUME IInv, NEW a \in signed, RecordApproval(a)
  PROVE  IInv'
<1>1. /\ review \in SecurityState /\ ValidState(review) /\ a \in Approval /\ a # Nothing
      /\ MayRecordApproval(review, a, events) /\ review' = Approved(review, a)
      /\ recorded' = recorded \cup {a}
      /\ UNCHANGED <<request, signed, events, worktree, dispatch, accepted>>
  BY NothingIsNone DEF IInv, Held, TypeOK, RecordApproval
<1>2. /\ review' \in SecurityState
      /\ review'.target = review.target /\ review'.priorEvent = review.priorEvent
      /\ review'.priorReviewer = review.priorReviewer
      /\ review'.required = review.required /\ review'.triggered = review.triggered
      /\ review'.elevated = review.elevated /\ review'.downgrade = review.downgrade
      /\ review'.preserved = <<>> /\ review'.approval = a
  BY <1>1, ApprovedFields
<1>3. ValidState(review)'
  BY <1>1, <1>2 DEF ValidState, MayRecordApproval
<1>4. \A b \in recorded' : b.reviewer = PriorReviewer(review)'
  <2>1. PriorReviewer(review)' = a.reviewer /\ PriorReviewer(review) = review.priorReviewer
    BY <1>1, <1>2 DEF PriorReviewer, MayRecordApproval
  <2>2. \A b \in recorded : b.reviewer = review.priorReviewer /\ b.reviewer # Nothing
    BY <2>1, NothingIsNone DEF IInv, Held, TypeOK, Approval
  <2>3. review.priorReviewer # Nothing => a.reviewer = review.priorReviewer
    BY <1>1 DEF MayRecordApproval
  <2> QED BY <1>1, <2>1, <2>2, <2>3
<1>5. Held'
  BY <1>1, <1>2, <1>4 DEF Held, Unchanged
<1>6. TypeOK'
  BY <1>1, <1>2, <1>3 DEF IInv, TypeOK
<1>7. Routed' /\ Dispatched'
  BY <1>1, <1>2 DEF IInv, Routed, Dispatched, RightReview, SignedCommit, GoodProfile, EngineerModels
<1> QED BY <1>5, <1>6, <1>7 DEF IInv

-----------------------------------------------------------------------------
(* The profiles the execution policy resolves to.                           *)
LEMMA MediumEffort ==
  /\ \A gear : EffortFor("code_reviewer", gear) = "medium"
  /\ EffortRank("medium") = 2
  /\ \A gear : EffortFor("software_engineer", gear) \in {"medium", "high"}
  /\ {"medium", "high"} \subseteq {Efforts[i] : i \in DOMAIN Efforts}
<1>1. /\ DOMAIN Efforts = 1..6 /\ Efforts[1] = "low" /\ Efforts[2] = "medium"
      /\ Efforts[3] = "high" /\ Efforts[4] = "xhigh" /\ Efforts[5] = "max" /\ Efforts[6] = "ultra"
  BY DEF Efforts
<1>2. \A i \in 1..6 : Efforts[i] = "medium" <=> i = 2
  <2> SUFFICES ASSUME NEW i \in 1..6 PROVE Efforts[i] = "medium" <=> i = 2
    OBVIOUS
  <2>1. i \in {1, 2, 3, 4, 5, 6}
    OBVIOUS
  <2> QED BY <1>1, <2>1
<1>3. EffortRank("medium") = 2
  BY <1>1, <1>2 DEF EffortRank
<1> QED BY <1>1, <1>3 DEF EffortFor

LEMMA ResolvedProfile ==
  ASSUME NEW role \in {"software_engineer", "code_reviewer"}, NEW gear,
         NEW available \in Availability, NEW fallbacks,
         Resolve(role, gear, "complex", available, fallbacks) # NoProfile
  PROVE  LET profile == Resolve(role, gear, "complex", available, fallbacks)
         IN  /\ profile \in Profiles
             /\ role = "code_reviewer" => EffortRank(profile[2]) >= EffortRank("medium")
<1> DEFINE requested == RequestedProfile(role, gear, "complex")
           profile == Resolve(role, gear, "complex", available, fallbacks)
<1>1. requested = <<"sol", EffortFor(role, gear)>>
  BY DEF RequestedProfile, ModelFor
<1>2. available \subseteq Profiles
  BY AvailabilityAssumption
<1>3. CASE requested \in available
  <2>1. profile = requested
    BY <1>3 DEF Resolve
  <2> QED BY <1>1, <1>2, <1>3, <2>1, MediumEffort
<1>4. CASE requested \notin available
  <2>1. PICK f \in available : f = profile /\ EffortRank(f[2]) >= EffortRank(requested[2])
    BY <1>4 DEF Resolve
  <2> QED BY <1>1, <1>2, <2>1, MediumEffort
<1> QED BY <1>3, <1>4

(* The engineer's model does not change with the events of others.          *)
LEMMA EngineerStays ==
  ASSUME NEW e, e.id # EngineerId, events' = events \cup {e}
  PROVE  EngineerModels' = EngineerModels
  BY DEF EngineerModels

(* What was right about a review stays right.                               *)
LEMMA RightStays ==
  ASSUME NEW h, NEW profile, RightReview(h, profile), signed \subseteq signed',
         review'.required = review.required, request' = request, EngineerModels' = EngineerModels
  PROVE  RightReview(h, profile)'
  BY DEF RightReview, SignedCommit, GoodProfile

-----------------------------------------------------------------------------
(* The other steps.                                                         *)
LEMMA TouchKeeps ==
  ASSUME IInv, NEW w \in Heads \cup {Uncommitted}, Touch(w)
  PROVE  IInv'
<1>1. worktree' = w /\ UNCHANGED <<request, review, signed, recorded, events, dispatch, accepted>>
  BY DEF Touch, signOffs
<1>2. TypeOK'
  BY <1>1 DEF IInv, TypeOK
<1>3. Routed' /\ Held'
  BY <1>1 DEF IInv, Routed, Held
<1>4. Dispatched'
  BY <1>1 DEF IInv, Dispatched, RightReview, SignedCommit, GoodProfile, EngineerModels
<1> QED BY <1>2, <1>3, <1>4 DEF IInv

LEMMA SignOffKeeps ==
  ASSUME IInv, NEW r \in Reviewers, NEW h \in Heads, NEW v \in Verdicts, NEW id \in EventIds,
         SignOff(r, h, v, id)
  PROVE  IInv'
<1> DEFINE e == [id |-> id, role |-> "security_reviewer", who |-> r, model |-> "sol"]
           a == [reviewer |-> r, head |-> h, verdict |-> v, event |-> id]
<1>1. /\ events' = events \cup {e} /\ signed' = signed \cup {a}
      /\ UNCHANGED <<request, review, recorded, worktree, dispatch, accepted>>
  BY DEF SignOff
<1>2. e \in Event /\ e.id # EngineerId /\ a \in Approval
  BY IdsDisjoint DEF Event, Models, Approval
<1> HIDE DEF e, a
<1>3. TypeOK'
  BY <1>1, <1>2 DEF IInv, TypeOK
<1>4. Routed' /\ Held'
  BY <1>1 DEF IInv, Routed, Held
<1>5. \A g, profile : RightReview(g, profile) => RightReview(g, profile)'
  BY <1>1, <1>2, EngineerStays, RightStays
<1>6. Dispatched'
  BY <1>1, <1>5 DEF IInv, Dispatched
<1> QED BY <1>3, <1>4, <1>6 DEF IInv

LEMMA ChangeStep ==
  ASSUME IInv, NEW e \in Evidence, ForChange(e)
  PROVE  IInv'
<1>1. /\ MayChange(review, e) /\ review' = Changed(review, e)
      /\ UNCHANGED <<request, signed, recorded, events, worktree, dispatch, accepted>>
  BY DEF ForChange
<1>2. /\ ValidState(review)' /\ review'.target \in Heads
      /\ Held' /\ Routed' /\ review'.required = review.required
  BY <1>1, ChangeKeeps
<1>3. TypeOK'
  BY <1>1, <1>2 DEF IInv, TypeOK
<1>4. Dispatched'
  BY <1>1, <1>2 DEF IInv, Dispatched, RightReview, SignedCommit, GoodProfile, EngineerModels
<1> QED BY <1>2, <1>3, <1>4 DEF IInv

LEMMA DispatchKeeps ==
  ASSUME IInv, NEW d \in Dispatchers, NEW id \in ReviewIds, NEW risk \in Gears,
         NEW head \in Heads, NEW available \in Availability, NEW fallbacks \in Fallbacks,
         Dispatch(d, id, risk, head, available, fallbacks)
  PROVE  IInv'
<1> DEFINE profile == Resolve("code_reviewer", risk, "complex", available, fallbacks)
           w == [step |-> "running", target |-> head, event |-> id, profile |-> profile]
<1>1. /\ ReviewCleared(review, head, events) /\ profile # NoProfile
      /\ profile[1] \notin EngineerModels /\ dispatch' = [dispatch EXCEPT ![d] = w]
      /\ UNCHANGED <<request, review, signed, recorded, events, worktree, accepted>>
  BY DEF Dispatch, signOffs
<1>2. profile \in Profiles /\ EffortRank(profile[2]) >= EffortRank("medium")
  BY <1>1, ResolvedProfile
<1> HIDE DEF profile
<1>3. w \in Work /\ w.target = head /\ w.profile = profile
  BY <1>2 DEF Work
<1> HIDE DEF w
<1>4. review.required => SignedCommit(head)
  BY <1>1, ClearedIsSigned DEF IInv
<1>5. RightReview(head, profile)
  BY <1>1, <1>2, <1>4, MediumEffort DEF RightReview, GoodProfile
<1>6. TypeOK'
  BY <1>1, <1>3 DEF IInv, TypeOK
<1>7. \A g, q : RightReview(g, q) => RightReview(g, q)'
  BY <1>1 DEF RightReview, SignedCommit, GoodProfile, EngineerModels
<1>8. \A x \in Dispatchers : dispatch'[x] = IF x = d THEN w ELSE dispatch[x]
  BY <1>1 DEF IInv, TypeOK
<1>9. Dispatched'
  BY <1>1, <1>3, <1>5, <1>7, <1>8 DEF IInv, Dispatched
<1>10. Routed' /\ Held'
  BY <1>1 DEF IInv, Routed, Held
<1> QED BY <1>6, <1>9, <1>10 DEF IInv

LEMMA ReprobeKeeps ==
  ASSUME IInv, NEW d \in Dispatchers, Reprobe(d) \/ Abort(d)
  PROVE  IInv'
<1>1. /\ dispatch[d] # Idle
      /\ UNCHANGED <<request, review, signed, recorded, events, worktree, accepted>>
      /\ \/ dispatch' = [dispatch EXCEPT ![d] = Idle]
         \/ dispatch' = [dispatch EXCEPT ![d].step = "probed"]
  BY DEF Reprobe, Abort, At, Stop, signOffs, Idle
<1>2. dispatch[d] \in Work
  BY <1>1 DEF IInv, TypeOK
<1>3. PICK w \in Work \cup {Idle} :
         /\ dispatch' = [dispatch EXCEPT ![d] = w]
         /\ w # Idle => w.target = dispatch[d].target /\ w.profile = dispatch[d].profile
  <2>1. CASE dispatch' = [dispatch EXCEPT ![d] = Idle]
    BY <2>1
  <2>2. CASE dispatch' = [dispatch EXCEPT ![d].step = "probed"]
    <3> DEFINE w == [dispatch[d] EXCEPT !.step = "probed"]
    <3>1. w \in Work /\ w.target = dispatch[d].target /\ w.profile = dispatch[d].profile
      BY <1>2 DEF Work
    <3>2. dispatch' = [dispatch EXCEPT ![d] = w]
      BY <2>2
    <3> QED BY <3>1, <3>2
  <2> QED BY <1>1, <2>1, <2>2
<1>4. TypeOK'
  BY <1>1, <1>3 DEF IInv, TypeOK
<1>5. \A g, q : RightReview(g, q) => RightReview(g, q)'
  BY <1>1 DEF RightReview, SignedCommit, GoodProfile, EngineerModels
<1>6. \A x \in Dispatchers : dispatch'[x] = IF x = d THEN w ELSE dispatch[x]
  BY <1>3 DEF IInv, TypeOK
<1>7. Dispatched'
  BY <1>1, <1>3, <1>5, <1>6 DEF IInv, Dispatched
<1>8. Routed' /\ Held'
  BY <1>1 DEF IInv, Routed, Held
<1> QED BY <1>4, <1>7, <1>8 DEF IInv

LEMMA RecordKeeps ==
  ASSUME IInv, NEW d \in Dispatchers, Record(d)
  PROVE  IInv'
<1> DEFINE w == dispatch[d]
           e == [id |-> w.event, role |-> "code_reviewer", who |-> CodeReviewer,
                 model |-> w.profile[1]]
           c == [head |-> w.target, event |-> w.event, profile |-> w.profile]
<1>1. /\ w # Idle /\ dispatch' = [dispatch EXCEPT ![d] = Idle]
      /\ UNCHANGED <<request, review, signed, recorded, worktree>>
  BY DEF Record, At, Stop, signOffs, Idle
<1>2. CASE UNCHANGED <<events, accepted>>
  BY <1>1, <1>2, ReprobeKeeps DEF Abort, At, Stop, signOffs, Record
<1>3. CASE /\ w.event \notin {x.id : x \in events}
           /\ events' = events \cup {e} /\ accepted' = accepted \cup {c}
  <2>1. w \in Work /\ RightReview(w.target, w.profile)
    BY <1>1 DEF IInv, TypeOK, Dispatched
  <2>2. /\ e \in Event /\ e.id = w.event /\ e.id # EngineerId /\ c \in Review
        /\ c.head = w.target /\ c.event = w.event /\ c.profile = w.profile
    <3>1. w.event \in ReviewIds /\ w.target \in Heads /\ w.profile \in Profiles
      BY <2>1 DEF Work
    <3>2. w.profile[1] \in Models
      BY <3>1 DEF Profiles
    <3> QED BY <3>1, <3>2, IdsDisjoint DEF Event, Review
  <2> HIDE DEF e, c
  <2>3. TypeOK'
    BY <1>1, <1>3, <2>2 DEF IInv, TypeOK
  <2>4. \A g, q : RightReview(g, q) => RightReview(g, q)'
    BY <1>1, <1>3, <2>2, EngineerStays, RightStays
  <2>5. \A x \in Dispatchers : dispatch'[x] = IF x = d THEN Idle ELSE dispatch[x]
    BY <1>1 DEF IInv, TypeOK
  <2>6. {x.id : x \in events'} = {x.id : x \in events} \cup {w.event}
    BY <1>3, <2>2
  <2>7. Dispatched'
    BY <1>1, <1>3, <2>1, <2>2, <2>4, <2>5, <2>6 DEF IInv, Dispatched
  <2>8. Routed' /\ Held'
    BY <1>1 DEF IInv, Routed, Held
  <2> QED BY <2>3, <2>7, <2>8 DEF IInv
<1> QED BY <1>2, <1>3 DEF Record

-----------------------------------------------------------------------------
(* The invariant is inductive.                                              *)
LEMMA InitIInv == Init => IInv
<1> SUFFICES ASSUME Init PROVE IInv
  OBVIOUS
<1>1. /\ request \in Requests /\ MayRoute(request) /\ worktree \in Heads
      /\ review = FromRiskDecision(request, worktree)
      /\ signed = {} /\ recorded = {} /\ accepted = {}
      /\ dispatch = [d \in Dispatchers |-> Idle]
  BY DEF Init
<1>2. request \in Request(request.triggers)
  BY <1>1, RequestsAssumption
<1>3. /\ review \in SecurityState /\ review.target \in Heads
      /\ review.required = (EffectiveGear(request) = HighRisk)
      /\ review.triggered = (request.triggers # {}) /\ review.elevated = request.elevated
      /\ review.downgrade = request.downgrade /\ review.preserved = <<>>
      /\ review.priorEvent = Nothing /\ review.priorReviewer = Nothing
      /\ review.approval = Nothing
  BY <1>1, <1>2 DEF FromRiskDecision, SecurityState, Request
<1>4. ValidState(review)
  <2>1. CASE request.downgrade # NoDowngrade
    <3>1. /\ ~request.elevated /\ request.triggers # {} /\ ValidDowngrade(request.downgrade)
          /\ EffectiveGear(request) \in RequestedGears
      BY <1>1, <2>1 DEF MayRoute, EffectiveGear, ValidDowngrade
    <3>2. ~review.required
      BY <1>3, <3>1 DEF RequestedGears, HighRisk
    <3> QED BY <1>3, <2>1, <3>1, <3>2 DEF ValidState
  <2>2. CASE request.downgrade = NoDowngrade
    <3>1. request.gear # HighRisk
      BY <1>2 DEF Request, RequestedGears, HighRisk
    <3>2. review.required <=> (request.elevated \/ request.triggers # {})
      BY <1>3, <2>2, <3>1 DEF EffectiveGear
    <3>3. /\ \A i \in DOMAIN review.preserved : ValidEvidence(review.preserved[i])
          /\ (review.priorEvent = Nothing) = (review.priorReviewer = Nothing)
      BY <1>3
    <3>4. review.required => (review.triggered \/ review.elevated)
      BY <1>3, <3>2
    <3>5. ~review.required => ~review.elevated /\ ~review.triggered
      BY <1>3, <3>2
    <3>6. review.triggered \in BOOLEAN /\ review.downgrade = NoDowngrade
      BY <1>3, <2>2
    <3> QED BY <1>3, <3>3, <3>4, <3>5, <3>6 DEF ValidState
  <2> QED BY <2>1, <2>2
<1>5. events \subseteq Event
  <2>1. PICK available \in Availability, fallbacks \in Fallbacks :
           LET profile == Resolve("software_engineer", EffectiveGear(request), "complex",
                                  available, fallbacks)
           IN  profile # NoProfile /\ events = {EngineerEvent(profile[1])}
    BY DEF Init
  <2> DEFINE profile == Resolve("software_engineer", EffectiveGear(request), "complex",
                                available, fallbacks)
  <2>2. profile \in Profiles
    BY <2>1, ResolvedProfile
  <2> HIDE DEF profile
  <2>3. profile[1] \in Models
    BY <2>2 DEF Profiles
  <2>4. EngineerEvent(profile[1]) \in Event
    BY <2>3 DEF EngineerEvent, Event
  <2> QED BY <2>1, <2>4 DEF profile
<1>6. TypeOK
  BY <1>1, <1>3, <1>4, <1>5 DEF TypeOK
<1>7. Held /\ Dispatched /\ Routed
  BY <1>1, <1>3 DEF Held, Unchanged, Dispatched, Routed
<1> QED BY <1>6, <1>7 DEF IInv

LEMMA NextIInv == IInv /\ [Next]_vars => IInv'
<1>1. ASSUME IInv, NEW new \in Heads, NEW paths \in SUBSET Parts,
             ForChange([base |-> review.target, new |-> new, paths |-> paths])
      PROVE  IInv'
  <2>1. [base |-> review.target, new |-> new, paths |-> paths] \in Evidence
    BY <1>1 DEF Evidence, IInv, TypeOK
  <2> QED BY <1>1, <2>1, ChangeStep
<1>2. ASSUME IInv, NEW new \in Heads, ForGitChange(new) PROVE IInv'
  <2>1. GitChange(review.target, new) \in Evidence
    BY <1>2 DEF GitChange, Evidence, IInv, TypeOK
  <2> QED BY <1>2, <2>1, ChangeStep DEF ForGitChange
<1>3. ASSUME IInv, NEW d \in Dispatchers, Step(d) PROVE IInv'
  BY <1>3, DispatchKeeps, ReprobeKeeps, RecordKeeps DEF Step
<1>4. ASSUME IInv, Next PROVE IInv'
  BY <1>1, <1>2, <1>3, <1>4, TouchKeeps, SignOffKeeps, ApprovalKeeps DEF Next
<1>5. ASSUME IInv, UNCHANGED vars PROVE IInv'
  <2>1. UNCHANGED <<request, review, signed, recorded, events, worktree, dispatch, accepted>>
    BY <1>5 DEF vars
  <2>2. TypeOK' /\ Routed' /\ Held'
    BY <1>5, <2>1 DEF IInv, TypeOK, Routed, Held
  <2>3. Dispatched'
    BY <1>5, <2>1 DEF IInv, Dispatched, RightReview, SignedCommit, GoodProfile, EngineerModels
  <2> QED BY <2>2, <2>3 DEF IInv
<1> QED BY <1>4, <1>5

(* The invariant of every behaviour.                                        *)
THEOREM Invariance == Spec => []IInv
  BY InitIInv, NextIInv, PTL DEF Spec

(* The types, and that the state held is one its validation accepts: see    *)
(* TypeOK.                                                                  *)
THEOREM TypeCorrect == Spec => []TypeOK
<1>1. IInv => TypeOK
  BY DEF IInv
<1> QED BY <1>1, Invariance, PTL

(* An accepted code review of a High Risk task is of a commit whose         *)
(* sensitive paths a reviewer approved: see SignedOff.                      *)
THEOREM AcceptedIsSignedOff == Spec => []SignedOff
<1>1. IInv => SignedOff
  <2> SUFFICES ASSUME IInv,
                      request.elevated \/ (request.triggers # {} /\ request.downgrade = NoDowngrade),
                      NEW c \in accepted
               PROVE  SignedCommit(c.head)
    BY DEF SignedOff, SignedCommit
  <2>1. request.downgrade = NoDowngrade
    BY DEF IInv, Routed, MayRoute
  <2>2. review.required
    BY <2>1 DEF IInv, Routed, EffectiveGear
  <2> QED BY <2>2 DEF IInv, Dispatched, RightReview
<1> QED BY <1>1, Invariance, PTL

(* The sign-offs of a task are of one reviewer: see OneReviewer.            *)
THEOREM SignedOffByOne == Spec => []OneReviewer
<1>1. IInv => OneReviewer
  BY DEF IInv, Held, OneReviewer
<1> QED BY <1>1, Invariance, PTL

(* Code reviews are of events, models and efforts of their own: see         *)
(* IndependentReviews.                                                      *)
THEOREM ReviewsIndependent == Spec => []IndependentReviews
<1>1. IInv => IndependentReviews
  BY DEF IInv, Dispatched, RightReview, GoodProfile, IndependentReviews
<1> QED BY <1>1, Invariance, PTL

=============================================================================
