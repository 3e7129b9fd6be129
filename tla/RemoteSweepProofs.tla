-------------------------- MODULE RemoteSweepProofs --------------------------
(***************************************************************************)
(* Proofs about RemoteSweep, for any catalog, gate, size and memory sample: *)
(* first what VariantSelector computes, then the wrapper's steps.           *)
(***************************************************************************)
EXTENDS RemoteSweep, TLAPS

LEMMA PairInLanes == Primary \in Lanes /\ Fallback \in Lanes /\ Primary # Fallback
  BY SelectorAssumption

LEMMA NoneIsNothing ==
    /\ None \notin Lanes /\ None \notin Nat /\ None \notin Assessments /\ None \notin Selections
    /\ None \notin CmaPlans /\ None \notin BootPlans /\ None \notin [free : Nat, block : Nat]
  BY NoneAssumption DEF Lanes

LEMMA LargestIsOne ==
    ASSUME NEW a \in Nat, NEW b \in Nat, NEW S \in SUBSET {a, b}, S # {}
    PROVE  /\ Largest(S) \in S /\ Largest(S) \in Nat
           /\ \A y \in S : y <= Largest(S)
<1>1. \E x \in S : \A y \in S : y <= x
  <2>1. CASE a \in S /\ (b \in S => b <= a)
    <3>1. \A y \in S : y <= a
      BY <2>1
    <3> QED
      BY <2>1, <3>1
  <2>2. CASE ~(a \in S /\ (b \in S => b <= a))
    <3>1. b \in S
      BY <2>2
    <3>2. \A y \in S : y <= b
      BY <2>2
    <3> QED
      BY <3>1, <3>2
  <2> QED
    BY <2>1, <2>2
<1>2. Largest(S) \in S /\ \A y \in S : y <= Largest(S)
  BY <1>1 DEF Largest
<1> QED
  BY <1>2

LEMMA ProductIsNat == ASSUME NEW a \in Nat, NEW b \in Nat PROVE a * b \in Nat
  OBVIOUS

LEMMA DivisionFloors ==
    ASSUME NEW n \in Nat, NEW u \in Nat \ {0}
    PROVE  /\ n \div u \in Nat
           /\ u * (n \div u) <= n /\ n < u * (n \div u) + u
  OBVIOUS

LEMMA MultipleDivides ==
    ASSUME NEW k \in Nat, NEW u \in Nat \ {0}
    PROVE  (k * u) % u = 0
  OBVIOUS

-----------------------------------------------------------------------------
(* The selection and its evidence. *)

LEMMA RequiredIsNat ==
    ASSUME NEW s \in Selections, NEW r \in Ranks, NEW b \in Nat
    PROVE  Required(s, r, b) \in Nat
<1>1. s.candidates[r].min \in Nat /\ MiB \in Nat
  BY SelectorAssumption DEF Selections, Candidates
<1>2. s.candidates[r].min * b \in Nat
  BY <1>1, ProductIsNat
<1> QED
  BY <1>1, <1>2, ProductIsNat DEF Required

LEMMA SelectionFacts ==
    ASSUME NEW h \in Host, NEW l \in Lfbs, NEW gate \in Nat, NEW relaxed \in Nat \cup {None}
    PROVE  LET s == Selection(h, l, gate, relaxed) IN
             /\ s \in Selections
             /\ s.rank = ChosenRank(s.candidates)
             /\ \A r \in Ranks : s.candidates[r].min = GateAt(r, gate, relaxed)
             /\ s.regular = None /\ s.sudo = None
<1> DEFINE s == Selection(h, l, gate, relaxed)
           gates(r) == GateAt(r, gate, relaxed)
<1>1. \A r \in Ranks : GateAt(r, gate, relaxed) \in Nat /\ LaneAt(r) \in Lanes
  BY PairInLanes DEF GateAt, Ranks, LaneAt
<1>2. ASSUME NEW v \in Lanes, NEW g \in Nat
      PROVE  /\ Candidate(h, l, v, g) \in Candidates
             /\ Candidate(h, l, v, g).min = g
  <2>1. ArtifactReasons(h.artifact, v) \subseteq Reasons
    BY DEF ArtifactReasons, Roles, Reasons, Host
  <2>2. RuntimeReasons(h.probe, v) \subseteq Reasons
    BY DEF RuntimeReasons, Reasons, Host, Probes
  <2>3. LfbReasons(l, g) \subseteq Reasons
    BY DEF LfbReasons, Reasons
  <2> QED
    BY <2>1, <2>2, <2>3 DEF Candidate, Candidates
<1>3. s.candidates \in [Ranks -> Candidates]
      /\ \A r \in Ranks : s.candidates[r].min = GateAt(r, gate, relaxed)
  BY <1>1, <1>2 DEF Selection
<1>4. s.rank = ChosenRank(s.candidates) /\ s.regular = None /\ s.sudo = None
  BY DEF Selection
<1>5. ChosenRank(s.candidates) \in {0} \cup Ranks
  BY DEF ChosenRank, Ranks
<1> QED
  BY <1>3, <1>4, <1>5 DEF Selection, Selections

LEMMA AssessmentFacts ==
    ASSUME NEW s \in Selections, NEW seen \in Seen
    PROVE  /\ Assessment(s, seen) \in Assessments
           /\ Assessment(s, seen).lfb = None => Assessment(s, seen).deficits = {}
<1> DEFINE lfb      == First(seen.lfb, s.lfb)
           deficits == IF lfb = None THEN {} ELSE {r \in Ranks : s.candidates[r].min > lfb.free}
           sizes    == {Required(s, r, lfb.block) : r \in deficits}
           required == IF deficits = {} THEN None ELSE Largest(sizes)
<1>1. lfb \in Lfbs /\ seen.reserved \in Nat \cup {None} /\ seen.paths \in BOOLEAN
  BY RemoteAssumption DEF Seen, First, Selections
<1>2. deficits \subseteq Ranks
  OBVIOUS
<1>3. required \in Nat \cup {None}
  <2> SUFFICES ASSUME deficits # {} PROVE Largest(sizes) \in Nat
    OBVIOUS
  <2>1. lfb.block \in Nat
    BY <1>1 DEF Lfbs
  <2>2. Required(s, 1, lfb.block) \in Nat /\ Required(s, 2, lfb.block) \in Nat
    BY <2>1, RequiredIsNat DEF Ranks
  <2>3. sizes \in SUBSET {Required(s, 1, lfb.block), Required(s, 2, lfb.block)} /\ sizes # {}
    BY <1>2 DEF Ranks
  <2> HIDE DEF sizes
  <2> QED
    BY <2>2, <2>3, LargestIsOne
<1>4. Assessment(s, seen) = [lfb |-> lfb, deficits |-> deficits, reserved |-> seen.reserved,
                             paths |-> seen.paths, required |-> required]
  BY DEF Assessment
<1> HIDE DEF deficits, required, lfb
<1>5. lfb = None => deficits = {}
  BY DEF deficits
<1> QED
  BY <1>1, <1>2, <1>3, <1>4, <1>5 DEF Assessments

(* An assessment that knows of no sample finds no deficit. *)
Grounded(s) == \A a \in {s.regular, s.sudo} : a # None /\ a.lfb = None => a.deficits = {}

LEMMA EnrichedFacts ==
    ASSUME NEW s \in Selections, Grounded(s), NEW seen \in Seen
    PROVE  \A t \in {WithRegular(s, seen), WithSudo(s, seen)} :
             /\ t \in Selections /\ Grounded(t)
             /\ t.rank = s.rank
             /\ \A r \in Ranks : /\ t.candidates[r].min = s.candidates[r].min
                                 /\ t.candidates[r].usable = s.candidates[r].usable
<1> DEFINE a == Assessment(s, seen)
<1>1. a \in Assessments /\ (a.lfb = None => a.deficits = {})
  BY AssessmentFacts
<1> HIDE DEF a
<1>2. ASSUME NEW t, t = WithSudo(s, seen)
      PROVE  /\ t \in Selections /\ Grounded(t)
             /\ t.rank = s.rank
             /\ t.candidates = s.candidates
  <2>1. t = [s EXCEPT !.sudo = a]
    BY <1>2 DEF WithSudo, a
  <2> QED
    BY <1>1, <2>1 DEF Selections, Grounded
<1>3. ASSUME NEW t, t = WithRegular(s, seen)
      PROVE  /\ t \in Selections /\ Grounded(t)
             /\ t.rank = s.rank
             /\ \A r \in Ranks : /\ t.candidates[r].min = s.candidates[r].min
                                 /\ t.candidates[r].usable = s.candidates[r].usable
  <2> DEFINE new(r) == IF r \in PrebootShort(s, a) THEN {<<"preboot", "below">>} ELSE {}
             c == [r \in Ranks |-> [s.candidates[r] EXCEPT !.reasons = @ \cup new(r)]]
  <2>1. t = [s EXCEPT !.regular = a, !.candidates = c]
    BY <1>3 DEF WithRegular, a
  <2>2. \A r \in Ranks : new(r) \in SUBSET Reasons
    BY DEF Reasons
  <2> HIDE DEF new
  <2>3. s.candidates \in [Ranks -> Candidates]
    BY DEF Selections
  <2>4. \A r \in Ranks : /\ c[r] \in Candidates
                         /\ c[r].min = s.candidates[r].min
                         /\ c[r].usable = s.candidates[r].usable
    BY <2>2, <2>3 DEF Candidates
  <2>5. c \in [Ranks -> Candidates]
    BY <2>4
  <2> HIDE DEF c
  <2> QED
    BY <1>1, <2>1, <2>4, <2>5 DEF Selections, Grounded
<1> QED
  BY <1>2, <1>3
-----------------------------------------------------------------------------
(* The plans. *)

(* Rounding covers the size, adds less than a step, and leaves whole MiB.   *)
LEMMA RoundUpCovers ==
    ASSUME NEW n \in Nat
    PROVE  /\ RoundUp(n) \in Nat /\ n <= RoundUp(n) /\ RoundUp(n) < n + StepMiB * MiB
           /\ RoundUp(n) % MiB = 0
<1> DEFINE u == StepMiB * MiB
           q == (n + u - 1) \div u
<1>1. u \in Nat \ {0} /\ StepMiB \in Nat \ {0} /\ MiB \in Nat \ {0}
  BY SelectorAssumption
<1>2. RoundUp(n) = q * u
  BY DEF RoundUp
<1> HIDE DEF u
<1>3. n + u - 1 \in Nat
  BY <1>1
<1>4. q \in Nat /\ u * q <= n + u - 1 /\ n + u - 1 < u * q + u
  BY <1>1, <1>3, DivisionFloors
<1> HIDE DEF q
<1>5. q * u = u * q /\ q * u \in Nat
  BY <1>1, <1>4
<1>6. q * u = (q * StepMiB) * MiB /\ q * StepMiB \in Nat
  BY <1>1, <1>4 DEF u
<1>7. (q * u) % MiB = 0
  BY <1>1, <1>6, MultipleDivides
<1>8. n <= q * u /\ q * u < n + u
  <2>1. u * q \in Nat
    BY <1>5
  <2> QED
    BY <1>1, <1>4, <1>5, <2>1
<1> QED
  BY <1>2, <1>5, <1>7, <1>8 DEF u

LEMMA PlanBlockType ==
    ASSUME NEW s \in Selections
    PROVE  /\ PlanLfb(s) \in Lfbs
           /\ PlanBlock(s) \in Nat \cup {None}
           /\ PlanBlock(s) = None <=> PlanLfb(s) = None
<1>1. PlanLfb(s) \in Lfbs
  BY DEF PlanLfb, First, Selections, Assessments
<1> QED
  BY <1>1, NoneIsNothing DEF PlanBlock, Lfbs

LEMMA SizesOfPair ==
    ASSUME NEW s \in Selections, NEW b \in Nat
    PROVE  LET largest == Largest({Required(s, r, b) : r \in Ranks}) IN
             /\ largest \in Nat
             /\ \E r \in Ranks : largest = Required(s, r, b)
             /\ \A r \in Ranks : Required(s, r, b) <= largest
<1> DEFINE S == {Required(s, r, b) : r \in Ranks}
<1>1. Required(s, 1, b) \in Nat /\ Required(s, 2, b) \in Nat
  BY RequiredIsNat DEF Ranks
<1>2. S = {Required(s, 1, b), Required(s, 2, b)}
  BY DEF Ranks
<1> HIDE DEF S
<1>3. Largest(S) \in S /\ Largest(S) \in Nat /\ \A y \in S : y <= Largest(S)
  BY <1>1, <1>2, LargestIsOne
<1> QED
  BY <1>3 DEF S

LEMMA CmaPlanType == ASSUME NEW s \in Selections PROVE CmaPlan(s) \in CmaPlans
<1>1. Experiments(s, PlanBlock(s)) \subseteq Tries
  <2>1. CASE PlanBlock(s) = None
    BY <2>1 DEF Experiments
  <2>2. CASE PlanBlock(s) \in Nat
    <3> DEFINE largest == Largest({Required(s, r, PlanBlock(s)) : r \in Ranks})
    <3>1. RoundUp(largest) \in Nat
      <4>1. largest \in Nat
        BY <2>2, SizesOfPair
      <4> QED
        BY <4>1, RoundUpCovers
    <3>2. \A r \in Ranks : Required(s, r, PlanBlock(s)) \in Nat
      BY <2>2, RequiredIsNat
    <3>3. Experiments(s, PlanBlock(s))
            = {<<"minimum", r, Required(s, r, PlanBlock(s))>> : r \in Ranks}
              \cup {<<"rounded", 0, RoundUp(largest)>>}
      BY <2>2, NoneIsNothing DEF Experiments
    <3> HIDE DEF largest
    <3> QED
      BY <3>1, <3>2, <3>3 DEF Tries
  <2> QED
    BY <2>1, <2>2, PlanBlockType
<1>2. PlanPaths(s) \in BOOLEAN
  BY DEF PlanPaths, Selections, Assessments
<1> QED
  BY <1>1, <1>2 DEF CmaPlan, CmaPlans

LEMMA BootPlanType ==
    ASSUME NEW p \in CmaPlans, NEW b \in Boot PROVE BootPlan(p, b) \in BootPlans
<1>1. Bootable(p) \subseteq Tries
  BY DEF Bootable, CmaPlans
<1> QED
  BY <1>1 DEF BootPlan, BootPlans, Boot

(* The rounded reservation is enough for every candidate.                   *)
LEMMA RoundedSuffices ==
    ASSUME NEW s \in Selections, Grounded(s), NEW e \in Experiments(s, PlanBlock(s)),
           e[1] = "rounded"
    PROVE  /\ Evidence(s) # None =>
                PrebootShort(s, [Evidence(s) EXCEPT !.reserved = e[3]]) = {}
           /\ \E r \in Ranks : e[3] < Required(s, r, PlanBlock(s)) + StepMiB * MiB
           /\ e[3] > 0 => e \in Bootable(CmaPlan(s))
<1> DEFINE b == PlanBlock(s)
           largest == Largest({Required(s, r, b) : r \in Ranks})
<1>1. b \in Nat /\ e = <<"rounded", 0, RoundUp(largest)>>
  BY PlanBlockType DEF Experiments
<1>2. /\ largest \in Nat
      /\ \E r \in Ranks : largest = Required(s, r, b)
      /\ \A r \in Ranks : Required(s, r, b) <= largest
  BY <1>1, SizesOfPair
<1> HIDE DEF largest
<1>3. /\ e[3] \in Nat /\ largest <= e[3] /\ e[3] < largest + StepMiB * MiB
      /\ e[3] % MiB = 0
  BY <1>1, <1>2, RoundUpCovers
<1>4. ASSUME NEW r \in Ranks PROVE Required(s, r, b) <= e[3] /\ Required(s, r, b) \in Nat
  BY <1>1, <1>2, <1>3, RequiredIsNat
<1>5. ASSUME Evidence(s) # None
      PROVE  PrebootShort(s, [Evidence(s) EXCEPT !.reserved = e[3]]) = {}
  <2> DEFINE a == Evidence(s)
  <2>1. a \in Assessments /\ (a.lfb = None => a.deficits = {})
    BY <1>5 DEF Evidence, First, Selections, Grounded
  <2>2. a.lfb # None => a.lfb.block = b
    BY <1>5, <2>1, NoneIsNothing DEF Evidence, First, PlanBlock, PlanLfb, Selections
  <2> HIDE DEF a
  <2> DEFINE c == [a EXCEPT !.reserved = e[3]]
  <2>3. c.deficits = a.deficits /\ c.lfb = a.lfb /\ c.reserved = e[3]
        /\ a.deficits \subseteq Ranks
    BY <2>1 DEF Assessments
  <2> HIDE DEF c
  <2>4. \A r \in c.deficits : ~(c.reserved < Required(s, r, c.lfb.block))
    BY <1>3, <1>4, <2>1, <2>2, <2>3
  <2> QED
    BY <2>4 DEF PrebootShort, a, c
<1>6. \E r \in Ranks : e[3] < Required(s, r, b) + StepMiB * MiB
  BY <1>2, <1>3
<1>7. e[3] > 0 => e \in Bootable(CmaPlan(s))
  BY <1>3 DEF Bootable, CmaPlan
<1> QED
  BY <1>5, <1>6, <1>7
-----------------------------------------------------------------------------
(* The wrapper: types, and what is there at which step. *)

(* The artifacts of a step are there when it starts, and not before.        *)
Artifacts == /\ pc = "select" => selection = None
             /\ pc \in {"sudo", "cma", "patch", "dry"} => selection # None
             /\ pc \in {"select", "sudo", "cma"} => cma = None
             /\ pc \in {"patch", "dry"} => cma # None

(* The selection is the selector's, whatever samples were added since, and  *)
(* the plan is made of it.                                                  *)
Decided == /\ selection # None =>
                /\ selection.rank = ChosenRank(selection.candidates)
                /\ \A r \in Ranks : selection.candidates[r].min
                                      = GateAt(r, SelectorGate, option.relaxed)
                /\ Grounded(selection)
           /\ cma # None => selection # None /\ cma = CmaPlan(selection)

Relaxed(v) == /\ v = Fallback /\ Selected(selection) = v
              /\ option.relaxed # None /\ request.override[v] = None

(* The arguments are the request, the selected lane, and its relaxed gate.  *)
Forwards == /\ args.variants = request.variants \cup ({Selected(selection)} \ {None})
            /\ \A v \in Lanes : args.override[v] = IF Relaxed(v) THEN option.relaxed
                                                              ELSE request.override[v]

Strict == option.gguf /\ option.strict

(* What the sweep has done with its lanes so far.                           *)
Swept == /\ \A v \in Lanes : entries[v] # None =>
               /\ v \in Planned /\ pc \in {"lane"} \cup Ended
               /\ Strict => PlanOk
               /\ entries[v].launched => Meets(entries[v].lfb, GateOf(v))
         /\ pc \in {"plan", "lane"} /\ Strict => PlanOk
         /\ pc \notin {"lane"} \cup Ended => lane = 1
         /\ \A v \in Planned : \/ pc = "lane" /\ v < lane
                               \/ pc = "done"
                               => entries[v] # None

IInv == TypeOK /\ Artifacts /\ Decided /\ Forwards /\ Swept

LEMMA GateType == ASSUME TypeOK PROVE SelectorGate \in Nat
  BY RemoteAssumption DEF TypeOK, Request, SelectorGate

LEMMA SelectedIsLane ==
    ASSUME NEW s \in Selections
    PROVE  /\ Selected(s) \in Lanes \cup {None}
           /\ s.rank = 1 <=> Selected(s) = Primary
           /\ s.rank = 2 <=> Selected(s) = Fallback
  BY NoneIsNothing, PairInLanes DEF Selected, LaneAt, Selections, Ranks

LEMMA InitTyped == Init => IInv
<1> SUFFICES ASSUME Init PROVE IInv
  OBVIOUS
<1>1. TypeOK
  <2>1. request \in Request /\ option \in Option /\ host \in Host /\ boot \in Boot
    BY RemoteAssumption DEF Init
  <2>2. args \in [variants : SUBSET Lanes, override : [Lanes -> Nat \cup {None}]]
    BY <2>1 DEF Init, Request
  <2>3. lane \in Lanes
    BY SelectorAssumption DEF Init, Lanes
  <2> QED
    BY <2>1, <2>2, <2>3 DEF Init, TypeOK, Steps, Ended
<1>2. Artifacts /\ Decided
  BY DEF Init, Artifacts, Decided
<1>3. Forwards
  BY NoneIsNothing DEF Init, Forwards, Selected, Relaxed
<1>4. Swept
  BY DEF Init, Swept, Ended
<1> QED
  BY <1>1, <1>2, <1>3, <1>4 DEF IInv

LEMMA ForwardedType ==
    ASSUME TypeOK, NEW s \in Selections
    PROVE  Forwarded(s) \in [variants : SUBSET Lanes, override : [Lanes -> Nat \cup {None}]]
<1>1. Selected(s) \in Lanes \cup {None}
  BY SelectedIsLane
<1> QED
  BY <1>1 DEF Forwarded, TypeOK, Option

LEMMA OutcomesType ==
    ASSUME TypeOK, NEW v \in Lanes, NEW e \in Outcomes(v)
    PROVE  e \in Entries /\ (e.launched => Meets(e.lfb, GateOf(v)))
<1>1. CASE e = Unlaunched
  BY <1>1 DEF Unlaunched, Entries, Lfbs
<1>2. ASSUME NEW l \in Samples,
             e = [launched |-> Meets(l, GateOf(v)) /\ RuntimeReasons(host.probe, v) = {}, lfb |-> l]
      PROVE  e \in Entries /\ (e.launched => Meets(e.lfb, GateOf(v)))
  <2>1. l \in Lfbs
    BY RemoteAssumption
  <2> DEFINE met == Meets(l, GateOf(v)) /\ RuntimeReasons(host.probe, v) = {}
  <2>2. met \in BOOLEAN /\ (met => Meets(l, GateOf(v)))
    BY DEF Meets
  <2> HIDE DEF met
  <2> QED
    BY <1>2, <2>1, <2>2 DEF Entries, met
<1> QED
  BY <1>1, <1>2 DEF Outcomes

(* One action of the wrapper: the selector.                                 *)
LEMMA SelectStep == ASSUME IInv, Select PROVE IInv'
<1> USE DEF IInv
<1>1. PICK l \in Samples, seen \in Seen :
        LET s == Selection(host, l, SelectorGate, option.relaxed)
            kept == IF option.diagnostics /\ option.output THEN WithRegular(s, seen) ELSE s
        IN /\ selection' = kept
           /\ args' = Forwarded(kept)
           /\ pc' = IF option.sudo THEN "sudo" ELSE AfterSelection(kept)
  BY DEF Select
<1>2. /\ pc = "select" /\ selection = None /\ cma = None
      /\ UNCHANGED <<given, boot, lost, plans, sweep>>
  BY DEF Select, Artifacts
<1> DEFINE s == Selection(host, l, SelectorGate, option.relaxed)
           kept == IF option.diagnostics /\ option.output THEN WithRegular(s, seen) ELSE s
<1>3. host \in Host /\ l \in Lfbs /\ SelectorGate \in Nat /\ option.relaxed \in Nat \cup {None}
  BY RemoteAssumption, GateType DEF TypeOK, Option
<1>4. /\ s \in Selections /\ Grounded(s)
      /\ s.rank = ChosenRank(s.candidates)
      /\ \A r \in Ranks : s.candidates[r].min = GateAt(r, SelectorGate, option.relaxed)
  BY <1>3, SelectionFacts DEF Grounded
<1> HIDE DEF s
<1>5. /\ kept \in Selections /\ Grounded(kept) /\ kept.rank = s.rank
      /\ \A r \in Ranks : /\ kept.candidates[r].min = s.candidates[r].min
                          /\ kept.candidates[r].usable = s.candidates[r].usable
  BY <1>4, EnrichedFacts
<1>6. /\ selection' = kept /\ args' = Forwarded(kept)
      /\ pc' = IF option.sudo THEN "sudo" ELSE AfterSelection(kept)
  BY <1>1 DEF s
<1> HIDE DEF kept
<1>7. pc' \in {"sudo", "cma", "gguf"} /\ selection' # None
  BY <1>5, <1>6, NoneIsNothing DEF AfterSelection
<1>8. TypeOK'
  BY <1>2, <1>5, <1>6, <1>7, ForwardedType DEF TypeOK, Steps, given, plans, sweep
<1>9. Artifacts' /\ Swept'
  BY <1>2, <1>7 DEF Artifacts, Swept, given, plans, sweep, Ended
<1>10. Decided'
  <2>1. kept.rank = ChosenRank(kept.candidates)
    BY <1>4, <1>5 DEF ChosenRank, Ranks
  <2>2. \A r \in Ranks : kept.candidates[r].min = GateAt(r, SelectorGate, option.relaxed)
    BY <1>4, <1>5
  <2> QED
    BY <1>2, <1>5, <1>6, <2>1, <2>2 DEF Decided, given, plans, SelectorGate
<1>11. Forwards'
  <2>1. args.variants = request.variants /\ \A v \in Lanes : args.override[v] = request.override[v]
    BY <1>2, NoneIsNothing DEF Forwards, Relaxed, Selected
  <2>2. Selected(kept) \in Lanes \cup {None}
    BY <1>5, SelectedIsLane
  <2>3. args.override \in [Lanes -> Nat \cup {None}]
    BY DEF TypeOK
  <2>4. args'.variants = request.variants \cup ({Selected(kept)} \ {None})
    BY <1>6, <2>1, <2>2 DEF Forwarded
  <2>5. ASSUME NEW v \in Lanes
        PROVE  args'.override[v] = IF v = Fallback /\ Selected(kept) = v
                                      /\ option.relaxed # None /\ request.override[v] = None
                                   THEN option.relaxed ELSE request.override[v]
    BY <1>6, <2>1, <2>2, <2>3 DEF Forwarded
  <2> QED
    BY <1>2, <1>6, <2>4, <2>5 DEF Forwards, Relaxed, given
<1> QED
  BY <1>8, <1>9, <1>10, <1>11

LEMMA EnrichStep == ASSUME IInv, Enrich PROVE IInv'
<1> USE DEF IInv
<1>1. PICK seen \in Seen : selection' = WithSudo(selection, seen)
  BY DEF Enrich
<1>2. /\ pc = "sudo" /\ cma = None /\ selection # None /\ selection \in Selections
      /\ UNCHANGED <<given, boot, lost, plans, args, sweep>>
      /\ pc' = AfterSelection(selection)
  BY DEF Enrich, Artifacts, TypeOK
<1>3. /\ selection' \in Selections /\ Grounded(selection')
      /\ selection'.rank = selection.rank
      /\ \A r \in Ranks : /\ selection'.candidates[r].min = selection.candidates[r].min
                          /\ selection'.candidates[r].usable = selection.candidates[r].usable
  BY <1>1, <1>2, EnrichedFacts DEF Decided
<1>4. pc' \in {"cma", "gguf"} /\ selection' # None
  BY <1>2, <1>3, NoneIsNothing DEF AfterSelection
<1>5. TypeOK'
  BY <1>2, <1>3, <1>4 DEF TypeOK, Steps, given, plans, sweep
<1>6. Artifacts' /\ Swept'
  BY <1>2, <1>4 DEF Artifacts, Swept, given, plans, sweep, Ended
<1>7. Decided'
  <2>1. selection'.rank = ChosenRank(selection'.candidates)
    BY <1>2, <1>3 DEF Decided, ChosenRank, Ranks
  <2> QED
    BY <1>2, <1>3, <2>1 DEF Decided, given, plans, SelectorGate
<1>8. Forwards'
  <2>1. Selected(selection') = Selected(selection)
    BY <1>2, <1>3, <1>4 DEF Selected
  <2> QED
    BY <1>2, <2>1 DEF Forwards, Relaxed, given
<1> QED
  BY <1>5, <1>6, <1>7, <1>8

(* The steps that touch neither the selection nor the sweep.                *)
LEMMA PlanningStep ==
    ASSUME IInv, WriteCmaPlan \/ WriteBootPlan \/ DryRun \/ EditBoot PROVE IInv'
<1> USE DEF IInv
<1>1. UNCHANGED <<given, lost, selection, args, sweep>>
      /\ pc \in {"cma", "patch", "dry"} /\ pc' \in {"cma", "patch", "dry", "gguf", "aborted"}
      /\ selection \in Selections
  BY DEF WriteCmaPlan, WriteBootPlan, DryRun, EditBoot, Artifacts, TypeOK
<1>2. Swept' /\ Forwards'
  BY <1>1 DEF Swept, Forwards, Relaxed, given, sweep, Ended
<1>3. CASE WriteCmaPlan
  <2>1. cma' = CmaPlan(selection) /\ patch' = patch /\ boot' = boot /\ pc' = "patch"
    BY <1>3 DEF WriteCmaPlan
  <2>2. cma' \in CmaPlans /\ cma' # None
    BY <1>1, <2>1, CmaPlanType, NoneIsNothing
  <2>3. TypeOK'
    BY <1>1, <2>1, <2>2 DEF TypeOK, Steps, given, sweep
  <2> QED
    BY <1>1, <1>2, <2>1, <2>2, <2>3, NoneIsNothing DEF Artifacts, Decided, given, SelectorGate
<1>4. CASE WriteBootPlan
  <2>1. cma' = cma /\ patch' = BootPlan(cma, boot) /\ boot' = boot /\ pc' \in {"dry", "gguf"}
        /\ cma # None /\ cma \in CmaPlans
    BY <1>4 DEF WriteBootPlan, Artifacts, TypeOK
  <2>2. patch' \in BootPlans
    BY <2>1, BootPlanType DEF TypeOK
  <2>3. TypeOK'
    BY <1>1, <2>1, <2>2 DEF TypeOK, Steps, given, sweep
  <2> QED
    BY <1>1, <1>2, <2>1, <2>3, NoneIsNothing DEF Artifacts, Decided, given, SelectorGate
<1>5. CASE DryRun \/ EditBoot
  <2>1. cma' = cma /\ patch' = patch /\ boot' \in Boot /\ pc' \in {pc, "gguf", "aborted"}
    BY <1>5, RemoteAssumption DEF DryRun, EditBoot, TypeOK, plans
  <2>2. TypeOK'
    BY <1>1, <2>1 DEF TypeOK, Steps, Ended, given, sweep
  <2> QED
    BY <1>1, <1>2, <2>1, <2>2 DEF Artifacts, Decided, given, SelectorGate
<1> QED
  BY <1>3, <1>4, <1>5

LEMMA UnchangedDecisions ==
    ASSUME IInv, UNCHANGED <<given, selection, plans, args>>
    PROVE  Decided' /\ Forwards' /\ Planned' = Planned /\ PlanOk' = PlanOk
           /\ \A v \in Lanes : GateOf(v)' = GateOf(v)
  BY DEF IInv, Decided, Forwards, Relaxed, given, plans, SelectorGate, Planned, Matches,
         PlanOk, Declared, GateOf

LEMMA SweepStep == ASSUME IInv, CheckArtifacts \/ PlanSweep \/ RemoteFails PROVE IInv'
<1> USE DEF IInv
<1>1. UNCHANGED <<given, selection, plans, args>>
  BY DEF CheckArtifacts, PlanSweep, RemoteFails
<1>2. UNCHANGED <<boot, lane, entries>> /\ context' \in {context, selection, None}
      /\ lost' \in BOOLEAN /\ pc' \in {"aborted", "plan", "lane"}
  BY DEF CheckArtifacts, PlanSweep, RemoteFails, sweep, TypeOK
<1>3. TypeOK' /\ Artifacts'
  BY <1>1, <1>2 DEF TypeOK, Artifacts, Steps, Ended, given, plans
<1>4. pc' \in {"plan", "lane"} /\ Strict => PlanOk
  BY DEF CheckArtifacts, PlanSweep, RemoteFails, Swept, Strict
<1>5. pc' # "aborted" => lane = 1
  BY <1>2 DEF PlanSweep, CheckArtifacts, RemoteFails, Swept, Ended
<1>6. Swept'
  <2>1. \A v \in Planned : v \in Lanes /\ ~(v < 1)
    BY SelectorAssumption DEF Planned, Lanes
  <2>2. Strict' = Strict
    BY <1>1 DEF Strict, given
  <2>3. \A v \in Lanes : entries[v] # None => pc' = "aborted"
    BY <1>2 DEF CheckArtifacts, PlanSweep, RemoteFails, Swept, Ended
  <2> QED
    BY <1>1, <1>2, <1>4, <1>5, <2>1, <2>2, <2>3, UnchangedDecisions DEF Swept, Ended
<1> QED
  BY <1>1, <1>3, <1>6, UnchangedDecisions

LEMMA RunLaneStep == ASSUME IInv, RunLane PROVE IInv'
<1> USE DEF IInv
<1>1. UNCHANGED <<given, selection, plans, args>> /\ UNCHANGED <<boot, lost, context>>
      /\ pc = "lane" /\ lane \in Lanes
  BY DEF RunLane, TypeOK
<1>2. Count \in Nat \ {0}
  BY SelectorAssumption
<1>3. \/ lane < Count /\ lane' = lane + 1 /\ pc' = "lane"
      \/ lane = Count /\ lane' = lane /\ pc' = "done"
  BY <1>1, <1>2 DEF RunLane, Lanes
<1>4. entries' \in [Lanes -> {None} \cup Entries]
      /\ (lane \in Planned => /\ entries'[lane] # None
                              /\ entries'[lane].launched => Meets(entries'[lane].lfb, GateOf(lane)))
      /\ (lane \notin Planned => entries'[lane] = entries[lane])
      /\ \A v \in Lanes \ {lane} : entries'[v] = entries[v]
  <2>1. CASE lane \in Planned
    <3>1. PICK e \in Outcomes(lane) : entries' = [entries EXCEPT ![lane] = e]
      BY <2>1 DEF RunLane
    <3>2. e \in Entries /\ (e.launched => Meets(e.lfb, GateOf(lane))) /\ e # None
      BY <1>1, OutcomesType, RemoteAssumption
    <3> QED
      BY <1>1, <2>1, <3>1, <3>2 DEF TypeOK
  <2>2. CASE lane \notin Planned
    BY <2>2 DEF RunLane, TypeOK
  <2> QED
    BY <2>1, <2>2
<1>5. TypeOK'
  <2>1. lane' \in Lanes
    BY <1>1, <1>2, <1>3 DEF Lanes
  <2> QED
    BY <1>1, <1>3, <1>4, <2>1 DEF TypeOK, Steps, Ended, given, plans
<1>6. Artifacts'
  BY <1>3 DEF Artifacts
<1>7. \A v \in Lanes : entries[v] = None \/ v \in Planned
  BY DEF Swept
<1>8. ASSUME NEW v \in Planned, \/ pc' = "lane" /\ v < lane'
                                \/ pc' = "done"
      PROVE  entries'[v] # None
  <2>1. v \in Lanes /\ (v = lane \/ v < lane)
    BY <1>1, <1>2, <1>3, <1>8 DEF Planned, Lanes
  <2> QED
    BY <1>1, <1>4, <2>1, <1>8 DEF Swept, Lanes
<1>9. Strict => PlanOk
  BY <1>1 DEF Swept
<1>10. Swept'
  <2>1. Planned' = Planned /\ PlanOk' = PlanOk /\ Strict' = Strict
        /\ \A v \in Lanes : GateOf(v)' = GateOf(v)
    BY <1>1, UnchangedDecisions DEF Strict, given
  <2>2. ASSUME NEW v \in Lanes, entries'[v] # None
        PROVE  /\ v \in Planned
               /\ entries'[v].launched => Meets(entries'[v].lfb, GateOf(v))
    BY <1>1, <1>4, <1>7, <2>2 DEF Swept
  <2> QED
    BY <1>3, <1>8, <1>9, <2>1, <2>2 DEF Swept, Ended
<1> QED
  BY <1>1, <1>5, <1>6, <1>10, UnchangedDecisions

LEMMA InvStep == IInv /\ [Next]_vars => IInv'
<1> SUFFICES ASSUME IInv, [Next]_vars PROVE IInv'
  OBVIOUS
<1>1. CASE Select
  BY <1>1, SelectStep
<1>2. CASE Enrich
  BY <1>2, EnrichStep
<1>3. CASE WriteCmaPlan \/ WriteBootPlan \/ DryRun \/ EditBoot
  BY <1>3, PlanningStep
<1>4. CASE CheckArtifacts \/ PlanSweep \/ RemoteFails
  BY <1>4, SweepStep
<1>5. CASE RunLane
  BY <1>5, RunLaneStep
<1>6. CASE UNCHANGED vars
  <2>1. UNCHANGED <<given, selection, plans, args>> /\ UNCHANGED <<boot, pc, lost, sweep>>
    BY <1>6 DEF vars
  <2> QED
    BY <2>1, UnchangedDecisions DEF IInv, TypeOK, Artifacts, Swept, Strict, given, plans, sweep
<1> QED
  BY <1>1, <1>2, <1>3, <1>4, <1>5, <1>6 DEF Next

THEOREM Invariance == Spec => []IInv
<1>1. Init => IInv
  BY InitTyped
<1>2. IInv /\ [Next]_vars => IInv'
  BY InvStep
<1> QED
  BY <1>1, <1>2, PTL DEF Spec

-----------------------------------------------------------------------------
(* What follows from it. *)

(* The types of the wrapper, its artifacts and the sweep's entries, for any *)
(* catalog, any samples and any failing command.                            *)
THEOREM TypeCorrect == Spec => []TypeOK
<1>1. IInv => TypeOK
  BY DEF IInv
<1> QED
  BY <1>1, Invariance, PTL

(* The lane a selection chose, and the gate it was chosen by.               *)
LEMMA ChosenLane ==
    ASSUME IInv, NEW v \in Lanes, v = Selected(selection)
    PROVE  /\ selection \in Selections /\ selection.rank \in Ranks
           /\ selection.rank = 1 => v = Primary
           /\ selection.rank = 2 => v = Fallback /\ ~selection.candidates[1].usable
           /\ selection.candidates[selection.rank].min
                = GateAt(selection.rank, SelectorGate, option.relaxed)
<1>1. selection \in Selections /\ selection # None
  BY NoneIsNothing DEF Selected, IInv, TypeOK
<1>2. selection.rank \in Ranks
  BY <1>1, NoneIsNothing DEF Selected, Selections
<1>3. selection.rank = 2 => ~selection.candidates[1].usable
  BY <1>1 DEF IInv, Decided, ChosenRank
<1> QED
  BY <1>1, <1>2, <1>3, SelectedIsLane DEF IInv, Decided

(* The selected lane is launched only on a sample that meets the gate it    *)
(* was selected by (run_remote_optimization_sweep.sh:321-336).              *)
THEOREM SelectedLaneMeetsItsGate == Spec => []SelectedMeetsItsGate
<1>1. IInv => SelectedMeetsItsGate
  <2> SUFFICES ASSUME IInv, NEW v \in Lanes, Launched(v), v = Selected(selection),
                      request.min # None, request.override[v] = None
               PROVE  Meets(entries[v].lfb, selection.candidates[selection.rank].min)
    BY DEF SelectedMeetsItsGate
  <2>1. Meets(entries[v].lfb, GateOf(v))
    BY DEF Launched, IInv, Swept
  <2>2. args.override[v] = IF Relaxed(v) THEN option.relaxed ELSE request.override[v]
    BY DEF IInv, Forwards
  <2>3. GateOf(v) = GateAt(selection.rank, SelectorGate, option.relaxed)
    BY <2>2, ChosenLane, PairInLanes DEF GateOf, GateAt, Relaxed, SelectorGate, Ranks
  <2> QED
    BY <2>1, <2>3, ChosenLane
<1> QED
  BY <1>1, Invariance, PTL

(* The relaxed gate applies only to a fallback that was selected because    *)
(* the primary was not usable.                                              *)
THEOREM RelaxationIsForFallback == Spec => []RelaxedOnlyForFallback
<1>1. IInv => RelaxedOnlyForFallback
  <2> SUFFICES ASSUME IInv, NEW v \in Lanes, Launched(v), request.override[v] = None,
                      ~Meets(entries[v].lfb, request.min)
               PROVE  /\ v = Fallback /\ v = Selected(selection)
                      /\ option.relaxed # None
                      /\ ~selection.candidates[1].usable
    BY DEF RelaxedOnlyForFallback
  <2>1. Meets(entries[v].lfb, GateOf(v))
    BY DEF Launched, IInv, Swept
  <2>2. args.override[v] # None
    BY <2>1 DEF GateOf
  <2>3. Relaxed(v)
    BY <2>2 DEF IInv, Forwards
  <2>4. selection.rank = 2
    BY <2>3, ChosenLane, PairInLanes DEF Relaxed, Ranks
  <2> QED
    BY <2>3, <2>4, ChosenLane DEF Relaxed
<1> QED
  BY <1>1, Invariance, PTL

(* Every lane the user named and the selected one have an entry when the    *)
(* sweep is done.                                                           *)
THEOREM NamedLanesHaveEntries == Spec => []NamedLanesAreSwept
<1>1. IInv => NamedLanesAreSwept
  <2> SUFFICES ASSUME IInv, pc = "done", request.models = {},
                      NEW v \in request.variants \cup ({Selected(selection)} \ {None})
               PROVE  entries[v] # None
    BY DEF NamedLanesAreSwept
  <2>1. v \in args.variants /\ v \in Lanes
    BY DEF IInv, Forwards, TypeOK
  <2>2. v \in Planned
    BY <2>1 DEF Planned, Matches
  <2> QED
    BY <2>2 DEF IInv, Swept
<1> QED
  BY <1>1, Invariance, PTL

(* With a failing preflight fatal, what is launched has all its GGUF files. *)
THEOREM LaunchedFilesAreValid == Spec => []LaunchedArtifactsAreValid
<1>1. IInv => LaunchedArtifactsAreValid
  <2> SUFFICES ASSUME IInv, Strict, NEW v \in Lanes, NEW r \in {"model", "mmproj"}, Launched(v)
               PROVE  host.artifact[v][r] \in {"ok", "unconfigured"}
    BY DEF LaunchedArtifactsAreValid, Strict
  <2>1. v \in Planned /\ PlanOk
    BY DEF IInv, Swept, Launched
  <2> QED
    BY <2>1 DEF PlanOk, Declared
<1> QED
  BY <1>1, Invariance, PTL

(* The reservation proposed for every candidate is enough for each, at most *)
(* a rounding step too large, and can be written as a boot argument.        *)
THEOREM PlannedSizesSuffice == Spec => []PlannedSizeSuffices
<1>1. IInv => PlannedSizeSuffices
  <2> SUFFICES ASSUME IInv, cma # None, NEW e \in cma.experiments, e[1] = "rounded"
               PROVE  /\ Evidence(selection) # None =>
                           PrebootShort(selection,
                                        [Evidence(selection) EXCEPT !.reserved = e[3]]) = {}
                      /\ \E r \in Ranks :
                           e[3] < Required(selection, r, PlanBlock(selection)) + StepMiB * MiB
                      /\ e[3] > 0 => e \in Bootable(cma)
    BY DEF PlannedSizeSuffices
  <2>1. /\ selection \in Selections /\ Grounded(selection) /\ cma = CmaPlan(selection)
        /\ e \in Experiments(selection, PlanBlock(selection))
    BY DEF IInv, Decided, TypeOK, CmaPlan
  <2> QED
    BY <2>1, RoundedSuffices
<1> QED
  BY <1>1, Invariance, PTL
=============================================================================
