-------------------------- MODULE WorkflowRunProofs --------------------------
(***************************************************************************)
(* What runs of any loaded workflows keep, any number of them side by      *)
(* side.  The shape of a built workflow is all that is used of the loader  *)
(* (PlansAssumption); what a promise needs beyond it is a condition on the *)
(* workflows, named in front of the theorem.                               *)
(***************************************************************************)
EXTENDS WorkflowRun, TLAPS

(* The workflow of a run never changes.                                    *)
Planned ==
  /\ plan = [r \in Run |-> plan[r]]
  /\ \A r \in Run : plan[r] \in StartedOn(r)

(* Where a run stands.                                                     *)
Placed(r) ==
  /\ at[r].body \in DOMAIN plan[r]
  /\ at[r].level \in 1 .. Len(Current(r)) + 1
  /\ at[r].body # <<>> =>
       /\ at[r].outer \in DOMAIN plan[r][<<>>]
       /\ Len(plan[r][<<>>][at[r].outer]) = 1
       /\ LoopStep(r).kind = "loop" /\ LoopStep(r).id = at[r].body
  /\ status[r] = "awaiting" =>
       at[r].level <= Len(Current(r)) /\ Alone(r) /\ Only(r).kind = "gate"

(* What the steps make of the context c: its keys stay, those that give a  *)
(* value have one in d, and nothing changes but what they write.           *)
Extends(c, d, steps) ==
  /\ DOMAIN c \subseteq DOMAIN d
  /\ \A s \in steps : s.kind \notin Silent => s.id \in DOMAIN d
  /\ \A k \in DOMAIN d : (\A s \in steps : k \notin Written(s)) => k \in DOMAIN c /\ d[k] = c[k]

(* The ends of a parallel level each extend the context it began with.     *)
PartOK(r) ==
  DOMAIN part[r] # {} =>
    /\ AtWork(r) /\ ~Alone(r)
    /\ \A k \in DOMAIN part[r] : \E s \in ToSet(Level(r)) :
         s.id = k /\ (part[r][k] # None => Extends(ctx[r], part[r][k], {s}))

RunInv == TypeOK /\ Planned /\ \A r \in Run : Placed(r) /\ PartOK(r)

(***************************************************************************)
(* Keys and built steps.                                                   *)
(***************************************************************************)
LEMMA SetLemma ==
  ASSUME NEW c, NEW k, NEW v
  PROVE  /\ DOMAIN Set(c, k, v) = {k} \cup DOMAIN c
         /\ Set(c, k, v)[k] = v
         /\ \A x \in DOMAIN c \ {k} : Set(c, k, v)[x] = c[x]
BY DEF Set

LEMMA AppendType ==
  ASSUME NEW S, NEW s \in Seq(S), NEW e \in S
  PROVE  /\ Append(s, e) \in Seq(S)
         /\ Len(Append(s, e)) = Len(s) + 1
         /\ Append(s, e) # <<>>
<1>1. Append(s, e) \in Seq(S) /\ Len(Append(s, e)) = Len(s) + 1 /\ Len(s) \in Nat
  OBVIOUS
<1> DEFINE t == Append(s, e)
<1>2. t \in Seq(S) /\ Len(t) # 0
  BY <1>1
<1> HIDE DEF t
<1>3. t # <<>>
  BY <1>2
<1> QED
  BY <1>1, <1>3 DEF t

LEMMA SingleType ==
  ASSUME NEW S, NEW e \in S
  PROVE  <<e>> \in Seq(S) /\ <<e>> # <<>>
OBVIOUS

LEMMA FrontType ==
  ASSUME NEW id \in Key
  PROVE  Front(id) \in Key
BY DEF Front, Key

LEMMA NsKeyType ==
  ASSUME NEW id \in Key, NEW bare \in Name
  PROVE  NsKey(id, bare) \in Key \ {<<>>}
<1>1. Front(id) \in Seq(Name)
  BY FrontType DEF Key
<1> QED
  BY <1>1, AppendType, Zenon DEF NsKey, Key

LEMMA PublishedType ==
  ASSUME NEW id \in Key
  PROVE  PublishedKey(id) \in Key \ {<<>>}
<1>1. "revisedSpec" \in Name
  BY NameAssumption
<1>2. <<"revisedSpec">> \in Key \ {<<>>}
  BY <1>1, SingleType, Zenon DEF Key
<1>3. NsKey(Front(id), "revisedSpec") \in Key \ {<<>>}
  BY <1>1, FrontType, NsKeyType, Zenon
<1> QED
  BY <1>2, <1>3 DEF PublishedKey

LEMMA SetIsContext ==
  ASSUME NEW c, IsContext(c), NEW k \in Key, NEW v \in Values
  PROVE  IsContext(Set(c, k, v))
BY DEF IsContext, Set

LEMMA LevelFacts ==
  ASSUME NEW levels, BuiltWorkflow(levels), NEW n \in DOMAIN levels
  PROVE  /\ Len(levels) \in Nat \ {0} /\ DOMAIN levels = 1 .. Len(levels)
         /\ Len(levels[n]) \in Nat \ {0}
         /\ levels[n][1] \in ToSet(levels[n])
         /\ Len(levels[n]) = 1 => ToSet(levels[n]) = {levels[n][1]}
         /\ ToSet(levels[n]) \subseteq BuiltStep
<1>1. levels \in Seq(Seq(BuiltStep)) /\ levels # <<>> /\ levels[n] # <<>>
  BY DEF BuiltWorkflow
<1>2. levels[n] \in Seq(BuiltStep)
  BY <1>1
<1>3. Len(levels) \in Nat \ {0} /\ DOMAIN levels = 1 .. Len(levels)
  BY <1>1
<1>4. Len(levels[n]) \in Nat \ {0} /\ DOMAIN levels[n] = 1 .. Len(levels[n])
  BY <1>1, <1>2
<1> QED
  BY <1>2, <1>3, <1>4 DEF ToSet

LEMMA BuiltNotEmpty ==
  ASSUME NEW levels, BuiltWorkflow(levels)
  PROVE  Len(levels) \in Nat \ {0} /\ DOMAIN levels = 1 .. Len(levels)
BY DEF BuiltWorkflow

LEMMA PlanFacts ==
  ASSUME Planned, NEW r \in Run
  PROVE  BuiltPlan(plan[r])
<1>1. PICK id \in Starts[r] : plan[r] = Plans[id]
  BY DEF Planned, StartedOn
<1>2. id \in DOMAIN Plans
  BY <1>1, PlansAssumption
<1>3. Plans[id] \in Range(Plans)
  BY <1>2 DEF Range
<1> QED
  BY <1>1, <1>3, PlansAssumption
(***************************************************************************)
(* What steps write.                                                       *)
(***************************************************************************)
LEMMA WrittenFacts ==
  ASSUME NEW s \in BuiltStep
  PROVE  /\ s.kind \notin Silent => s.id \in Written(s)
         /\ s.kind = "llm" /\ s.produces => PublishedKey(s.id) \in Written(s)
         /\ s.kind = "assemble-spec" => NsKey(s.id, "spec") \in Written(s)
         /\ s.kind = "gate" => Written(s) = {Append(s.id, "approved")}
         /\ s.kind = "persist-ticket" => Written(s) = {NsKey(s.id, "ticketId")}
<1>1. s.produces \in BOOLEAN
  BY DEF BuiltStep
<1> QED
  BY <1>1 DEF Written, Silent

LEMMA StepTyped ==
  ASSUME NEW s \in BuiltStep
  PROVE  /\ s.id \in Key /\ s.id \in Seq(Name) /\ s.id # <<>>
         /\ \A bare \in Name : NsKey(s.id, bare) \in Key
         /\ Append(s.id, "approved") \in Key
         /\ PublishedKey(s.id) \in Key
<1>1. s.id \in Key /\ s.id # <<>>
  BY DEF BuiltStep
<1>2. Append(s.id, "approved") \in Key
  BY <1>1, NameAssumption, AppendType, Zenon DEF Key
<1> QED
  BY <1>1, <1>2, NsKeyType, PublishedType DEF Key

LEMMA ValueType ==
  ASSUME NEW by \in Key, NEW made \in Made, NEW good \in BOOLEAN, NEW seen \in Trees
  PROVE  /\ Value(by, made, good, seen) \in Values
         /\ Value(by, made, good, seen).by = by /\ Value(by, made, good, seen).made = made
         /\ Value(by, made, good, seen).good = good /\ Value(by, made, good, seen).seen = seen
BY DEF Value, Values

LEMMA SetExtends ==
  ASSUME NEW c, NEW k, NEW v, NEW steps, NEW s \in steps, k \in Written(s),
         \A t \in steps : t.kind \notin Silent => t.id = k
  PROVE  Extends(c, Set(c, k, v), steps)
<1> DEFINE d == Set(c, k, v)
<1>1. DOMAIN d = {k} \cup DOMAIN c /\ \A x \in DOMAIN c \ {k} : d[x] = c[x]
  BY DEF Set
<1> HIDE DEF d
<1>2. Extends(c, d, steps)
  BY <1>1 DEF Extends
<1> QED
  BY <1>2 DEF d

LEMMA ExtendedFacts ==
  ASSUME NEW c, IsContext(c), NEW s \in BuiltStep, Works(s), NEW v \in Values
  PROVE  /\ IsContext(Extended(c, s, v))
         /\ Extends(c, Extended(c, s, v), {s})
         /\ s.kind # "llm" => Extended(c, s, v)[s.id] = v
<1> DEFINE own == Set(c, s.id, v)
<1>1. s.kind \notin Silent
  BY DEF Works, Silent
<1>2. IsContext(own)
  BY StepTyped, SetIsContext
<1>3. Extends(c, own, {s}) /\ own[s.id] = v
  <2>1. s.id \in Written(s)
    BY <1>1, WrittenFacts
  <2>2. Extends(c, Set(c, s.id, v), {s})
    BY <2>1, SetExtends
  <2>3. own[s.id] = v
    BY DEF Set
  <2> QED
    BY <2>2, <2>3
<1>4. CASE s.kind = "llm" /\ s.produces /\ v.made = "value"
  <2> DEFINE both == Set(own, PublishedKey(s.id), v)
  <2>1. Extended(c, s, v) = both
    BY <1>4 DEF Extended
  <2>2. IsContext(both)
    BY <1>2, StepTyped, SetIsContext
  <2>3. Extends(c, both, {s})
    <3>1. PublishedKey(s.id) \in Written(s)
      BY <1>4, WrittenFacts
    <3>2. DOMAIN both = {PublishedKey(s.id)} \cup DOMAIN own
          /\ \A x \in DOMAIN own \ {PublishedKey(s.id)} : both[x] = own[x]
      BY SetLemma
    <3> HIDE DEF own, both
    <3> QED
      BY <1>3, <3>1, <3>2 DEF Extends
  <2> QED
    BY <1>4, <2>1, <2>2, <2>3
<1>5. CASE ~(s.kind = "llm" /\ s.produces /\ v.made = "value")
  BY <1>2, <1>3, <1>5 DEF Extended
<1> QED
  BY <1>4, <1>5

LEMMA OutcomeFacts ==
  ASSUME TypeOK, NEW r \in Run, NEW s \in BuiltStep, NEW v \in Outcomes(r, s)
  PROVE  /\ v \in Values
         /\ s.kind = "check" => v.seen = tree
<1>1. tree \in Trees /\ None \in Trees /\ {"value", "marker"} \subseteq Made
  BY DEF TypeOK, Trees, Made
<1>2. s.id \in Key
  BY StepTyped
<1>3. PICK made \in {"value", "marker"}, good \in BOOLEAN, seen \in {tree, None} :
        v = Value(s.id, made, good, seen) /\ (s.kind = "check" => seen = tree)
  BY DEF Outcomes
<1> QED
  BY <1>1, <1>2, <1>3, ValueType

LEMMA MergedFacts ==
  ASSUME NEW c, NEW level \in Seq(BuiltStep), level # <<>>, NEW ends,
         \A s \in ToSet(level) : s.kind \notin Silent,
         \A s, t \in ToSet(level) : s.id = t.id => s = t,
         \A s \in ToSet(level) : IsContext(ends[s.id]) /\ Extends(c, ends[s.id], {s})
  PROVE  IsContext(Merged(level, ends)) /\ Extends(c, Merged(level, ends), ToSet(level))
<1> DEFINE first == ends[level[1].id]
           others == Ids(level) \ {level[1].id}
           merged == Merged(level, ends)
<1>1. level[1] \in ToSet(level) /\ ToSet(level) \subseteq BuiltStep
  BY DEF ToSet
<1>2. /\ DOMAIN merged = others \cup DOMAIN first
      /\ merged = [k \in DOMAIN merged |-> merged[k]]
      /\ \A k \in DOMAIN merged : merged[k] = IF k \in others THEN ends[k][k] ELSE first[k]
  BY DEF Merged
<1>3. IsContext(first) /\ Extends(c, first, {level[1]})
  BY <1>1
<1>4. \A k \in others : \E s \in ToSet(level) :
        k = s.id /\ IsContext(ends[k]) /\ Extends(c, ends[k], {s}) /\ k \in DOMAIN ends[k]
  BY DEF Ids, Extends
<1> HIDE DEF first, others, merged
<1>5. IsContext(merged)
  BY <1>2, <1>3, <1>4 DEF IsContext
<1>6. Extends(c, merged, ToSet(level))
  <2>1. DOMAIN c \subseteq DOMAIN merged
    BY <1>2, <1>3 DEF Extends
  <2>2. \A s \in ToSet(level) : s.id \in DOMAIN merged
    BY <1>1, <1>2, <1>3 DEF Extends, others, Ids
  <2>3. ASSUME NEW k \in DOMAIN merged, \A s \in ToSet(level) : k \notin Written(s)
        PROVE  k \in DOMAIN c /\ merged[k] = c[k]
    <3>1. k \notin others
      BY <1>1, <2>3, WrittenFacts DEF others, Ids
    <3>2. k \in DOMAIN first /\ merged[k] = first[k]
      BY <1>2, <3>1
    <3> QED
      BY <1>1, <1>3, <2>3, <3>2 DEF Extends
  <2> QED
    BY <2>1, <2>2, <2>3 DEF Extends
<1> QED
  BY <1>5, <1>6 DEF merged
(***************************************************************************)
(* How a step of the engine or of an approver moves a run.                 *)
(***************************************************************************)
Others(r) ==
  \A q \in Run \ {r} :
    /\ at'[q] = at[q] /\ ctx'[q] = ctx[q] /\ part'[q] = part[q] /\ status'[q] = status[q]
    /\ shown'[q] = shown[q] /\ approved'[q] = approved[q] /\ source'[q] = source[q]
    /\ ticket'[q] = ticket[q] /\ saving'[q] = saving[q]

Rests(r) == at'[r] = at[r] /\ ctx'[r] = ctx[r]

Passes(r) ==
  /\ status[r] \in {"running", "awaiting"}
  /\ at[r].level <= Len(Current(r))
  /\ \A s \in ToSet(Level(r)) : s.kind # "loop"
  /\ at'[r] = [at[r] EXCEPT !.level = @ + 1]
  /\ Extends(ctx[r], ctx'[r], ToSet(Level(r)))
  /\ status'[r] # "awaiting" /\ DOMAIN part'[r] = {}

Begins(r) ==
  /\ AtStep(r, "loop")
  /\ at'[r] = [body |-> Only(r).id, level |-> 1, round |-> 0, outer |-> at[r].level]
  /\ ctx'[r] = ctx[r] /\ status'[r] = "running" /\ part'[r] = part[r]

Repeats(r) ==
  /\ status[r] = "running" /\ at[r].body # <<>> /\ at[r].level > Len(Current(r))
  /\ \E n \in Nat : at'[r] = [at[r] EXCEPT !.level = 1, !.round = n]
  /\ ctx'[r] = ctx[r] /\ status'[r] = "running" /\ part'[r] = part[r]

Leaves(r) ==
  /\ status[r] = "running" /\ at[r].body # <<>> /\ at[r].level > Len(Current(r))
  /\ at'[r] = [body |-> <<>>, level |-> at[r].outer + 1, round |-> 0, outer |-> 0]
  /\ \E v \in Values : ctx'[r] = Set(ctx[r], LoopStep(r).id, v)
  /\ status'[r] # "awaiting" /\ part'[r] = part[r]

Moves(r) ==
  /\ plan' = plan /\ Others(r)
  /\ Rests(r) \/ Passes(r) \/ Begins(r) \/ Repeats(r) \/ Leaves(r)

LEMMA PositionFacts ==
  ASSUME NEW p \in Position
  PROVE  /\ p.body \in Key /\ p.level \in Nat \ {0} /\ p.round \in Nat /\ p.outer \in Nat
         /\ [p EXCEPT !.level = @ + 1] \in Position
         /\ \A n \in Nat : [p EXCEPT !.level = 1, !.round = n] \in Position
<1>1. p.body \in Key /\ p.level \in Nat \ {0} /\ p.round \in Nat /\ p.outer \in Nat
  BY DEF Position
<1>2. p.level + 1 \in Nat \ {0}
  BY <1>1
<1>3. [p EXCEPT !.level = @ + 1] \in Position
  BY <1>1, <1>2 DEF Position
<1>4. ASSUME NEW n \in Nat
      PROVE  [p EXCEPT !.level = 1, !.round = n] \in Position
  <2>1. [p EXCEPT !.level = 1] \in Position
    BY <1>1 DEF Position
  <2> DEFINE first == [p EXCEPT !.level = 1]
  <2>2. [p EXCEPT !.level = 1, !.round = n] = [first EXCEPT !.round = n]
    OBVIOUS
  <2> HIDE DEF first
  <2>3. first \in Position
    BY <2>1 DEF first
  <2>4. [first EXCEPT !.round = n] \in Position
    BY <2>3 DEF Position
  <2> QED
    BY <2>2, <2>4
<1> QED
  BY <1>1, <1>3, <1>4

LEMMA LevelHere ==
  ASSUME RunInv, NEW r \in Run
  PROVE  /\ BuiltPlan(plan[r]) /\ BuiltWorkflow(Current(r))
         /\ Len(Current(r)) \in Nat /\ at[r].level \in Nat \ {0}
         /\ at[r].level <= Len(Current(r)) =>
              /\ at[r].level \in DOMAIN Current(r)
              /\ Level(r) \in Seq(BuiltStep) /\ Level(r) # <<>>
              /\ ToSet(Level(r)) \subseteq BuiltStep
              /\ \A s, t \in ToSet(Level(r)) : s.id = t.id => s = t
              /\ \A s \in ToSet(Level(r)) : s.writes => s.kind = "llm"
              /\ Alone(r) => Only(r) \in BuiltStep /\ ToSet(Level(r)) = {Only(r)}
              /\ ~Alone(r) => \A s \in ToSet(Level(r)) : s.kind = "llm"
<1>1. BuiltPlan(plan[r])
  BY PlanFacts DEF RunInv
<1>2. BuiltWorkflow(Current(r))
  BY <1>1 DEF RunInv, Placed, Current, BuiltPlan
<1>3. at[r].level \in Nat \ {0}
  <2>1. at[r] \in Position
    BY DEF RunInv, TypeOK
  <2> QED
    BY <2>1, PositionFacts
<1>4. Current(r) \in Seq(Seq(BuiltStep))
  BY <1>2 DEF BuiltWorkflow
<1>5. Len(Current(r)) \in Nat
  BY <1>4
<1>6. ASSUME at[r].level <= Len(Current(r))
      PROVE  /\ at[r].level \in DOMAIN Current(r)
             /\ Level(r) \in Seq(BuiltStep) /\ Level(r) # <<>>
             /\ ToSet(Level(r)) \subseteq BuiltStep
             /\ \A s, t \in ToSet(Level(r)) : s.id = t.id => s = t
             /\ \A s \in ToSet(Level(r)) : s.writes => s.kind = "llm"
             /\ Alone(r) => Only(r) \in BuiltStep /\ ToSet(Level(r)) = {Only(r)}
             /\ ~Alone(r) => \A s \in ToSet(Level(r)) : s.kind = "llm"
  <2>1. at[r].level \in DOMAIN Current(r)
    BY <1>3, <1>4, <1>6
  <2>2. Level(r) \in Seq(BuiltStep)
    BY <1>4, <2>1 DEF Level
  <2>3. /\ Len(Level(r)) \in Nat \ {0} /\ Level(r)[1] \in ToSet(Level(r))
        /\ Len(Level(r)) = 1 => ToSet(Level(r)) = {Level(r)[1]}
        /\ ToSet(Level(r)) \subseteq BuiltStep
    BY <1>2, <2>1, LevelFacts DEF Level
  <2>4. /\ Level(r) # <<>>
        /\ Len(Level(r)) > 1 => \A s \in ToSet(Level(r)) : s.kind = "llm"
        /\ \A s \in ToSet(Level(r)) : s.writes => s.kind = "llm"
        /\ \A s, t \in ToSet(Level(r)) : s.id = t.id => s = t
    BY <1>2, <2>1 DEF BuiltWorkflow, Level
  <2>5. Alone(r) => Only(r) \in BuiltStep /\ ToSet(Level(r)) = {Only(r)}
    BY <2>3 DEF Alone, Only
  <2>6. ~Alone(r) => \A s \in ToSet(Level(r)) : s.kind = "llm"
    <3> DEFINE size == Len(Level(r))
    <3>0. size \in Nat \ {0} /\ (Alone(r) <=> size = 1)
      BY <2>3 DEF Alone
    <3> HIDE DEF size
    <3>1. ~Alone(r) => size > 1
      BY <3>0
    <3> QED
      BY <2>4, <3>1 DEF size
  <2> QED
    BY <2>1, <2>2, <2>3, <2>4, <2>5, <2>6
<1> QED
  BY <1>1, <1>2, <1>3, <1>5, <1>6

LEMMA AdvancePasses ==
  ASSUME RunInv, NEW r \in Run, status[r] = "running", at[r].level <= Len(Current(r)),
         \A s \in ToSet(Level(r)) : s.kind # "loop",
         NEW c, IsContext(c), Extends(ctx[r], c, ToSet(Level(r))), Advance(r, c),
         DOMAIN part'[r] = {}
  PROVE  /\ Passes(r)
         /\ ctx' = [q \in Run |-> ctx'[q]] /\ \A q \in Run : IsContext(ctx'[q])
         /\ at' \in [Run -> Position]
         /\ status' \in [Run -> {"running", "awaiting", "completed", "failed"}]
         /\ \A q \in Run \ {r} : at'[q] = at[q] /\ ctx'[q] = ctx[q] /\ status'[q] = status[q]
<1>1. /\ at \in [Run -> Position]
      /\ ctx = [q \in Run |-> ctx[q]] /\ \A q \in Run : IsContext(ctx[q])
      /\ status \in [Run -> {"running", "awaiting", "completed", "failed"}]
  BY DEF RunInv, TypeOK
<1>2. at' = [at EXCEPT ![r].level = @ + 1] /\ ctx' = [ctx EXCEPT ![r] = c]
  BY DEF Advance
<1>3. status' \in {status, [status EXCEPT ![r] = "completed"]}
  BY DEF Advance
<1>4. ctx' = [q \in Run |-> ctx'[q]] /\ ctx'[r] = c /\ \A q \in Run \ {r} : ctx'[q] = ctx[q]
  BY <1>1, <1>2
<1>5. /\ at' \in [Run -> Position]
      /\ at'[r] = [at[r] EXCEPT !.level = @ + 1] /\ \A q \in Run \ {r} : at'[q] = at[q]
  <2>1. [at[r] EXCEPT !.level = @ + 1] \in Position
    BY <1>1, PositionFacts
  <2> QED
    BY <1>1, <1>2, <2>1
<1>6. /\ status' \in [Run -> {"running", "awaiting", "completed", "failed"}]
      /\ status'[r] \in {"running", "completed"} /\ \A q \in Run \ {r} : status'[q] = status[q]
  BY <1>1, <1>3
<1>7. \A q \in Run : IsContext(ctx'[q])
  BY <1>1, <1>4
<1> QED
  BY <1>4, <1>5, <1>6, <1>7 DEF Passes

LEMMA EndStepMoves ==
  ASSUME RunInv, NEW r \in Run, EndStep(r)
  PROVE  TypeOK' /\ Moves(r)
<1> DEFINE s == Only(r)
<1>1. /\ status[r] = "running" /\ at[r].level <= Len(Current(r)) /\ Alone(r)
      /\ s.kind \in {"llm", "check", "review-material"}
  BY DEF EndStep, AtStep
<1>2. /\ BuiltWorkflow(Current(r)) /\ s \in BuiltStep /\ ToSet(Level(r)) = {s}
  BY <1>1, LevelHere
<1>3. UNCHANGED <<plan, part, shown, approved, disk, source, ticket, saving>>
  BY DEF EndStep
<1>4. tree' \in Trees
  <2>1. tree \in Trees /\ s.id \in Key
    BY <1>2, StepTyped DEF RunInv, TypeOK
  <2>2. tree' \in {tree, [of |-> r, step |-> s.id]}
    BY DEF EndStep, Touches
  <2> QED
    BY <2>1, <2>2 DEF Trees
<1>5. DOMAIN part'[r] = {}
  BY <1>1, <1>3 DEF RunInv, PartOK
<1> HIDE DEF s
<1>6. CASE \E v \in Outcomes(r, s) : Advance(r, Extended(ctx[r], s, v))
  <2>1. PICK v \in Outcomes(r, s) : Advance(r, Extended(ctx[r], s, v))
    BY <1>6
  <2> DEFINE c == Extended(ctx[r], s, v)
  <2>2. v \in Values
    BY <1>2, OutcomeFacts DEF RunInv
  <2>3. Works(s) /\ IsContext(ctx[r])
    BY <1>1 DEF Works, RunInv, TypeOK
  <2>4. IsContext(c) /\ Extends(ctx[r], c, ToSet(Level(r)))
    BY <1>2, <2>2, <2>3, ExtendedFacts
  <2>5. Advance(r, c)
    BY <2>1
  <2>6. \A t \in ToSet(Level(r)) : t.kind # "loop"
    BY <1>1, <1>2
  <2> HIDE DEF c
  <2>7. /\ Passes(r)
        /\ ctx' = [q \in Run |-> ctx'[q]] /\ \A q \in Run : IsContext(ctx'[q])
        /\ at' \in [Run -> Position]
        /\ status' \in [Run -> {"running", "awaiting", "completed", "failed"}]
        /\ \A q \in Run \ {r} : at'[q] = at[q] /\ ctx'[q] = ctx[q] /\ status'[q] = status[q]
    BY <1>1, <1>5, <2>4, <2>5, <2>6, AdvancePasses
  <2>8. TypeOK'
    BY <1>3, <1>4, <2>7 DEF RunInv, TypeOK
  <2>9. Others(r)
    BY <1>3, <2>7 DEF Others
  <2> QED
    BY <1>3, <2>7, <2>8, <2>9 DEF Moves
<1>7. CASE Fails(r) /\ UNCHANGED <<at, ctx>>
  <2>1. /\ status' \in [Run -> {"running", "awaiting", "completed", "failed"}]
        /\ \A q \in Run \ {r} : status'[q] = status[q]
    BY <1>7 DEF Fails, RunInv, TypeOK
  <2>2. TypeOK'
    BY <1>3, <1>4, <1>7, <2>1 DEF RunInv, TypeOK
  <2> QED
    BY <1>3, <1>7, <2>1, <2>2 DEF Moves, Others, Rests
<1> QED
  BY <1>6, <1>7 DEF EndStep, s

LEMMA FailsTyped ==
  ASSUME TypeOK, NEW r \in Run, Fails(r)
  PROVE  /\ status' \in [Run -> {"running", "awaiting", "completed", "failed"}]
         /\ status'[r] = "failed" /\ \A q \in Run \ {r} : status'[q] = status[q]
BY DEF Fails, TypeOK

LEMMA EndParallelMoves ==
  ASSUME RunInv, NEW r \in Run, EndParallel(r)
  PROVE  TypeOK' /\ Moves(r)
<1>1. /\ status[r] = "running" /\ at[r].level <= Len(Current(r)) /\ ~Alone(r)
      /\ UNCHANGED <<plan, at, ctx, status, shown, approved, disk, source, ticket, saving>>
  BY DEF EndParallel
<1>a. PICK s \in ToSet(Level(r)) :
        /\ \E end : /\ part' = [part EXCEPT ![r] = Set(@, s.id, end)]
                    /\ end # None => \E v \in Outcomes(r, s) : end = Extended(ctx[r], s, v)
        /\ Touches(r, s)
  BY DEF EndParallel
<1>2. PICK end :
        /\ part' = [part EXCEPT ![r] = Set(@, s.id, end)]
        /\ end # None => \E v \in Outcomes(r, s) : end = Extended(ctx[r], s, v)
        /\ Touches(r, s)
  BY <1>a
<1>3. s \in BuiltStep /\ s.kind = "llm"
  BY <1>1, LevelHere
<1>4. tree' \in Trees
  <2>1. tree \in Trees /\ s.id \in Key
    BY <1>3, StepTyped DEF RunInv, TypeOK
  <2>2. tree' \in {tree, [of |-> r, step |-> s.id]}
    BY <1>2 DEF Touches
  <2> QED
    BY <2>1, <2>2 DEF Trees
<1>5. ASSUME end # None PROVE IsContext(end)
  <2>1. PICK v \in Outcomes(r, s) : end = Extended(ctx[r], s, v)
    BY <1>2, <1>5
  <2>2. v \in Values
    BY <1>3, OutcomeFacts DEF RunInv
  <2>3. Works(s) /\ IsContext(ctx[r])
    BY <1>3 DEF Works, RunInv, TypeOK
  <2> QED
    BY <1>3, <2>1, <2>2, <2>3, ExtendedFacts
<1> DEFINE ends == Set(part[r], s.id, end)
<1>6. /\ ends = [k \in DOMAIN ends |-> ends[k]]
      /\ \A k \in DOMAIN ends : ends[k] = end \/ (k \in DOMAIN part[r] /\ ends[k] = part[r][k])
  BY DEF Set
<1> HIDE DEF ends
<1>7. /\ part' = [q \in Run |-> part'[q]] /\ part'[r] = ends
      /\ \A q \in Run \ {r} : part'[q] = part[q]
  BY <1>2 DEF RunInv, TypeOK, ends
<1>8. /\ \A q \in Run : part'[q] = [k \in DOMAIN part'[q] |-> part'[q][k]]
      /\ \A q \in Run : \A k \in DOMAIN part'[q] : part'[q][k] # None => IsContext(part'[q][k])
  <2>1. /\ \A q \in Run : part[q] = [k \in DOMAIN part[q] |-> part[q][k]]
        /\ \A q \in Run : \A k \in DOMAIN part[q] : part[q][k] # None => IsContext(part[q][k])
    BY DEF RunInv, TypeOK
  <2>2. ASSUME NEW q \in Run
        PROVE  /\ part'[q] = [k \in DOMAIN part'[q] |-> part'[q][k]]
               /\ \A k \in DOMAIN part'[q] : part'[q][k] # None => IsContext(part'[q][k])
    <3>1. CASE q # r
      BY <1>7, <2>1, <3>1
    <3>2. CASE q = r
      <4>1. \A k \in DOMAIN ends : ends[k] # None => IsContext(ends[k])
        BY <1>5, <1>6, <2>1
      <4> QED
        BY <1>6, <1>7, <3>2, <4>1
    <3> QED
      BY <3>1, <3>2
  <2> QED
    BY <2>2
<1>9. TypeOK'
  BY <1>1, <1>4, <1>7, <1>8 DEF RunInv, TypeOK
<1> QED
  BY <1>1, <1>7, <1>9 DEF Moves, Others, Rests

LEMMA MergeMoves ==
  ASSUME RunInv, NEW r \in Run, Merge(r)
  PROVE  TypeOK' /\ Moves(r)
<1>1. /\ status[r] = "running" /\ at[r].level <= Len(Current(r)) /\ ~Alone(r)
      /\ DOMAIN part[r] = Ids(Level(r))
      /\ part' = [part EXCEPT ![r] = <<>>]
      /\ UNCHANGED <<plan, shown, approved, tree, disk, source, ticket, saving>>
  BY DEF Merge
<1>2. /\ Level(r) \in Seq(BuiltStep) /\ Level(r) # <<>>
      /\ \A s \in ToSet(Level(r)) : s.kind = "llm"
      /\ \A s, t \in ToSet(Level(r)) : s.id = t.id => s = t
  BY <1>1, LevelHere
<1>3. part = [q \in Run |-> part[q]]
  BY DEF RunInv, TypeOK
<1>4. /\ part' = [q \in Run |-> part'[q]] /\ part'[r] = <<>>
      /\ \A q \in Run \ {r} : part'[q] = part[q]
  BY <1>1, <1>3
<1>5. DOMAIN <<>> = {} /\ <<>> = [k \in DOMAIN <<>> |-> <<>>[k]]
  OBVIOUS
<1>6. /\ \A q \in Run : part'[q] = [k \in DOMAIN part'[q] |-> part'[q][k]]
      /\ \A q \in Run : \A k \in DOMAIN part'[q] : part'[q][k] # None => IsContext(part'[q][k])
  BY <1>4, <1>5 DEF RunInv, TypeOK
<1>7. CASE \E k \in DOMAIN part[r] : part[r][k] = None
  <2>1. Fails(r) /\ UNCHANGED <<at, ctx>>
    BY <1>7 DEF Merge
  <2>2. /\ status' \in [Run -> {"running", "awaiting", "completed", "failed"}]
        /\ \A q \in Run \ {r} : status'[q] = status[q]
    BY <2>1, FailsTyped DEF RunInv
  <2>3. TypeOK'
    BY <1>1, <1>4, <1>6, <2>1, <2>2 DEF RunInv, TypeOK
  <2> QED
    BY <1>1, <1>4, <2>1, <2>2, <2>3 DEF Moves, Others, Rests
<1>8. CASE \A k \in DOMAIN part[r] : part[r][k] # None
  <2> DEFINE c == Merged(Level(r), part[r])
  <2>1. Advance(r, c)
    BY <1>8 DEF Merge
  <2>2. \A s \in ToSet(Level(r)) : IsContext(part[r][s.id]) /\ Extends(ctx[r], part[r][s.id], {s})
    <3>1. \A s \in ToSet(Level(r)) : s.id \in DOMAIN part[r]
      BY <1>1 DEF Ids
    <3> QED
      BY <1>2, <1>8, <3>1 DEF RunInv, TypeOK, PartOK
  <2>3. \A s \in ToSet(Level(r)) : s.kind \notin Silent /\ s.kind # "loop"
    BY <1>2 DEF Silent
  <2>4. IsContext(c) /\ Extends(ctx[r], c, ToSet(Level(r)))
    BY <1>2, <2>2, <2>3, MergedFacts
  <2> HIDE DEF c
  <2>5. DOMAIN part'[r] = {}
    BY <1>4, <1>5
  <2>7. /\ Passes(r)
        /\ ctx' = [q \in Run |-> ctx'[q]] /\ \A q \in Run : IsContext(ctx'[q])
        /\ at' \in [Run -> Position]
        /\ status' \in [Run -> {"running", "awaiting", "completed", "failed"}]
        /\ \A q \in Run \ {r} : at'[q] = at[q] /\ ctx'[q] = ctx[q] /\ status'[q] = status[q]
    BY <1>1, <2>1, <2>3, <2>4, <2>5, AdvancePasses
  <2>8. TypeOK'
    BY <1>1, <1>4, <1>6, <2>7 DEF RunInv, TypeOK
  <2> QED
    BY <1>1, <1>4, <2>7, <2>8 DEF Moves, Others
<1> QED
  BY <1>7, <1>8

LEMMA AssembleMoves ==
  ASSUME RunInv, NEW r \in Run, Assemble(r)
  PROVE  TypeOK' /\ Moves(r)
<1> DEFINE s == Only(r)
           spec == Value(s.id, "spec", TRUE, None)
           own == Set(ctx[r], s.id, spec)
           c == Set(own, NsKey(s.id, "spec"), spec)
<1>1. /\ status[r] = "running" /\ at[r].level <= Len(Current(r)) /\ Alone(r)
      /\ s.kind = "assemble-spec" /\ Advance(r, c)
      /\ UNCHANGED <<plan, part, shown, approved, tree, disk, source, ticket, saving>>
  BY DEF Assemble, AtStep
<1>2. s \in BuiltStep /\ ToSet(Level(r)) = {s}
  BY <1>1, LevelHere
<1>3. spec \in Values
  <2>1. "spec" \in Made /\ TRUE \in BOOLEAN /\ None \in Trees /\ s.id \in Key
    BY <1>2, StepTyped DEF Made, Trees
  <2> QED
    BY <2>1, ValueType
<1>4. NsKey(s.id, "spec") \in Key /\ s.id \in Key
  BY <1>2, StepTyped, NameAssumption
<1>5. IsContext(c)
  BY <1>3, <1>4, SetIsContext DEF RunInv, TypeOK
<1>6. Extends(ctx[r], c, {s})
  <2>1. s.id \in Written(s) /\ NsKey(s.id, "spec") \in Written(s)
    BY <1>1, <1>2, WrittenFacts DEF Silent
  <2>2. Extends(ctx[r], own, {s})
    BY <2>1, SetExtends
  <2>3. DOMAIN c = {NsKey(s.id, "spec")} \cup DOMAIN own
        /\ \A x \in DOMAIN own \ {NsKey(s.id, "spec")} : c[x] = own[x]
    BY DEF Set
  <2> HIDE DEF s, spec, own, c
  <2> QED
    BY <2>1, <2>2, <2>3 DEF Extends
<1>7. \A t \in ToSet(Level(r)) : t.kind # "loop"
  BY <1>1, <1>2
<1>8. DOMAIN part'[r] = {}
  BY <1>1 DEF RunInv, PartOK
<1> HIDE DEF s, spec, own, c
<1>9. /\ Passes(r)
      /\ ctx' = [q \in Run |-> ctx'[q]] /\ \A q \in Run : IsContext(ctx'[q])
      /\ at' \in [Run -> Position]
      /\ status' \in [Run -> {"running", "awaiting", "completed", "failed"}]
      /\ \A q \in Run \ {r} : at'[q] = at[q] /\ ctx'[q] = ctx[q] /\ status'[q] = status[q]
  BY <1>1, <1>2, <1>5, <1>6, <1>7, <1>8, AdvancePasses
<1>10. TypeOK'
  BY <1>1, <1>9 DEF RunInv, TypeOK
<1> QED
  BY <1>1, <1>9, <1>10 DEF Moves, Others

LEMMA SpecTypes ==
  ASSUME NEW c, IsContext(c), NEW id
  PROVE  ResolveSpec(c, id) \in {None} \cup Values /\ AssembledSpec(c, id) \in {None} \cup Values
BY DEF IsContext, ResolveSpec, AssembledSpec

LEMMA SuspendMoves ==
  ASSUME RunInv, NEW r \in Run, Suspend(r)
  PROVE  TypeOK' /\ Moves(r)
<1>1. /\ status' = [status EXCEPT ![r] = "awaiting"]
      /\ shown' = [shown EXCEPT ![r] = ResolveSpec(ctx[r], Only(r).id)]
      /\ UNCHANGED <<plan, at, ctx, part, approved, tree, disk, source, ticket, saving>>
  BY DEF Suspend
<1>2. ResolveSpec(ctx[r], Only(r).id) \in {None} \cup Values
  BY SpecTypes DEF RunInv, TypeOK
<1>3. TypeOK'
  BY <1>1, <1>2 DEF RunInv, TypeOK
<1>4. \A q \in Run \ {r} : status'[q] = status[q] /\ shown'[q] = shown[q]
  BY <1>1 DEF RunInv, TypeOK
<1> QED
  BY <1>1, <1>3, <1>4 DEF Moves, Others, Rests

LEMMA ApproveMoves ==
  ASSUME RunInv, NEW r \in Run, Approve(r)
  PROVE  TypeOK' /\ Moves(r)
<1> DEFINE s == Only(r)
           v == Value(s.id, "value", TRUE, None)
           c == Set(ctx[r], Append(s.id, "approved"), v)
<1>1. /\ status[r] = "awaiting" /\ ctx' = [ctx EXCEPT ![r] = c]
      /\ at' = [at EXCEPT ![r].level = @ + 1]
      /\ status' \in {[status EXCEPT ![r] = "completed"], [status EXCEPT ![r] = "running"]}
      /\ approved' = [approved EXCEPT ![r] = @ \cup {shown[r]}]
      /\ shown' = [shown EXCEPT ![r] = None]
      /\ UNCHANGED <<plan, part, tree, disk, source, ticket, saving>>
  BY DEF Approve
<1>2. at[r].level <= Len(Current(r)) /\ Alone(r) /\ s.kind = "gate"
  BY <1>1 DEF RunInv, Placed
<1>3. s \in BuiltStep /\ ToSet(Level(r)) = {s}
  BY <1>2, LevelHere
<1>4. v \in Values
  <2>1. "value" \in Made /\ TRUE \in BOOLEAN /\ None \in Trees /\ s.id \in Key
    BY <1>3, StepTyped DEF Made, Trees
  <2> QED
    BY <2>1, ValueType
<1>5. IsContext(c)
  BY <1>3, <1>4, StepTyped, SetIsContext DEF RunInv, TypeOK
<1>6. Extends(ctx[r], c, {s})
  <2>1. Append(s.id, "approved") \in Written(s) /\ s.kind \in Silent
    BY <1>2, <1>3, WrittenFacts DEF Silent
  <2> QED
    BY <2>1, SetExtends
<1> HIDE DEF s, v, c
<1>7. /\ ctx' = [q \in Run |-> ctx'[q]] /\ ctx'[r] = c /\ \A q \in Run \ {r} : ctx'[q] = ctx[q]
  BY <1>1 DEF RunInv, TypeOK
<1>8. /\ at' \in [Run -> Position] /\ at'[r] = [at[r] EXCEPT !.level = @ + 1]
      /\ \A q \in Run \ {r} : at'[q] = at[q]
  <2>1. at \in [Run -> Position]
    BY DEF RunInv, TypeOK
  <2>2. [at[r] EXCEPT !.level = @ + 1] \in Position
    BY <2>1, PositionFacts
  <2> QED
    BY <1>1, <2>1, <2>2
<1>9. /\ status' \in [Run -> {"running", "awaiting", "completed", "failed"}]
      /\ status'[r] # "awaiting" /\ \A q \in Run \ {r} : status'[q] = status[q]
  BY <1>1 DEF RunInv, TypeOK
<1>10. /\ approved' = [q \in Run |-> approved'[q]] /\ shown' \in [Run -> {None} \cup Values]
       /\ \A q \in Run : \A w \in approved'[q] : w \in {None} \cup Values
       /\ \A q \in Run \ {r} : approved'[q] = approved[q] /\ shown'[q] = shown[q]
  <2>1. /\ approved = [q \in Run |-> approved[q]] /\ shown \in [Run -> {None} \cup Values]
        /\ \A q \in Run : \A w \in approved[q] : w \in {None} \cup Values
    BY DEF RunInv, TypeOK
  <2>2. /\ approved' = [q \in Run |-> approved'[q]] /\ approved'[r] = approved[r] \cup {shown[r]}
        /\ \A q \in Run \ {r} : approved'[q] = approved[q]
    BY <1>1, <2>1
  <2>3. \A w \in approved'[r] : w \in {None} \cup Values
    BY <2>1, <2>2
  <2>4. shown' \in [Run -> {None} \cup Values] /\ \A q \in Run \ {r} : shown'[q] = shown[q]
    BY <1>1, <2>1
  <2> QED
    BY <2>1, <2>2, <2>3, <2>4
<1>11. DOMAIN part'[r] = {}
  BY <1>1 DEF RunInv, PartOK, AtWork
<1>12. \A q \in Run : IsContext(ctx'[q])
  BY <1>5, <1>7 DEF RunInv, TypeOK
<1>13. TypeOK'
  BY <1>1, <1>7, <1>8, <1>9, <1>10, <1>12 DEF RunInv, TypeOK
<1>14. Passes(r)
  BY <1>1, <1>2, <1>3, <1>6, <1>7, <1>8, <1>9, <1>11 DEF Passes
<1> QED
  BY <1>1, <1>7, <1>8, <1>9, <1>10, <1>13, <1>14 DEF Moves, Others

LEMMA RejectMoves ==
  ASSUME RunInv, NEW r \in Run, Reject(r)
  PROVE  TypeOK' /\ Moves(r)
<1>1. /\ Fails(r) /\ shown' = [shown EXCEPT ![r] = None]
      /\ UNCHANGED <<plan, at, ctx, part, approved, tree, disk, source, ticket, saving>>
  BY DEF Reject
<1>2. /\ status' \in [Run -> {"running", "awaiting", "completed", "failed"}]
      /\ \A q \in Run \ {r} : status'[q] = status[q]
  BY <1>1, FailsTyped DEF RunInv
<1>3. shown' \in [Run -> {None} \cup Values] /\ \A q \in Run \ {r} : shown'[q] = shown[q]
  BY <1>1 DEF RunInv, TypeOK
<1>4. TypeOK'
  BY <1>1, <1>2, <1>3 DEF RunInv, TypeOK
<1> QED
  BY <1>1, <1>2, <1>3, <1>4 DEF Moves, Others, Rests

LEMMA PartsFacts ==
  /\ Len(Parts) = 6 /\ DOMAIN Parts = 1 .. 6
  /\ ToSet(Parts) = {Parts[i] : i \in 1 .. 6}
BY DEF Parts, ToSet

LEMMA CreateTicketMoves ==
  ASSUME RunInv, NEW r \in Run, CreateTicket(r)
  PROVE  TypeOK' /\ Moves(r)
<1> DEFINE spec == AssembledSpec(ctx[r], Only(r).id)
<1>1. UNCHANGED <<plan, at, ctx, part, shown, approved, tree, disk, source>>
  BY DEF CreateTicket
<1>2. CASE /\ spec # None /\ ticket' = [ticket EXCEPT ![r] = [spec |-> spec, parts |-> {}]]
           /\ saving' = [saving EXCEPT ![r] = 1] /\ UNCHANGED status
  <2>1. [spec |-> spec, parts |-> {}] \in Tickets
    <3>1. spec \in Values
      BY <1>2, SpecTypes DEF RunInv, TypeOK
    <3> QED
      BY <3>1 DEF Tickets
  <2>2. [spec |-> spec, parts |-> {}] # None
    BY <2>1, NoneAssumption
  <2>3. /\ ticket' \in [Run -> {None} \cup Tickets] /\ ticket'[r] # None
        /\ \A q \in Run \ {r} : ticket'[q] = ticket[q]
    BY <1>2, <2>1, <2>2 DEF RunInv, TypeOK
  <2>4. /\ saving' \in [Run -> 0 .. Len(Parts)] /\ \A q \in Run \ {r} : saving'[q] = saving[q]
    BY <1>2, PartsFacts DEF RunInv, TypeOK
  <2>5. \A q \in Run : saving'[q] > 0 => ticket'[q] # None
    BY <2>3, <2>4 DEF RunInv, TypeOK
  <2>6. TypeOK'
    BY <1>1, <1>2, <2>3, <2>4, <2>5 DEF RunInv, TypeOK
  <2> QED
    BY <1>1, <1>2, <2>3, <2>4, <2>6 DEF Moves, Others, Rests
<1>3. CASE Fails(r) /\ UNCHANGED <<ticket, saving>>
  <2>1. /\ status' \in [Run -> {"running", "awaiting", "completed", "failed"}]
        /\ \A q \in Run \ {r} : status'[q] = status[q]
    BY <1>3, FailsTyped DEF RunInv
  <2>2. TypeOK'
    BY <1>1, <1>3, <2>1 DEF RunInv, TypeOK
  <2> QED
    BY <1>1, <1>3, <2>1, <2>2 DEF Moves, Others, Rests
<1> QED
  BY <1>2, <1>3 DEF CreateTicket

LEMMA WritePartMoves ==
  ASSUME RunInv, NEW r \in Run, WritePart(r)
  PROVE  TypeOK' /\ Moves(r)
<1> DEFINE s == Only(r)
           c == Set(ctx[r], NsKey(s.id, "ticketId"), Value(s.id, "value", TRUE, None))
<1>1. /\ status[r] = "running" /\ at[r].level <= Len(Current(r)) /\ Alone(r)
      /\ s.kind = "persist-ticket" /\ saving[r] > 0
      /\ UNCHANGED <<plan, part, shown, approved, tree, disk, source>>
  BY DEF WritePart, AtStep
<1>2. s \in BuiltStep /\ ToSet(Level(r)) = {s}
  BY <1>1, LevelHere
<1>3. saving[r] \in 1 .. 6 /\ Parts[saving[r]] \in ToSet(Parts)
  BY <1>1, PartsFacts DEF RunInv, TypeOK
<1>4. CASE /\ ticket' = [ticket EXCEPT ![r].parts = @ \cup {NextPart(saving[r])}]
           /\ \/ /\ saving[r] < Len(Parts) /\ saving' = [saving EXCEPT ![r] = @ + 1]
                 /\ UNCHANGED <<at, ctx, status>>
              \/ saving' = [saving EXCEPT ![r] = 0] /\ Advance(r, c)
  <2>1. ticket[r] \in Tickets
    BY <1>1 DEF RunInv, TypeOK
  <2>2. [ticket[r] EXCEPT !.parts = @ \cup {NextPart(saving[r])}] \in Tickets
    BY <1>3, <2>1 DEF Tickets, NextPart
  <2>3. ticket'[r] \in Tickets /\ ticket' \in [Run -> {None} \cup Tickets]
        /\ \A q \in Run \ {r} : ticket'[q] = ticket[q]
    BY <1>4, <2>2 DEF RunInv, TypeOK
  <2>4. ticket'[r] # None
    BY <2>3, NoneAssumption
  <2>5. CASE /\ saving[r] < Len(Parts) /\ saving' = [saving EXCEPT ![r] = @ + 1]
             /\ UNCHANGED <<at, ctx, status>>
    <3>1. /\ saving' \in [Run -> 0 .. Len(Parts)] /\ \A q \in Run \ {r} : saving'[q] = saving[q]
      BY <2>5, PartsFacts DEF RunInv, TypeOK
    <3>2. \A q \in Run : saving'[q] > 0 => ticket'[q] # None
      BY <2>3, <2>4, <3>1 DEF RunInv, TypeOK
    <3>3. TypeOK'
      BY <1>1, <2>3, <2>5, <3>1, <3>2 DEF RunInv, TypeOK
    <3> QED
      BY <1>1, <2>3, <2>5, <3>1, <3>3 DEF Moves, Others, Rests
  <2>6. CASE saving' = [saving EXCEPT ![r] = 0] /\ Advance(r, c)
    <3>1. Value(s.id, "value", TRUE, None) \in Values
      <4>1. "value" \in Made /\ TRUE \in BOOLEAN /\ None \in Trees /\ s.id \in Key
        BY <1>2, StepTyped DEF Made, Trees
      <4> QED
        BY <4>1, ValueType
    <3>2. IsContext(c)
      BY <1>2, <3>1, StepTyped, NameAssumption, SetIsContext DEF RunInv, TypeOK
    <3>3. Extends(ctx[r], c, {s})
      <4>1. NsKey(s.id, "ticketId") \in Written(s) /\ s.kind \in Silent
        BY <1>1, <1>2, WrittenFacts DEF Silent
      <4> QED
        BY <4>1, SetExtends
    <3>4. \A t \in ToSet(Level(r)) : t.kind # "loop"
      BY <1>1, <1>2
    <3>5. DOMAIN part'[r] = {}
      BY <1>1 DEF RunInv, PartOK
    <3> HIDE DEF s, c
    <3>6. /\ Passes(r)
          /\ ctx' = [q \in Run |-> ctx'[q]] /\ \A q \in Run : IsContext(ctx'[q])
          /\ at' \in [Run -> Position]
          /\ status' \in [Run -> {"running", "awaiting", "completed", "failed"}]
          /\ \A q \in Run \ {r} : at'[q] = at[q] /\ ctx'[q] = ctx[q] /\ status'[q] = status[q]
      BY <1>1, <1>2, <2>6, <3>2, <3>3, <3>4, <3>5, AdvancePasses
    <3>7. /\ saving' \in [Run -> 0 .. Len(Parts)] /\ \A q \in Run \ {r} : saving'[q] = saving[q]
      BY <2>6, PartsFacts DEF RunInv, TypeOK
    <3>8. \A q \in Run : saving'[q] > 0 => ticket'[q] # None
      BY <2>3, <2>4, <3>7 DEF RunInv, TypeOK
    <3>9. TypeOK'
      BY <1>1, <2>3, <3>6, <3>7, <3>8 DEF RunInv, TypeOK
    <3> QED
      BY <1>1, <2>3, <3>6, <3>7, <3>9 DEF Moves, Others
  <2> QED
    BY <1>4, <2>5, <2>6
<1>5. CASE /\ Fails(r) /\ saving' = [saving EXCEPT ![r] = 0] /\ UNCHANGED <<at, ctx, ticket>>
  <2>1. /\ status' \in [Run -> {"running", "awaiting", "completed", "failed"}]
        /\ \A q \in Run \ {r} : status'[q] = status[q]
    BY <1>5, FailsTyped DEF RunInv
  <2>2. /\ saving' \in [Run -> 0 .. Len(Parts)] /\ saving'[r] = 0
        /\ \A q \in Run \ {r} : saving'[q] = saving[q]
    BY <1>5, PartsFacts DEF RunInv, TypeOK
  <2>3. \A q \in Run : saving'[q] > 0 => ticket'[q] # None
    BY <1>5, <2>2 DEF RunInv, TypeOK
  <2>4. TypeOK'
    BY <1>1, <1>5, <2>1, <2>2, <2>3 DEF RunInv, TypeOK
  <2> QED
    BY <1>1, <1>5, <2>1, <2>2, <2>4 DEF Moves, Others, Rests
<1> QED
  BY <1>4, <1>5 DEF WritePart

LEMMA ExportMoves ==
  ASSUME RunInv, NEW r \in Run, Export(r)
  PROVE  TypeOK' /\ Moves(r)
<1> DEFINE s == Only(r)
           spec == ResolveSpec(ctx[r], s.id)
           c == Set(ctx[r], s.id, Value(s.id, "value", TRUE, None))
<1>1. /\ status[r] = "running" /\ at[r].level <= Len(Current(r)) /\ Alone(r)
      /\ s.kind = "export-spec"
      /\ UNCHANGED <<plan, part, shown, approved, tree, ticket, saving>>
  BY DEF Export, AtStep
<1>2. s \in BuiltStep /\ ToSet(Level(r)) = {s}
  BY <1>1, LevelHere
<1>3. spec \in {None} \cup Values
  BY SpecTypes DEF RunInv, TypeOK
<1>4. CASE /\ Exportable(spec) /\ Advance(r, c)
           /\ \E n \in FreeDir :
                /\ disk' = Set(disk, n, [by |-> r, doc |-> Document(spec)])
                /\ source' = [source EXCEPT ![r] = [by |-> spec.by, dir |-> n]]
  <2>1. PICK n \in FreeDir :
          /\ disk' = Set(disk, n, [by |-> r, doc |-> Document(spec)])
          /\ source' = [source EXCEPT ![r] = [by |-> spec.by, dir |-> n]]
    BY <1>4
  <2>2. n \in 1 .. MaxDirs
    BY DEF FreeDir
  <2>3. spec.by \in Key
    BY <1>3, <1>4 DEF Exportable, Values
  <2> HIDE DEF spec
  <2>4. /\ DOMAIN disk' = {n} \cup DOMAIN disk
        /\ disk' = [m \in DOMAIN disk' |-> disk'[m]]
    BY <2>1 DEF Set
  <2>5. /\ DOMAIN disk' \subseteq 1 .. MaxDirs
        /\ source' \in [Run -> {None} \cup [by : Key, dir : DOMAIN disk']]
        /\ \A q \in Run \ {r} : source'[q] = source[q]
    <3>1. source \in [Run -> {None} \cup [by : Key, dir : DOMAIN disk]] /\ DOMAIN disk \subseteq 1 .. MaxDirs
      BY DEF RunInv, TypeOK
    <3>2. [by |-> spec.by, dir |-> n] \in [by : Key, dir : DOMAIN disk']
      BY <2>3, <2>4
    <3>3. \A x \in [by : Key, dir : DOMAIN disk] : x \in [by : Key, dir : DOMAIN disk']
      BY <2>4
    <3>4. source \in [Run -> {None} \cup [by : Key, dir : DOMAIN disk']]
      BY <3>1, <3>3
    <3> QED
      BY <2>1, <2>2, <2>4, <3>1, <3>2, <3>4
  <2>6. Value(s.id, "value", TRUE, None) \in Values
    <3>1. "value" \in Made /\ TRUE \in BOOLEAN /\ None \in Trees /\ s.id \in Key
      BY <1>2, StepTyped DEF Made, Trees
    <3> QED
      BY <3>1, ValueType
  <2>7. IsContext(c)
    BY <1>2, <2>6, StepTyped, SetIsContext DEF RunInv, TypeOK
  <2>8. Extends(ctx[r], c, {s})
    <3>1. s.id \in Written(s)
      BY <1>1, <1>2, WrittenFacts DEF Silent
    <3> QED
      BY <3>1, SetExtends
  <2>9. \A t \in ToSet(Level(r)) : t.kind # "loop"
    BY <1>1, <1>2
  <2>10. DOMAIN part'[r] = {}
    BY <1>1 DEF RunInv, PartOK
  <2> HIDE DEF s, c
  <2>11. /\ Passes(r)
         /\ ctx' = [q \in Run |-> ctx'[q]] /\ \A q \in Run : IsContext(ctx'[q])
         /\ at' \in [Run -> Position]
         /\ status' \in [Run -> {"running", "awaiting", "completed", "failed"}]
         /\ \A q \in Run \ {r} : at'[q] = at[q] /\ ctx'[q] = ctx[q] /\ status'[q] = status[q]
    BY <1>1, <1>2, <1>4, <2>7, <2>8, <2>9, <2>10, AdvancePasses
  <2>12. TypeOK'
    BY <1>1, <2>4, <2>5, <2>11 DEF RunInv, TypeOK
  <2> QED
    BY <1>1, <2>5, <2>11, <2>12 DEF Moves, Others
<1>5. CASE Fails(r) /\ UNCHANGED <<at, ctx, disk, source>>
  <2>1. /\ status' \in [Run -> {"running", "awaiting", "completed", "failed"}]
        /\ \A q \in Run \ {r} : status'[q] = status[q]
    BY <1>5, FailsTyped DEF RunInv
  <2>2. TypeOK'
    BY <1>1, <1>5, <2>1 DEF RunInv, TypeOK
  <2> QED
    BY <1>1, <1>5, <2>1, <2>2 DEF Moves, Others, Rests
<1> QED
  BY <1>4, <1>5 DEF Export

LEMMA EnterLoopMoves ==
  ASSUME RunInv, NEW r \in Run, EnterLoop(r)
  PROVE  TypeOK' /\ Moves(r)
<1> DEFINE inside == [body |-> Only(r).id, level |-> 1, round |-> 0, outer |-> at[r].level]
<1>1. /\ AtStep(r, "loop") /\ at' = [at EXCEPT ![r] = inside]
      /\ UNCHANGED <<plan, ctx, part, status, shown, approved, tree, disk, source, ticket, saving>>
  BY DEF EnterLoop
<1>2. inside \in Position
  <2>1. Only(r) \in BuiltStep /\ at[r].level \in Nat
    BY <1>1, LevelHere DEF AtStep
  <2>2. Only(r).id \in Key
    BY <2>1, StepTyped
  <2> QED
    BY <2>1, <2>2 DEF Position
<1>3. at' \in [Run -> Position] /\ at'[r] = inside /\ \A q \in Run \ {r} : at'[q] = at[q]
  BY <1>1, <1>2 DEF RunInv, TypeOK
<1>4. TypeOK'
  BY <1>1, <1>3 DEF RunInv, TypeOK
<1>5. Begins(r)
  BY <1>1, <1>3 DEF Begins, AtStep
<1> QED
  BY <1>1, <1>3, <1>4, <1>5 DEF Moves, Others

LEMMA LoopFacts ==
  ASSUME RunInv, NEW r \in Run, at[r].body # <<>>
  PROVE  /\ LoopStep(r) \in BuiltStep /\ LoopStep(r).id = at[r].body
         /\ at[r].outer \in DOMAIN plan[r][<<>>] /\ LoopStep(r).kind = "loop"
         /\ BuiltWorkflow(plan[r][<<>>]) /\ ToSet(plan[r][<<>>][at[r].outer]) = {LoopStep(r)}
<1>1. BuiltWorkflow(plan[r][<<>>])
  BY LevelHere DEF BuiltPlan
<1>2. /\ at[r].outer \in DOMAIN plan[r][<<>>] /\ Len(plan[r][<<>>][at[r].outer]) = 1
      /\ LoopStep(r).kind = "loop" /\ LoopStep(r).id = at[r].body
  BY DEF RunInv, Placed
<1>3. /\ ToSet(plan[r][<<>>][at[r].outer]) = {plan[r][<<>>][at[r].outer][1]}
      /\ ToSet(plan[r][<<>>][at[r].outer]) \subseteq BuiltStep
  BY <1>1, <1>2, LevelFacts
<1> QED
  BY <1>1, <1>2, <1>3 DEF LoopStep

LEMMA MinOfTwo ==
  ASSUME NEW m \in Nat, NEW n \in Nat
  PROVE  Min({m, n}) \in Nat
<1>1. \E x \in {m, n} : \A y \in {m, n} : x <= y
  BY SMT
<1>2. Min({m, n}) \in {m, n}
  BY <1>1 DEF Min
<1> QED
  BY <1>2

LEMMA EndRoundMoves ==
  ASSUME RunInv, NEW r \in Run, EndRound(r)
  PROVE  TypeOK' /\ Moves(r)
<1> DEFINE s == LoopStep(r)
           rounds == at[r].round + 1
           outcome == Value(s.id, "outcome", Truthy(ctx[r], s.until), None)
<1>1. /\ status[r] = "running" /\ at[r].body # <<>> /\ at[r].level > Len(Current(r))
      /\ UNCHANGED <<plan, part, shown, approved, tree, disk, source, ticket, saving>>
  BY DEF EndRound
<1>2. s \in BuiltStep /\ s.id \in Key /\ at \in [Run -> Position] /\ at[r] \in Position
  BY <1>1, LoopFacts, StepTyped DEF RunInv, TypeOK
<1>3. at[r].round \in Nat /\ at[r].outer \in Nat /\ s.max \in Nat
  BY <1>2, PositionFacts DEF BuiltStep
<1>4. CASE LoopEnds(s, ctx[r], rounds)
  <2> DEFINE outside == [body |-> <<>>, level |-> at[r].outer + 1, round |-> 0, outer |-> 0]
  <2>1. /\ ctx' = [ctx EXCEPT ![r] = Set(ctx[r], s.id, outcome)]
        /\ at' = [at EXCEPT ![r] = outside]
        /\ status' \in {status, [status EXCEPT ![r] = "completed"]}
    BY <1>4 DEF EndRound
  <2>2. outcome \in Values
    <3>1. "outcome" \in Made /\ None \in Trees /\ Truthy(ctx[r], s.until) \in BOOLEAN
      BY DEF Made, Trees, Truthy
    <3> QED
      BY <1>2, <3>1, ValueType
  <2>3. IsContext(Set(ctx[r], s.id, outcome))
    BY <1>2, <2>2, SetIsContext DEF RunInv, TypeOK
  <2>4. <<>> \in Key /\ outside \in Position
    BY <1>3 DEF Key, Position
  <2> HIDE DEF outcome, outside
  <2>5. /\ ctx' = [q \in Run |-> ctx'[q]] /\ ctx'[r] = Set(ctx[r], s.id, outcome)
        /\ \A q \in Run \ {r} : ctx'[q] = ctx[q]
    BY <2>1 DEF RunInv, TypeOK
  <2>6. \A q \in Run : IsContext(ctx'[q])
    BY <2>3, <2>5 DEF RunInv, TypeOK
  <2>7. at' \in [Run -> Position] /\ at'[r] = outside /\ \A q \in Run \ {r} : at'[q] = at[q]
    BY <1>2, <2>1, <2>4
  <2>8. /\ status' \in [Run -> {"running", "awaiting", "completed", "failed"}]
        /\ status'[r] # "awaiting" /\ \A q \in Run \ {r} : status'[q] = status[q]
    BY <1>1, <2>1 DEF RunInv, TypeOK
  <2>9. TypeOK'
    BY <1>1, <2>5, <2>6, <2>7, <2>8 DEF RunInv, TypeOK
  <2>10. Leaves(r)
    BY <1>1, <2>2, <2>5, <2>7, <2>8 DEF Leaves, outside
  <2> QED
    BY <1>1, <2>5, <2>7, <2>8, <2>9, <2>10 DEF Moves, Others
<1>5. CASE ~LoopEnds(s, ctx[r], rounds)
  <2> DEFINE n == Min({rounds, s.max})
  <2>1. at' = [at EXCEPT ![r].level = 1, ![r].round = n] /\ UNCHANGED <<ctx, status>>
    BY <1>5 DEF EndRound
  <2>2. n \in Nat
    BY <1>3, MinOfTwo
  <2> HIDE DEF n
  <2>3. [at[r] EXCEPT !.level = 1, !.round = n] \in Position
    BY <1>2, <2>2, PositionFacts
  <2>4. /\ at'[r] = [at[r] EXCEPT !.level = 1, !.round = n]
        /\ at' \in [Run -> Position] /\ \A q \in Run \ {r} : at'[q] = at[q]
    BY <1>2, <2>1, <2>3
  <2>5. TypeOK'
    BY <1>1, <2>1, <2>4 DEF RunInv, TypeOK
  <2>6. Repeats(r)
    BY <1>1, <2>1, <2>2, <2>4 DEF Repeats
  <2> QED
    BY <1>1, <2>1, <2>4, <2>5, <2>6 DEF Moves, Others
<1> QED
  BY <1>4, <1>5

(***************************************************************************)
(* Every step keeps the types, the places and the ends of the levels.      *)
(***************************************************************************)
Step(r) ==
  \/ EndStep(r) \/ EndParallel(r) \/ Merge(r)
  \/ Assemble(r) \/ Suspend(r) \/ Approve(r) \/ Reject(r)
  \/ CreateTicket(r) \/ WritePart(r) \/ Export(r)
  \/ EnterLoop(r) \/ EndRound(r)

LEMMA StepMoves ==
  ASSUME RunInv, NEW r \in Run, Step(r)
  PROVE  TypeOK' /\ Moves(r)
BY EndStepMoves, EndParallelMoves, MergeMoves, AssembleMoves, SuspendMoves, ApproveMoves,
   RejectMoves, CreateTicketMoves, WritePartMoves, ExportMoves, EnterLoopMoves, EndRoundMoves
   DEF Step

(* Only a gate makes a run wait.                                           *)
LEMMA WaitsAtGate ==
  ASSUME RunInv, NEW r \in Run, Step(r), status'[r] = "awaiting"
  PROVE  Suspend(r)
<1>1. status \in [Run -> {"running", "awaiting", "completed", "failed"}]
  BY DEF RunInv, TypeOK
<1>2. ~Fails(r)
  BY <1>1 DEF Fails
<1>3. ASSUME NEW c, Advance(r, c), status[r] = "running" PROVE FALSE
  BY <1>1, <1>3 DEF Advance
<1>4. ~EndStep(r) /\ ~Merge(r) /\ ~Assemble(r) /\ ~Export(r)
  BY <1>1, <1>2, <1>3 DEF EndStep, Merge, Assemble, Export, AtStep
<1>5. ~EndParallel(r) /\ ~Reject(r) /\ ~CreateTicket(r) /\ ~EnterLoop(r)
  BY <1>1, <1>2 DEF EndParallel, Reject, CreateTicket, EnterLoop, AtStep
<1>6. ~WritePart(r)
  BY <1>1, <1>2, <1>3 DEF WritePart, AtStep
<1>7. ~Approve(r)
  BY <1>1 DEF Approve
<1>8. ~EndRound(r)
  BY <1>1 DEF EndRound
<1> QED
  BY <1>4, <1>5, <1>6, <1>7, <1>8 DEF Step

LEMMA OthersKept ==
  ASSUME RunInv, NEW r \in Run, NEW q \in Run, plan' = plan,
         at'[q] = at[q], ctx'[q] = ctx[q], part'[q] = part[q], status'[q] = status[q]
  PROVE  Placed(q)' /\ PartOK(q)'
<1>1. Current(q)' = Current(q) /\ Level(q)' = Level(q) /\ Alone(q)' = Alone(q)
      /\ Only(q)' = Only(q) /\ LoopStep(q)' = LoopStep(q) /\ AtWork(q)' = AtWork(q)
  BY DEF Current, Level, Alone, Only, LoopStep, AtWork
<1>2. Placed(q)'
  BY <1>1 DEF RunInv, Placed
<1>3. PartOK(q)'
  BY <1>1 DEF RunInv, PartOK
<1> QED
  BY <1>2, <1>3

(* The body of a loop has no loops.                                        *)
LEMMA BeginsOutside ==
  ASSUME RunInv, NEW r \in Run, Begins(r)
  PROVE  at[r].body = <<>> /\ Only(r) \in Passed(Current(r), Len(Current(r)) + 1)
<1>1. Placed(r) /\ BuiltPlan(plan[r]) /\ Len(Current(r)) \in Nat /\ at[r].level \in Nat \ {0}
  BY LevelHere DEF RunInv
<1>2. /\ at[r].level <= Len(Current(r)) /\ Only(r).kind = "loop" /\ ToSet(Level(r)) = {Only(r)}
  BY LevelHere DEF Begins, AtStep
<1>3. at[r].level \in 1 .. (Len(Current(r)) + 1) - 1
  BY <1>1, <1>2
<1>4. Only(r) \in Passed(Current(r), Len(Current(r)) + 1)
  BY <1>2, <1>3 DEF Passed, Level
<1> QED
  BY <1>1, <1>2, <1>4 DEF BuiltPlan, Placed, Current

LEMMA StepPlaced ==
  ASSUME RunInv, NEW r \in Run, Step(r)
  PROVE  Placed(r)'
<1>1. Moves(r) /\ plan' = plan
  BY StepMoves DEF Moves
<1>2. at \in [Run -> Position] /\ at[r] \in Position
  BY DEF RunInv, TypeOK
<1>3. Placed(r) /\ BuiltPlan(plan[r]) /\ Len(Current(r)) \in Nat /\ at[r].level \in Nat \ {0}
  BY LevelHere DEF RunInv
<1>4. CASE Rests(r)
  <2>1. Current(r)' = Current(r) /\ Level(r)' = Level(r) /\ Alone(r)' = Alone(r)
        /\ Only(r)' = Only(r) /\ LoopStep(r)' = LoopStep(r)
    BY <1>1, <1>4 DEF Rests, Current, Level, Alone, Only, LoopStep
  <2>2. status'[r] = "awaiting" => at[r].level <= Len(Current(r)) /\ Alone(r) /\ Only(r).kind = "gate"
    BY WaitsAtGate DEF Suspend, AtStep
  <2> QED
    BY <1>1, <1>3, <1>4, <2>1, <2>2 DEF Placed, Rests
<1>5. CASE Passes(r)
  <2>1. /\ at'[r].body = at[r].body /\ at'[r].outer = at[r].outer
        /\ at'[r].level = at[r].level + 1 /\ status'[r] # "awaiting"
    BY <1>2, <1>5 DEF Passes, Position
  <2>2. Current(r)' = Current(r) /\ LoopStep(r)' = LoopStep(r)
    BY <1>1, <2>1 DEF Current, LoopStep
  <2>3. at'[r].level \in 1 .. Len(Current(r)) + 1
    BY <1>3, <1>5, <2>1 DEF Passes
  <2> QED
    BY <1>1, <1>3, <2>1, <2>2, <2>3 DEF Placed
<1>6. CASE Begins(r)
  <2>1. /\ at'[r].body = Only(r).id /\ at'[r].level = 1 /\ at'[r].outer = at[r].level
        /\ status'[r] # "awaiting"
    BY <1>6 DEF Begins
  <2>2. /\ at[r].level <= Len(Current(r)) /\ Alone(r) /\ Only(r).kind = "loop"
        /\ at[r].level \in DOMAIN Current(r) /\ ToSet(Level(r)) = {Only(r)}
    BY <1>6, LevelHere DEF Begins, AtStep
  <2>3. Only(r) \in Passed(Current(r), Len(Current(r)) + 1)
    BY <1>6, BeginsOutside
  <2>4. at[r].body = <<>>
    BY <1>6, BeginsOutside
  <2>5. at'[r].body \in DOMAIN plan[r] \ {<<>>}
    BY <1>3, <2>1, <2>2, <2>3, <2>4 DEF BuiltPlan, Current
  <2>6. Len(plan[r][at'[r].body]) \in Nat \ {0}
    BY <1>3, <2>5, BuiltNotEmpty DEF BuiltPlan
  <2>7. /\ at'[r].outer \in DOMAIN plan[r][<<>>] /\ Len(plan[r][<<>>][at'[r].outer]) = 1
        /\ LoopStep(r)'.kind = "loop" /\ LoopStep(r)'.id = at'[r].body
    BY <1>1, <2>1, <2>2, <2>4 DEF LoopStep, Current, Level, Alone, Only
  <2>8. at'[r].level \in 1 .. Len(Current(r)') + 1
    BY <1>1, <2>1, <2>6 DEF Current
  <2> QED
    BY <1>1, <2>1, <2>5, <2>7, <2>8 DEF Placed
<1>7. CASE Repeats(r)
  <2>1. /\ at'[r].body = at[r].body /\ at'[r].outer = at[r].outer
        /\ at'[r].level = 1 /\ status'[r] # "awaiting"
    BY <1>2, <1>7 DEF Repeats, Position
  <2>2. Current(r)' = Current(r) /\ LoopStep(r)' = LoopStep(r)
    BY <1>1, <2>1 DEF Current, LoopStep
  <2>3. at'[r].level \in 1 .. Len(Current(r)) + 1
    BY <1>3, <2>1
  <2> QED
    BY <1>1, <1>3, <2>1, <2>2, <2>3 DEF Placed
<1>8. CASE Leaves(r)
  <2>1. /\ at'[r].body = <<>> /\ at'[r].level = at[r].outer + 1 /\ status'[r] # "awaiting"
    BY <1>8 DEF Leaves
  <2>2. at[r].outer \in DOMAIN plan[r][<<>>]
    BY <1>8, LoopFacts DEF Leaves
  <2>3. at[r].outer \in 1 .. Len(plan[r][<<>>]) /\ Len(plan[r][<<>>]) \in Nat
    BY <1>3, <2>2 DEF BuiltPlan, BuiltWorkflow
  <2>4. <<>> \in DOMAIN plan[r] /\ Len(Current(r)') = Len(plan[r][<<>>])
    BY <1>1, <1>3, <2>1 DEF BuiltPlan, Current
  <2>5. at'[r].level \in 1 .. Len(Current(r)') + 1
    BY <2>1, <2>3, <2>4
  <2> QED
    BY <1>1, <2>1, <2>4, <2>5 DEF Placed
<1> QED
  BY <1>1, <1>4, <1>5, <1>6, <1>7, <1>8 DEF Moves

LEMMA StepParts ==
  ASSUME RunInv, NEW r \in Run, Step(r)
  PROVE  PartOK(r)'
<1>1. part = [q \in Run |-> part[q]] /\ PartOK(r)
  BY DEF RunInv, TypeOK
<1>2. CASE EndParallel(r)
  <2>1. /\ AtWork(r) /\ ~Alone(r)
        /\ UNCHANGED <<plan, at, ctx, status>>
    BY <1>2 DEF EndParallel, AtWork
  <2>a. PICK s \in ToSet(Level(r)) :
          \E end : /\ part' = [part EXCEPT ![r] = Set(@, s.id, end)]
                   /\ end # None => \E v \in Outcomes(r, s) : end = Extended(ctx[r], s, v)
    BY <1>2 DEF EndParallel
  <2>2. PICK end :
          /\ part' = [part EXCEPT ![r] = Set(@, s.id, end)]
          /\ end # None => \E v \in Outcomes(r, s) : end = Extended(ctx[r], s, v)
    BY <2>a
  <2>3. end # None => Extends(ctx[r], end, {s})
    <3>1. s \in BuiltStep /\ Works(s) /\ IsContext(ctx[r])
      BY <2>1, LevelHere DEF AtWork, Works, RunInv, TypeOK
    <3>2. \A v \in Outcomes(r, s) : v \in Values
      BY <3>1, OutcomeFacts DEF RunInv
    <3> QED
      BY <2>2, <3>1, <3>2, ExtendedFacts
  <2>4. /\ DOMAIN part'[r] = {s.id} \cup DOMAIN part[r]
        /\ part'[r][s.id] = end /\ \A k \in DOMAIN part[r] \ {s.id} : part'[r][k] = part[r][k]
    <3>1. part'[r] = Set(part[r], s.id, end)
      BY <1>1, <2>2
    <3> QED
      BY <3>1 DEF Set
  <2>5. /\ AtWork(r)' /\ ~Alone(r)' /\ Level(r)' = Level(r)
    BY <2>1 DEF AtWork, Alone, Level, Current
  <2>6. ASSUME NEW k \in DOMAIN part'[r]
        PROVE  \E t \in ToSet(Level(r)) :
                 t.id = k /\ (part'[r][k] # None => Extends(ctx[r], part'[r][k], {t}))
    <3>1. CASE k = s.id
      BY <2>3, <2>4, <3>1
    <3>2. CASE k # s.id
      BY <1>1, <2>4, <3>2 DEF PartOK
    <3> QED
      BY <3>1, <3>2
  <2> QED
    BY <2>1, <2>5, <2>6 DEF PartOK
<1>3. CASE ~EndParallel(r)
  <2>0. Len(Current(r)) \in Nat /\ at[r].level \in Nat
    BY LevelHere
  <2>1. ASSUME AtWork(r), ~Alone(r) PROVE Merge(r)
    <3>1. ~EndStep(r) /\ ~Assemble(r) /\ ~Suspend(r) /\ ~CreateTicket(r) /\ ~WritePart(r)
          /\ ~Export(r) /\ ~EnterLoop(r)
      BY <2>1 DEF EndStep, Assemble, Suspend, CreateTicket, WritePart, Export, EnterLoop, AtStep
    <3>2. status[r] = "running" /\ ~(at[r].level > Len(Current(r)))
      BY <2>0, <2>1 DEF AtWork
    <3>3. ~Approve(r) /\ ~Reject(r) /\ ~EndRound(r)
      BY <3>2 DEF Approve, Reject, EndRound
    <3> QED
      BY <1>3, <3>1, <3>3 DEF Step
  <2>2. ~Merge(r) => part' = part
    BY <1>3 DEF Step, EndStep, Assemble, Suspend, Approve, Reject, CreateTicket, WritePart, Export,
       EnterLoop, EndRound
  <2>3. Merge(r) => DOMAIN part'[r] = {}
    BY <1>1 DEF Merge
  <2>4. DOMAIN part'[r] = {}
    BY <1>1, <2>1, <2>2, <2>3 DEF PartOK
  <2> QED
    BY <2>4 DEF PartOK
<1> QED
  BY <1>2, <1>3

LEMMA RunInvStart ==
  ASSUME Init
  PROVE  RunInv
<1>1. PICK f \in {g \in [Run -> DOMAIN Plans] : \A r \in Run : g[r] \in Starts[r]} :
        plan = [r \in Run |-> Plans[f[r]]]
  BY DEF Init
<1>2. Planned
  BY <1>1 DEF Planned, StartedOn
<1>3. \A r \in Run : BuiltPlan(plan[r])
  BY <1>2, PlanFacts
<1>4. \A r \in Run : InputsOf(plan[r][<<>>]) \subseteq Key
  <2>1. ASSUME NEW r \in Run PROVE InputsOf(plan[r][<<>>]) \subseteq Key
    <3>1. BuiltWorkflow(plan[r][<<>>])
      BY <1>3 DEF BuiltPlan
    <3>2. 1 \in DOMAIN plan[r][<<>>]
      BY <3>1, BuiltNotEmpty
    <3>3. plan[r][<<>>][1][1] \in BuiltStep
      BY <3>1, <3>2, LevelFacts
    <3> QED
      BY <3>3 DEF InputsOf, BuiltStep
  <2> QED
    BY <2>1
<1>5. Value(<<"input">>, "value", TRUE, None) \in Values
  <2>1. "value" \in Made /\ TRUE \in BOOLEAN /\ None \in Trees
    BY DEF Made, Trees
  <2>2. <<"input">> \in Key
    BY NameAssumption, SingleType DEF Key
  <2> QED
    BY <2>1, <2>2, ValueType
<1> DEFINE input == Value(<<"input">>, "value", TRUE, None)
           start == [body |-> <<>>, level |-> 1, round |-> 0, outer |-> 0]
<1> HIDE DEF input
<1>6. start \in Position
  BY DEF Position, Key
<1>7. ctx = [r \in Run |-> ctx[r]] /\ \A r \in Run : IsContext(ctx[r])
  <2>1. ctx = [r \in Run |-> [k \in InputsOf(plan[r][<<>>]) |-> input]] /\ input \in Values
    BY <1>5 DEF Init, input
  <2> QED
    BY <1>4, <2>1 DEF IsContext
<1>8. /\ part = [r \in Run |-> <<>>] /\ DOMAIN <<>> = {}
      /\ <<>> = [k \in DOMAIN <<>> |-> <<>>[k]]
  BY DEF Init
<1>9. /\ DOMAIN disk \subseteq 1 .. MaxDirs /\ disk = [n \in DOMAIN disk |-> disk[n]]
  <2>1. disk = <<>> \/ disk = Set(<<>>, 1, [by |-> None, doc |-> None])
    BY DEF Init
  <2>2. 1 \in 1 .. MaxDirs
    BY MaxDirsAssumption
  <2> QED
    BY <1>8, <2>1, <2>2 DEF Set
<1>10. at = [r \in Run |-> start]
  BY DEF Init
<1>11. TypeOK
  <2>1. at \in [Run -> Position]
    BY <1>6, <1>10
  <2>2. /\ status = [r \in Run |-> "running"] /\ shown = [r \in Run |-> None]
        /\ approved = [r \in Run |-> {}] /\ tree = None /\ source = [r \in Run |-> None]
        /\ ticket = [r \in Run |-> None] /\ saving = [r \in Run |-> 0]
    BY DEF Init
  <2>3. part = [r \in Run |-> part[r]] /\ \A r \in Run : part[r] = <<>>
    BY <1>8
  <2> HIDE DEF start
  <2> QED
    BY <1>7, <1>8, <1>9, <2>1, <2>2, <2>3, PartsFacts DEF TypeOK, Trees
<1>12. ASSUME NEW r \in Run PROVE Placed(r)
  <2>1. at[r].body = <<>> /\ at[r].level = 1 /\ status[r] = "running"
    BY <1>10 DEF Init
  <2>2. <<>> \in DOMAIN plan[r] /\ Len(plan[r][<<>>]) \in Nat \ {0}
    BY <1>3, BuiltNotEmpty DEF BuiltPlan
  <2> QED
    BY <2>1, <2>2 DEF Placed, Current
<1>13. \A r \in Run : PartOK(r)
  BY <1>8 DEF PartOK
<1> QED
  BY <1>2, <1>11, <1>12, <1>13 DEF RunInv

LEMMA RunInvStep ==
  ASSUME RunInv, [Next]_vars
  PROVE  RunInv'
<1>1. CASE UNCHANGED vars
  <2>1. UNCHANGED <<plan, at, ctx, part, status, shown, approved, tree, disk, source, ticket, saving>>
    BY <1>1 DEF vars
  <2>2. TypeOK'
    BY <2>1 DEF RunInv, TypeOK
  <2>3. Planned'
    BY <2>1 DEF RunInv, Planned, StartedOn
  <2>4. \A q \in Run : Placed(q)' /\ PartOK(q)'
    BY <2>1, OthersKept
  <2> QED
    BY <2>2, <2>3, <2>4 DEF RunInv
<1>2. CASE Next
  <2>1. PICK r \in Run : Step(r)
    BY <1>2 DEF Next, Step
  <2>2. TypeOK' /\ plan' = plan /\ Others(r)
    BY <2>1, StepMoves DEF Moves
  <2>3. Planned'
    BY <2>2 DEF RunInv, Planned, StartedOn
  <2>4. \A q \in Run : Placed(q)' /\ PartOK(q)'
    BY <2>1, <2>2, StepPlaced, StepParts, OthersKept DEF Others
  <2> QED
    BY <2>2, <2>3, <2>4 DEF RunInv
<1> QED
  BY <1>1, <1>2

LEMMA RunInvAlways == Spec => []RunInv
<1>1. Init => RunInv
  BY RunInvStart
<1>2. RunInv /\ [Next]_vars => RunInv'
  BY RunInvStep
<1> QED
  BY <1>1, <1>2, PTL DEF Spec

(* Every variable has the type its comment gives it, in runs of any        *)
(* workflows: what a context holds are values under keys, a document lies  *)
(* in one of the directories a title may have, a ticket being written is   *)
(* there.                                                                  *)
THEOREM TypeCorrect == Spec => []TypeOK
<1>1. RunInv => TypeOK
  BY DEF RunInv
<1> QED
  BY <1>1, RunInvAlways, PTL

(***************************************************************************)
(* Prompts.                                                                *)
(***************************************************************************)
(* The ids of the steps that leave a value.                                *)
Yields(steps) == {s.id : s \in {t \in steps : t.kind \notin Silent}}

(* How far a run has come in its own workflow.                             *)
Outer(r) == IF at[r].body = <<>> THEN at[r].level ELSE at[r].outer

(* What a step may count on is in the context.                             *)
Held(r) ==
  /\ InputsOf(plan[r][<<>>]) \subseteq DOMAIN ctx[r]
  /\ Yields(Passed(plan[r][<<>>], Outer(r))) \subseteq DOMAIN ctx[r]
  /\ Yields(Passed(Current(r), at[r].level)) \subseteq DOMAIN ctx[r]

LEMMA PassedFacts ==
  ASSUME NEW levels
  PROVE  /\ Passed(levels, 1) = {}
         /\ \A n \in Nat \ {0} : Passed(levels, n + 1) = Passed(levels, n) \cup ToSet(levels[n])
<1>1. 1 .. 1 - 1 = {}
  OBVIOUS
<1>2. \A n \in Nat \ {0} : 1 .. (n + 1) - 1 = (1 .. n - 1) \cup {n}
  OBVIOUS
<1> QED
  BY <1>1, <1>2 DEF Passed

LEMMA InPassed ==
  ASSUME NEW levels, BuiltWorkflow(levels), NEW n \in DOMAIN levels, NEW s \in ToSet(levels[n])
  PROVE  s \in Passed(levels, Len(levels) + 1)
<1>1. n \in 1 .. (Len(levels) + 1) - 1
  BY BuiltNotEmpty
<1> QED
  BY <1>1 DEF Passed

LEMMA PassedWithin ==
  ASSUME NEW levels, BuiltWorkflow(levels), NEW n \in DOMAIN levels
  PROVE  Passed(levels, n) \subseteq Passed(levels, Len(levels) + 1)
<1>1. 1 .. n - 1 \subseteq 1 .. (Len(levels) + 1) - 1
  BY BuiltNotEmpty
<1> QED
  BY <1>1 DEF Passed

LEMMA YieldsOfTwo ==
  ASSUME NEW S, NEW T
  PROVE  /\ Yields(S \cup T) = Yields(S) \cup Yields(T) /\ Yields({}) = {}
         /\ \A c, d : Extends(c, d, T) => Yields(T) \subseteq DOMAIN d /\ DOMAIN c \subseteq DOMAIN d
BY DEF Yields, Extends

LEMMA StepHeld ==
  ASSUME RunInv, NEW r \in Run, Held(r), Moves(r)
  PROVE  Held(r)'
<1>1. /\ plan' = plan /\ at[r].level \in Nat \ {0} /\ BuiltWorkflow(Current(r))
      /\ at[r] \in Position
  BY LevelHere DEF RunInv, TypeOK, Moves
<1>2. CASE Rests(r)
  BY <1>1, <1>2 DEF Rests, Held, Outer, Current
<1>3. CASE Passes(r)
  <2>1. /\ at'[r].body = at[r].body /\ at'[r].outer = at[r].outer
        /\ at'[r].level = at[r].level + 1
    BY <1>1, <1>3 DEF Passes, Position
  <2>2. Current(r)' = Current(r)
    BY <1>1, <2>1 DEF Current
  <2>3. Yields(ToSet(Level(r))) \subseteq DOMAIN ctx'[r] /\ DOMAIN ctx[r] \subseteq DOMAIN ctx'[r]
    BY <1>3, YieldsOfTwo DEF Passes
  <2>4. Yields(Passed(Current(r), at[r].level + 1)) \subseteq DOMAIN ctx'[r]
    BY <1>1, <2>3, PassedFacts, YieldsOfTwo DEF Held, Level
  <2>5. Yields(Passed(plan[r][<<>>], Outer(r)')) \subseteq DOMAIN ctx'[r]
    <3>1. CASE at[r].body = <<>>
      BY <2>1, <2>4, <3>1 DEF Outer, Current
    <3>2. CASE at[r].body # <<>>
      BY <2>1, <2>3, <3>2 DEF Outer, Held
    <3> QED
      BY <3>1, <3>2
  <2> QED
    BY <1>1, <2>1, <2>2, <2>3, <2>4, <2>5 DEF Held
<1>4. CASE Begins(r)
  <2>1. at'[r].body = Only(r).id /\ at'[r].level = 1 /\ at'[r].outer = at[r].level
    BY <1>4 DEF Begins
  <2>2. Only(r).id # <<>>
    BY <1>4, LevelHere, StepTyped DEF Begins, AtStep
  <2>3. at[r].body = <<>>
    BY <1>4, BeginsOutside
  <2> QED
    BY <1>1, <1>4, <2>1, <2>2, <2>3, PassedFacts, YieldsOfTwo DEF Held, Outer, Begins
<1>5. CASE Repeats(r)
  <2>1. /\ at'[r].body = at[r].body /\ at'[r].outer = at[r].outer
        /\ at'[r].level = 1 /\ ctx'[r] = ctx[r] /\ at[r].body # <<>>
    BY <1>1, <1>5 DEF Repeats, Position
  <2> QED
    BY <1>1, <2>1, PassedFacts, YieldsOfTwo DEF Held, Outer
<1>6. CASE Leaves(r)
  <2>1. /\ at'[r].body = <<>> /\ at'[r].level = at[r].outer + 1 /\ at[r].body # <<>>
    BY <1>6 DEF Leaves
  <2>2. DOMAIN ctx'[r] = {LoopStep(r).id} \cup DOMAIN ctx[r]
    BY <1>6 DEF Leaves, Set
  <2>3. at[r].outer \in Nat \ {0} /\ ToSet(plan[r][<<>>][at[r].outer]) = {LoopStep(r)}
    <3>1. /\ at[r].outer \in DOMAIN plan[r][<<>>] /\ BuiltWorkflow(plan[r][<<>>])
          /\ ToSet(plan[r][<<>>][at[r].outer]) = {LoopStep(r)}
      BY <2>1, LoopFacts
    <3>2. DOMAIN plan[r][<<>>] = 1 .. Len(plan[r][<<>>])
      BY <3>1, BuiltNotEmpty
    <3> QED
      BY <3>1, <3>2
  <2>4. Yields(Passed(plan[r][<<>>], at[r].outer + 1)) \subseteq DOMAIN ctx'[r]
    <3>1. Yields({LoopStep(r)}) \subseteq {LoopStep(r).id}
      BY DEF Yields
    <3>2. Passed(plan[r][<<>>], at[r].outer + 1)
            = Passed(plan[r][<<>>], at[r].outer) \cup {LoopStep(r)}
      BY <2>3, PassedFacts
    <3>3. Yields(Passed(plan[r][<<>>], at[r].outer)) \subseteq DOMAIN ctx[r]
      BY <2>1 DEF Held, Outer
    <3> QED
      BY <2>2, <3>1, <3>2, <3>3, YieldsOfTwo
  <2> QED
    BY <1>1, <2>1, <2>2, <2>4 DEF Held, Outer, Current
<1> QED
  BY <1>2, <1>3, <1>4, <1>5, <1>6 DEF Moves

LEMMA HeldStart ==
  ASSUME Init, RunInv, NEW r \in Run
  PROVE  Held(r)
<1>1. at[r].body = <<>> /\ at[r].level = 1
  BY DEF Init
<1>2. DOMAIN ctx[r] = InputsOf(plan[r][<<>>])
  BY DEF Init
<1> QED
  BY <1>1, <1>2, PassedFacts, YieldsOfTwo DEF Held, Outer, Current

LEMMA HeldRenders ==
  ASSUME RunInv, NEW r \in Run, Held(r), AsksForValues(plan[r]), AtWork(r),
         NEW s \in ToSet(Level(r)), s.kind = "llm"
  PROVE  Renders(r, s)
<1> DEFINE levels == Current(r)
           here == at[r].level
<1>1. /\ BuiltPlan(plan[r]) /\ BuiltWorkflow(levels) /\ here \in DOMAIN levels
      /\ at[r].body \in DOMAIN plan[r] /\ Len(levels) \in Nat
  BY LevelHere DEF AtWork, RunInv, Placed
<1>2. s \in StepsOf(levels)
  BY <1>1, InPassed DEF Level, StepsOf
<1>3. /\ s.asks \subseteq s.visible /\ s.asks \cap SilentIds(StepsOf(levels)) = {}
      /\ s.visible \subseteq InputsOf(levels) \cup {t.id : t \in Passed(levels, here)}
  BY <1>1, <1>2 DEF BuiltWorkflow, AsksForValues, Level, Current
<1>4. \A t \in Passed(levels, here) :
        t.id \in Yields(Passed(levels, here)) \/ t.id \in SilentIds(StepsOf(levels))
  BY <1>1, PassedWithin DEF Yields, SilentIds, StepsOf
<1>5. InputsOf(levels) \subseteq DOMAIN ctx[r]
  <2>1. CASE at[r].body = <<>>
    BY <2>1 DEF Held, Current
  <2>2. CASE at[r].body # <<>>
    <3> DEFINE outside == plan[r][<<>>]
               l == LoopStep(r)
    <3>1. /\ l.kind = "loop" /\ l.id = at[r].body /\ at[r].outer \in DOMAIN outside
          /\ l \in ToSet(outside[at[r].outer]) /\ BuiltWorkflow(outside)
      BY <2>2, LoopFacts
    <3>2. l \in StepsOf(outside) /\ <<>> \in DOMAIN plan[r]
      BY <1>1, <3>1, InPassed DEF StepsOf, BuiltPlan
    <3>3. InputsOf(levels) \subseteq l.visible \ SilentIds(StepsOf(outside))
      BY <3>1, <3>2 DEF AsksForValues, Current
    <3>4. l.visible \subseteq InputsOf(outside) \cup {t.id : t \in Passed(outside, at[r].outer)}
      BY <3>1 DEF BuiltWorkflow
    <3>5. \A t \in Passed(outside, at[r].outer) :
            t.id \in Yields(Passed(outside, at[r].outer)) \/ t.id \in SilentIds(StepsOf(outside))
      BY <3>1, PassedWithin DEF Yields, SilentIds, StepsOf
    <3>6. /\ InputsOf(outside) \subseteq DOMAIN ctx[r]
          /\ Yields(Passed(outside, at[r].outer)) \subseteq DOMAIN ctx[r]
      BY <2>2 DEF Held, Outer
    <3> HIDE DEF outside, l, levels
    <3> QED
      BY <3>3, <3>4, <3>5, <3>6
  <2> QED
    BY <2>1, <2>2
<1>6. Yields(Passed(levels, here)) \subseteq DOMAIN ctx[r]
  BY DEF Held
<1> HIDE DEF levels, here
<1> QED
  BY <1>3, <1>4, <1>5, <1>6 DEF Renders

(* When a step of a loaded workflow is reached, its prompt renders: what   *)
(* the loader let a placeholder name has a value by then, through nesting, *)
(* parallel levels, steps that failed and loops, as long as no prompt asks *)
(* for the value of a gate or of a persist step.                           *)
THEOREM PromptsAlwaysRender ==
  ASSUME \A r \in Run : \A p \in StartedOn(r) : AsksForValues(p)
  PROVE  Spec => []PromptsRender
<1> DEFINE AllHeld == \A r \in Run : Held(r)
<1>1. Init => RunInv /\ AllHeld
  BY RunInvStart, HeldStart
<1>2. RunInv /\ AllHeld /\ [Next]_vars => RunInv' /\ AllHeld'
  <2> SUFFICES ASSUME RunInv, AllHeld, [Next]_vars PROVE RunInv' /\ AllHeld'
    OBVIOUS
  <2>1. RunInv'
    BY RunInvStep
  <2>2. CASE UNCHANGED vars
    BY <2>1, <2>2 DEF vars, Held, Outer, Current
  <2>3. CASE Next
    <3>1. PICK r \in Run : Step(r)
      BY <2>3 DEF Next, Step
    <3>2. Moves(r) /\ plan' = plan /\ Others(r)
      BY <3>1, StepMoves DEF Moves
    <3>3. Held(r)'
      BY <3>2, StepHeld
    <3>4. \A q \in Run \ {r} : Held(q)'
      BY <3>2 DEF Others, Held, Outer, Current
    <3> QED
      BY <2>1, <3>3, <3>4
  <2> QED
    BY <2>2, <2>3
<1>3. RunInv /\ AllHeld => PromptsRender
  <2>1. \A r \in Run : RunInv => AsksForValues(plan[r])
    BY DEF RunInv, Planned
  <2> QED
    BY <2>1, HeldRenders DEF PromptsRender
<1> HIDE DEF AllHeld
<1> QED
  BY <1>1, <1>2, <1>3, PTL DEF Spec

(***************************************************************************)
(* Documents.                                                              *)
(***************************************************************************)
(* Nothing in the steps touches the spec that a reader of this name finds. *)
Untouched(steps, id) ==
  \A s \in steps : s.kind # "loop" /\ Written(s) \cap SpecKeys(id) = {}

(* A run that waits shows the spec of its gate, and what its approvers     *)
(* have seen stays the spec until something touches it.                    *)
Seen(r) ==
  /\ status[r] = "awaiting" => shown[r] = ResolveSpec(ctx[r], Only(r).id)
  /\ \A m \in 1 .. at[r].level - 1 : \A g \in ToSet(Current(r)[m]) :
       /\ g.kind = "gate"
       /\ \A j \in m + 1 .. at[r].level - 1 : Untouched(ToSet(Current(r)[j]), g.id)
       => ResolveSpec(ctx[r], g.id) \in approved[r]

(* What a run has saved is there, and was approved.                        *)
Saved(r) ==
  source[r] # None =>
    LET saved == disk[source[r].dir]
    IN  /\ saved.by = r
        /\ \E spec \in approved[r] \ {None} : saved.doc = Document(spec)
        /\ saved.doc.by = source[r].by

LEMMA LastNames ==
  ASSUME NEW a \in Key, NEW b \in Key, NEW x, NEW y, Append(a, x) = Append(b, y)
  PROVE  x = y
<1>1. /\ Append(a, x)[Len(a) + 1] = x /\ Append(b, y)[Len(b) + 1] = y
      /\ Len(Append(a, x)) = Len(a) + 1 /\ Len(Append(b, y)) = Len(b) + 1
      /\ Len(a) \in Nat /\ Len(b) \in Nat
  BY DEF Key
<1> QED
  BY <1>1

LEMMA ResolveSame ==
  ASSUME NEW c, NEW d, NEW steps, Extends(c, d, steps), NEW id, Untouched(steps, id)
  PROVE  ResolveSpec(d, id) = ResolveSpec(c, id)
<1>1. \A k \in SpecKeys(id) : (k \in DOMAIN d <=> k \in DOMAIN c) /\ (k \in DOMAIN c => d[k] = c[k])
  BY DEF Extends, Untouched
<1> QED
  BY <1>1 DEF ResolveSpec, SpecKeys

LEMMA PassesGate ==
  ASSUME RunInv, NEW r \in Run, Step(r), Passes(r), NEW g \in ToSet(Level(r)), g.kind = "gate"
  PROVE  Approve(r) /\ g = Only(r)
<1>1. at[r].level <= Len(Current(r)) /\ at'[r] # at[r]
  <2>1. at[r] \in Position /\ at'[r] = [at[r] EXCEPT !.level = @ + 1]
    BY DEF RunInv, TypeOK, Passes
  <2>2. at'[r].level = at[r].level + 1 /\ at[r].level \in Nat
    BY <2>1 DEF Position
  <2>3. at'[r].level # at[r].level
    BY <2>2
  <2>4. at'[r] # at[r]
    BY <2>3
  <2> QED
    BY <2>4 DEF Passes
<1>2. Alone(r) /\ g = Only(r)
  BY <1>1, LevelHere
<1>3. ~EndStep(r) /\ ~Assemble(r) /\ ~CreateTicket(r) /\ ~WritePart(r) /\ ~Export(r) /\ ~EnterLoop(r)
  BY <1>2 DEF EndStep, Assemble, CreateTicket, WritePart, Export, EnterLoop, AtStep
<1>4. ~EndParallel(r) /\ ~Merge(r)
  BY <1>2 DEF EndParallel, Merge
<1>5. ~Suspend(r) /\ ~Reject(r)
  BY <1>1 DEF Suspend, Reject
<1>6. ~EndRound(r)
  <2>1. Len(Current(r)) \in Nat /\ at[r].level \in Nat
    BY LevelHere
  <2> QED
    BY <1>1, <2>1 DEF EndRound
<1> QED
  BY <1>2, <1>3, <1>4, <1>5, <1>6 DEF Step

(* Nobody takes back an approval, and no document is written over.         *)
LEMMA ApprovedStays ==
  ASSUME RunInv, NEW r \in Run, Step(r)
  PROVE  approved[r] \subseteq approved'[r]
<1>1. approved = [q \in Run |-> approved[q]]
  BY DEF RunInv, TypeOK
<1>2. Approve(r) => approved[r] \subseteq approved'[r]
  BY <1>1 DEF Approve
<1>3. ~Approve(r) => approved' = approved
  BY DEF Step, EndStep, EndParallel, Merge, Assemble, Suspend, Reject, CreateTicket, WritePart,
     Export, EnterLoop, EndRound
<1> QED
  BY <1>2, <1>3

LEMMA DocumentsStay ==
  ASSUME RunInv, NEW r \in Run, Step(r), NEW n \in DOMAIN disk
  PROVE  disk'[n] = disk[n]
<1>1. ASSUME Export(r) PROVE disk'[n] = disk[n]
  <2>1. CASE disk' = disk
    BY <2>1
  <2>2. CASE disk' # disk
    <3>1. PICK m \in FreeDir : \E v : disk' = Set(disk, m, v)
      BY <1>1, <2>2 DEF Export
    <3>2. m # n
      BY DEF FreeDir
    <3> QED
      BY <3>1, <3>2 DEF Set
  <2> QED
    BY <2>1, <2>2
<1>2. ~Export(r) => disk' = disk
  BY DEF Step, EndStep, EndParallel, Merge, Assemble, Suspend, Approve, Reject, CreateTicket,
     WritePart, EnterLoop, EndRound
<1> QED
  BY <1>1, <1>2

LEMMA GateKeyIsOther ==
  ASSUME NEW id \in Key
  PROVE  Append(id, "approved") \notin SpecKeys(id)
<1>1. Front(id) \in Key
  BY FrontType
<1>2. Append(id, "approved") # Append(Front(id), "spec")
  BY <1>1, LastNames
<1>3. Append(id, "approved") # Append(Front(id), "revisedSpec")
  BY <1>1, LastNames
<1> QED
  BY <1>2, <1>3 DEF SpecKeys, NsKey

LEMMA StepSeen ==
  ASSUME RunInv, NEW r \in Run, Seen(r), Step(r)
  PROVE  Seen(r)'
<1>1. /\ Moves(r) /\ plan' = plan /\ at[r].level \in Nat \ {0} /\ BuiltWorkflow(Current(r))
      /\ at[r] \in Position /\ approved[r] \subseteq approved'[r]
  BY LevelHere, StepMoves, ApprovedStays DEF RunInv, TypeOK, Moves
<1>2. status'[r] = "awaiting" => shown'[r] = ResolveSpec(ctx'[r], Only(r)'.id)
  <2>1. ASSUME Suspend(r) PROVE shown'[r] = ResolveSpec(ctx[r], Only(r).id)
    BY <2>1 DEF Suspend, RunInv, TypeOK
  <2>2. Suspend(r) => ctx' = ctx /\ Only(r)' = Only(r)
    BY DEF Suspend, Only, Level, Current
  <2> QED
    BY <2>1, <2>2, WaitsAtGate
<1> DEFINE Kept(m, g) ==
             /\ g.kind = "gate"
             /\ \A j \in m + 1 .. at'[r].level - 1 : Untouched(ToSet(Current(r)'[j]), g.id)
             => ResolveSpec(ctx'[r], g.id) \in approved'[r]
<1>3. CASE Rests(r)
  <2>1. Current(r)' = Current(r) /\ at'[r] = at[r] /\ ctx'[r] = ctx[r]
    BY <1>1, <1>3 DEF Rests, Current
  <2>2. \A m \in 1 .. at'[r].level - 1 : \A g \in ToSet(Current(r)'[m]) : Kept(m, g)
    BY <1>1, <2>1 DEF Seen
  <2> QED
    BY <1>2, <2>2 DEF Seen
<1>4. CASE Passes(r)
  <2>1. /\ Current(r)' = Current(r) /\ at'[r].level = at[r].level + 1
        /\ Extends(ctx[r], ctx'[r], ToSet(Level(r)))
    BY <1>1, <1>4 DEF Passes, Position, Current
  <2>2. ASSUME NEW m \in 1 .. at[r].level, NEW g \in ToSet(Current(r)[m]), g.kind = "gate",
               \A j \in m + 1 .. at[r].level : Untouched(ToSet(Current(r)[j]), g.id)
        PROVE  ResolveSpec(ctx'[r], g.id) \in approved'[r]
    <3>1. CASE m < at[r].level
      <4>1. m \in 1 .. at[r].level - 1 /\ at[r].level \in m + 1 .. at[r].level
        BY <1>1, <3>1
      <4>2. Untouched(ToSet(Level(r)), g.id)
        BY <2>2, <4>1 DEF Level
      <4>3. \A j \in m + 1 .. at[r].level - 1 : j \in m + 1 .. at[r].level
        BY <1>1
      <4>4. ResolveSpec(ctx[r], g.id) \in approved[r]
        BY <2>2, <4>1, <4>3 DEF Seen
      <4>5. ResolveSpec(ctx'[r], g.id) = ResolveSpec(ctx[r], g.id)
        BY <2>1, <4>2, ResolveSame
      <4> QED
        BY <1>1, <4>4, <4>5
    <3>2. CASE m = at[r].level
      <4>1. g \in ToSet(Level(r))
        BY <3>2 DEF Level
      <4>2. Approve(r) /\ g = Only(r)
        BY <1>4, <2>2, <4>1, PassesGate
      <4>3. shown[r] \in approved'[r] /\ shown[r] = ResolveSpec(ctx[r], g.id)
        BY <4>2 DEF Approve, RunInv, TypeOK, Seen
      <4>4. Untouched(ToSet(Level(r)), g.id)
        <5>1. ToSet(Level(r)) = {g} /\ g \in BuiltStep
          BY <1>4, <4>1, <4>2, LevelHere DEF Passes, Approve, RunInv, Placed
        <5>2. Written(g) = {Append(g.id, "approved")} /\ g.id \in Key
          BY <2>2, <5>1, WrittenFacts, StepTyped
        <5> QED
          BY <2>2, <5>1, <5>2, GateKeyIsOther DEF Untouched
      <4> QED
        BY <2>1, <4>3, <4>4, ResolveSame
    <3> QED
      BY <1>1, <3>1, <3>2
  <2>3. at'[r].level - 1 = at[r].level
    BY <1>1, <2>1
  <2>4. \A m \in 1 .. at'[r].level - 1 : \A g \in ToSet(Current(r)'[m]) : Kept(m, g)
    BY <2>1, <2>2, <2>3
  <2> QED
    BY <1>2, <2>4 DEF Seen
<1>5. CASE Begins(r) \/ Repeats(r)
  <2>1. at'[r].level = 1
    <3>1. CASE Begins(r)
      BY <3>1 DEF Begins
    <3>2. CASE Repeats(r)
      BY <1>1, <3>2 DEF Repeats, Position
    <3> QED
      BY <1>5, <3>1, <3>2
  <2>2. 1 .. at'[r].level - 1 = {}
    BY <2>1
  <2> QED
    BY <1>2, <2>2 DEF Seen
<1>6. CASE Leaves(r)
  <2>1. at'[r].body = <<>> /\ at'[r].level = at[r].outer + 1 /\ at[r].body # <<>>
    BY <1>6 DEF Leaves
  <2>2. /\ at[r].outer \in DOMAIN plan[r][<<>>] /\ BuiltWorkflow(plan[r][<<>>])
        /\ ToSet(plan[r][<<>>][at[r].outer]) = {LoopStep(r)} /\ LoopStep(r).kind = "loop"
    BY <2>1, LoopFacts
  <2>3. at[r].outer \in Nat \ {0}
    <3>1. DOMAIN plan[r][<<>>] = 1 .. Len(plan[r][<<>>])
      BY <2>2, BuiltNotEmpty
    <3> QED
      BY <2>2, <3>1
  <2>4. Current(r)' = plan[r][<<>>] /\ at'[r].level - 1 = at[r].outer
    BY <1>1, <2>1, <2>3 DEF Current
  <2>5. ASSUME NEW m \in 1 .. at[r].outer, NEW g \in ToSet(plan[r][<<>>][m]), g.kind = "gate",
               \A j \in m + 1 .. at[r].outer : Untouched(ToSet(plan[r][<<>>][j]), g.id)
        PROVE  FALSE
    <3>1. m # at[r].outer
      BY <2>2, <2>5
    <3>2. at[r].outer \in m + 1 .. at[r].outer
      BY <2>3, <3>1
    <3> QED
      BY <2>2, <2>5, <3>2 DEF Untouched
  <2>6. \A m \in 1 .. at'[r].level - 1 : \A g \in ToSet(Current(r)'[m]) : Kept(m, g)
    BY <2>4, <2>5
  <2> QED
    BY <1>2, <2>6 DEF Seen
<1> QED
  BY <1>1, <1>3, <1>4, <1>5, <1>6 DEF Moves

LEMMA DocumentBy ==
  ASSUME NEW spec \in Values
  PROVE  Document(spec).by = spec.by
BY DEF Document, Rendered, Values

(* The spec an export finds is one the approvers of its run have seen.     *)
LEMMA ExportsSeen ==
  ASSUME RunInv, NEW r \in Run, Seen(r), ExportsApproved(plan[r]), AtStep(r, "export-spec")
  PROVE  ResolveSpec(ctx[r], Only(r).id) \in approved[r]
<1> DEFINE e == Only(r)
           k == at[r].body
           n == at[r].level
<1>1. /\ k \in DOMAIN plan[r] /\ n \in DOMAIN plan[r][k] /\ e \in ToSet(plan[r][k][n])
      /\ e.kind = "export-spec"
  BY LevelHere DEF AtStep, RunInv, Placed, Current, Level
<1>2. PICK m \in 1 .. n - 1 : \E g \in ToSet(plan[r][k][m]) :
        /\ g.kind = "gate" /\ Front(g.id) = Front(e.id)
        /\ \A j \in m + 1 .. n - 1 : \A s \in ToSet(plan[r][k][j]) :
             s.kind # "loop" /\ Written(s) \cap SpecKeys(e.id) = {}
  BY <1>1 DEF ExportsApproved
<1>3. PICK g \in ToSet(plan[r][k][m]) :
        /\ g.kind = "gate" /\ Front(g.id) = Front(e.id)
        /\ \A j \in m + 1 .. n - 1 : \A s \in ToSet(plan[r][k][j]) :
             s.kind # "loop" /\ Written(s) \cap SpecKeys(e.id) = {}
  BY <1>2
<1>4. /\ \A bare : NsKey(g.id, bare) = NsKey(e.id, bare)
      /\ SpecKeys(g.id) = SpecKeys(e.id)
  BY <1>3 DEF NsKey, SpecKeys
<1>5. ResolveSpec(ctx[r], g.id) = ResolveSpec(ctx[r], e.id)
  BY <1>4 DEF ResolveSpec
<1>6. \A j \in m + 1 .. n - 1 : Untouched(ToSet(Current(r)[j]), g.id)
  BY <1>3, <1>4 DEF Untouched, Current
<1>7. ResolveSpec(ctx[r], g.id) \in approved[r]
  BY <1>2, <1>3, <1>6 DEF Seen, Current
<1> QED
  BY <1>5, <1>7

LEMMA StepSaved ==
  ASSUME RunInv, NEW r \in Run, Seen(r), ExportsApproved(plan[r]), Step(r),
         \A q \in Run : Saved(q)
  PROVE  \A q \in Run : Saved(q)'
<1>1. \A n \in DOMAIN disk : disk'[n] = disk[n]
  BY DocumentsStay
<1>2. source \in [Run -> {None} \cup [by : Key, dir : DOMAIN disk]]
  BY DEF RunInv, TypeOK
<1>3. \A q \in Run : approved[q] \subseteq approved'[q]
  BY ApprovedStays, StepMoves DEF Moves, Others
<1>4. ASSUME NEW q \in Run, source'[q] = source[q]
      PROVE  Saved(q)'
  <2>1. source[q] # None => source[q].dir \in DOMAIN disk
    BY <1>2
  <2> QED
    BY <1>1, <1>3, <1>4, <2>1 DEF Saved
<1>5. CASE Export(r) /\ source' # source
  <2> DEFINE spec == ResolveSpec(ctx[r], Only(r).id)
  <2>1. PICK n \in FreeDir :
          /\ disk' = Set(disk, n, [by |-> r, doc |-> Document(spec)])
          /\ source' = [source EXCEPT ![r] = [by |-> spec.by, dir |-> n]]
          /\ Exportable(spec)
    BY <1>5 DEF Export
  <2>2. spec \in approved[r] /\ spec \in Values
    BY <1>5, ExportsSeen, SpecTypes DEF Export, Exportable, RunInv, TypeOK
  <2>3. spec # None
    BY <2>1 DEF Exportable
  <2> HIDE DEF spec
  <2>4. source'[r].dir = n /\ source'[r].by = spec.by /\ \A q \in Run \ {r} : source'[q] = source[q]
    BY <1>2, <2>1
  <2>5. disk'[n].by = r /\ disk'[n].doc = Document(spec)
    BY <2>1 DEF Set
  <2>6. Saved(r)'
    BY <1>3, <2>2, <2>3, <2>4, <2>5, DocumentBy DEF Saved
  <2> QED
    BY <1>4, <2>4, <2>6
<1>6. CASE source' = source
  BY <1>4, <1>6
<1>7. ~Export(r) => source' = source
  BY DEF Step, EndStep, EndParallel, Merge, Assemble, Suspend, Approve, Reject, CreateTicket,
     WritePart, EnterLoop, EndRound
<1> QED
  BY <1>5, <1>6, <1>7

(* What a run has saved is the document of a spec that somebody approved   *)
(* on the screen; the manifest names the step that wrote it; and no later  *)
(* export, of this run or of another one, replaces it.                     *)
THEOREM ExportsAreApproved ==
  ASSUME \A r \in Run : \A p \in StartedOn(r) : ExportsApproved(p)
  PROVE  Spec => []ExportIsApproved
<1> DEFINE Inv == \A r \in Run : Seen(r) /\ Saved(r)
<1>1. Init => RunInv /\ Inv
  <2> SUFFICES ASSUME Init PROVE RunInv /\ Inv
    OBVIOUS
  <2>1. \A r \in Run : status[r] = "running" /\ at[r].level = 1 /\ source[r] = None
    BY DEF Init
  <2>2. 1 .. 1 - 1 = {}
    OBVIOUS
  <2> QED
    BY <2>1, <2>2, RunInvStart DEF Seen, Saved
<1>2. RunInv /\ Inv /\ [Next]_vars => RunInv' /\ Inv'
  <2> SUFFICES ASSUME RunInv, Inv, [Next]_vars PROVE RunInv' /\ Inv'
    OBVIOUS
  <2>1. RunInv'
    BY RunInvStep
  <2>2. CASE UNCHANGED vars
    BY <2>1, <2>2 DEF vars, Seen, Saved, Current, Level, Only
  <2>3. CASE Next
    <3>1. PICK r \in Run : Step(r)
      BY <2>3 DEF Next, Step
    <3>2. ExportsApproved(plan[r])
      BY DEF RunInv, Planned
    <3>3. Seen(r)'
      BY <3>1, StepSeen
    <3>4. plan' = plan /\ Others(r)
      BY <3>1, StepMoves DEF Moves
    <3>5. \A q \in Run \ {r} : Seen(q)'
      BY <3>4 DEF Others, Seen, Current, Level, Only
    <3>6. \A q \in Run : Saved(q)'
      BY <3>1, <3>2, StepSaved
    <3> QED
      BY <2>1, <3>3, <3>5, <3>6
  <2> QED
    BY <2>2, <2>3
<1>3. Inv => ExportIsApproved
  BY DEF Saved, ExportIsApproved
<1> HIDE DEF Inv
<1> QED
  BY <1>1, <1>2, <1>3, PTL DEF Spec

(***************************************************************************)
(* Tickets.                                                                *)
(***************************************************************************)
First(n) == {Parts[i] : i \in 1 .. n}

(* The context has the id of a ticket.                                     *)
Ticketed(c) == \E k \in DOMAIN c : k # <<>> /\ Last(k) = "ticketId"

(* A ticket has the first of its parts; its id is in the context when it   *)
(* has all of them and the one persist step lies behind.                   *)
Ticketing(r) ==
  /\ ticket[r] # None =>
       \E n \in 0 .. Len(Parts) : ticket[r].parts = First(n) /\ (saving[r] > 0 => n = saving[r] - 1)
  /\ Ticketed(ctx[r]) =>
       /\ ticket[r] # None /\ ticket[r].parts = ToSet(Parts)
       /\ \E s \in Passed(plan[r][<<>>], Outer(r)) : s.kind = "persist-ticket"

LEMMA FirstFacts ==
  /\ First(0) = {} /\ First(6) = ToSet(Parts)
  /\ \A n \in 0 .. 5 : First(n) \cup {Parts[n + 1]} = First(n + 1)
  /\ \A n \in 0 .. 6 : "ready" \in First(n) => n = 6
<1>1. First(0) = {} /\ First(6) = ToSet(Parts)
  BY PartsFacts DEF First
<1>2. \A n \in 0 .. 5 : First(n) \cup {Parts[n + 1]} = First(n + 1)
  <2>1. ASSUME NEW n \in 0 .. 5 PROVE 1 .. n + 1 = (1 .. n) \cup {n + 1}
    OBVIOUS
  <2> QED
    BY <2>1 DEF First
<1>3. \A i \in 1 .. 5 : Parts[i] # "ready"
  <2>1. \A i \in 1 .. 5 : i = 1 \/ i = 2 \/ i = 3 \/ i = 4 \/ i = 5
    OBVIOUS
  <2> QED
    BY <2>1 DEF Parts
<1>4. \A n \in 0 .. 6 : "ready" \in First(n) => n = 6
  <2>1. ASSUME NEW n \in 0 .. 6, n # 6 PROVE 1 .. n \subseteq 1 .. 5
    BY <2>1
  <2> QED
    BY <1>3, <2>1 DEF First
<1> QED
  BY <1>1, <1>2, <1>4

LEMMA LastOfAppend ==
  ASSUME NEW a \in Key, NEW x
  PROVE  Append(a, x) # <<>> /\ Last(Append(a, x)) = x
<1>1. /\ Append(a, x)[Len(a) + 1] = x /\ Len(Append(a, x)) = Len(a) + 1 /\ Len(a) \in Nat
  BY DEF Key
<1>2. Last(Append(a, x)) = x
  BY <1>1 DEF Last
<1> DEFINE t == Append(a, x)
<1>3. Len(t) # 0
  BY <1>1
<1> HIDE DEF t
<1>4. t # <<>>
  BY <1>3
<1> QED
  BY <1>2, <1>4 DEF t

(* Only a persist step writes a key named like the ticket's.               *)
LEMMA WrittenNames ==
  ASSUME NEW s \in BuiltStep, s.kind # "persist-ticket", Last(s.id) # "ticketId",
         NEW k \in Written(s)
  PROVE  Last(k) # "ticketId"
<1>1. s.id \in Key /\ Front(s.id) \in Key /\ Front(Front(s.id)) \in Key /\ <<>> \in Key
  BY StepTyped, FrontType DEF Key
<1>2. \/ k = s.id \/ k = Append(s.id, "approved") \/ k = NsKey(s.id, "spec")
      \/ k = PublishedKey(s.id)
  BY DEF Written
<1>3. Last(Append(s.id, "approved")) # "ticketId" /\ Last(NsKey(s.id, "spec")) # "ticketId"
  BY <1>1, LastOfAppend DEF NsKey
<1>4. Last(PublishedKey(s.id)) # "ticketId"
  <2>1. Last(NsKey(Front(s.id), "revisedSpec")) = "revisedSpec"
    BY <1>1, LastOfAppend DEF NsKey
  <2>2. Last(<<"revisedSpec">>) = "revisedSpec"
    BY DEF Last
  <2> QED
    BY <2>1, <2>2 DEF PublishedKey
<1> QED
  BY <1>2, <1>3, <1>4

LEMMA PassesPersist ==
  ASSUME RunInv, NEW r \in Run, Step(r), Passes(r), NEW s \in ToSet(Level(r)),
         s.kind = "persist-ticket"
  PROVE  /\ WritePart(r) /\ s = Only(r) /\ saving[r] = 6 /\ saving'[r] = 0
         /\ ticket' = [ticket EXCEPT ![r].parts = @ \cup {Parts[6]}]
<1>1. at[r].level <= Len(Current(r)) /\ at'[r] # at[r] /\ status[r] \in {"running", "awaiting"}
  <2>1. at[r] \in Position /\ at'[r] = [at[r] EXCEPT !.level = @ + 1]
    BY DEF RunInv, TypeOK, Passes
  <2>2. at'[r].level = at[r].level + 1 /\ at[r].level \in Nat
    BY <2>1 DEF Position
  <2>3. at'[r].level # at[r].level
    BY <2>2
  <2>4. at'[r] # at[r]
    BY <2>3
  <2> QED
    BY <2>4 DEF Passes
<1>2. Alone(r) /\ s = Only(r)
  BY <1>1, LevelHere
<1>3. ~EndStep(r) /\ ~Assemble(r) /\ ~Suspend(r) /\ ~Export(r) /\ ~EnterLoop(r)
  BY <1>2 DEF EndStep, Assemble, Suspend, Export, EnterLoop, AtStep
<1>4. ~EndParallel(r) /\ ~Merge(r)
  BY <1>2 DEF EndParallel, Merge
<1>5. ~CreateTicket(r) /\ ~Reject(r)
  BY <1>1 DEF CreateTicket, Reject
<1>6. ~EndRound(r)
  <2>1. Len(Current(r)) \in Nat /\ at[r].level \in Nat
    BY LevelHere
  <2> QED
    BY <1>1, <2>1 DEF EndRound
<1>7. ~Approve(r)
  BY <1>2 DEF Approve, RunInv, Placed
<1>8. WritePart(r)
  BY <1>3, <1>4, <1>5, <1>6, <1>7 DEF Step
<1>9. saving[r] \in 0 .. 6 /\ saving \in [Run -> 0 .. 6]
  BY PartsFacts DEF RunInv, TypeOK
<1>10. ~(saving[r] < 6) /\ ticket' = [ticket EXCEPT ![r].parts = @ \cup {Parts[saving[r]]}]
       /\ saving' = [saving EXCEPT ![r] = 0]
  BY <1>1, <1>8, PartsFacts DEF WritePart, NextPart
<1>11. saving[r] = 6
  BY <1>9, <1>10
<1> QED
  BY <1>2, <1>8, <1>9, <1>10, <1>11

(* The ticket and the parts it has.                                        *)
LEMMA StepTicket ==
  ASSUME RunInv, NEW r \in Run, Ticketing(r), Step(r)
  PROVE  ticket'[r] # None =>
           \E n \in 0 .. 6 : ticket'[r].parts = First(n) /\ (saving'[r] > 0 => n = saving'[r] - 1)
<1>1. ticket \in [Run -> {None} \cup Tickets] /\ saving \in [Run -> 0 .. 6]
  BY PartsFacts DEF RunInv, TypeOK
<1>2. ticket[r] # None =>
        \E n \in 0 .. 6 : ticket[r].parts = First(n) /\ (saving[r] > 0 => n = saving[r] - 1)
  BY PartsFacts DEF Ticketing
<1>3. CASE CreateTicket(r)
  <2>1. CASE ticket' = ticket /\ saving' = saving
    BY <1>2, <2>1
  <2>2. CASE ~(ticket' = ticket /\ saving' = saving)
    <3>1. PICK spec : /\ ticket' = [ticket EXCEPT ![r] = [spec |-> spec, parts |-> {}]]
                      /\ saving' = [saving EXCEPT ![r] = 1]
      BY <1>3, <2>2 DEF CreateTicket
    <3>2. ticket'[r].parts = {} /\ saving'[r] = 1
      BY <1>1, <3>1
    <3> QED
      BY <3>2, FirstFacts
  <2> QED
    BY <2>1, <2>2
<1>4. CASE WritePart(r)
  <2> DEFINE m == saving[r]
  <2>1. m \in 1 .. 6 /\ ticket[r] # None
    BY <1>1, <1>4 DEF WritePart, RunInv, TypeOK
  <2>2. ticket[r] \in Tickets /\ ticket[r].parts = First(m - 1)
    BY <1>1, <1>2, <2>1
  <2>3. CASE ticket' = ticket /\ saving' = [saving EXCEPT ![r] = 0]
    <3>1. saving'[r] = 0 /\ m - 1 \in 0 .. 6
      BY <1>1, <2>1, <2>3
    <3> QED
      BY <2>2, <2>3, <3>1
  <2>4. CASE /\ ticket' = [ticket EXCEPT ![r].parts = @ \cup {Parts[m]}]
             /\ saving' \in {[saving EXCEPT ![r] = @ + 1], [saving EXCEPT ![r] = 0]}
    <3>1. ticket'[r].parts = First(m - 1) \cup {Parts[m]}
      BY <1>1, <2>2, <2>4 DEF Tickets
    <3>2. m - 1 \in 0 .. 5 /\ (m - 1) + 1 = m
      BY <2>1
    <3>3. ticket'[r].parts = First(m)
      BY <3>1, <3>2, FirstFacts
    <3>4. m \in 0 .. 6 /\ (saving'[r] > 0 => m = saving'[r] - 1)
      BY <1>1, <2>1, <2>4
    <3> HIDE DEF m
    <3> QED
      BY <3>3, <3>4
  <2> QED
    BY <1>4, <2>3, <2>4 DEF WritePart, NextPart
<1>5. CASE ~CreateTicket(r) /\ ~WritePart(r)
  <2>1. ticket' = ticket /\ saving' = saving
    BY <1>5 DEF Step, EndStep, EndParallel, Merge, Assemble, Suspend, Approve, Reject, Export,
       EnterLoop, EndRound
  <2> QED
    BY <1>2, <2>1
<1> QED
  BY <1>3, <1>4, <1>5

(* The steps of no level but its own have a step's kind and its id.        *)
LEMMA OnePersist ==
  ASSUME RunInv, NEW r \in Run, OneTicket(plan[r]), at[r].level <= Len(Current(r)),
         NEW s \in ToSet(Level(r)), s.kind = "persist-ticket"
  PROVE  /\ at[r].body = <<>>
         /\ \A t \in Passed(plan[r][<<>>], at[r].level) : t.kind # "persist-ticket"
<1>1. /\ BuiltPlan(plan[r]) /\ BuiltWorkflow(Current(r)) /\ at[r].level \in DOMAIN Current(r)
      /\ at[r].body \in DOMAIN plan[r]
  BY LevelHere DEF RunInv, Placed
<1>2. s \in StepsOf(Current(r))
  BY <1>1, InPassed DEF StepsOf, Level
<1>3. at[r].body = <<>>
  BY <1>1, <1>2 DEF OneTicket, Current
<1>4. ASSUME NEW t \in Passed(plan[r][<<>>], at[r].level), t.kind = "persist-ticket"
      PROVE  FALSE
  <2>1. PICK m \in 1 .. at[r].level - 1 : t \in ToSet(Current(r)[m])
    BY <1>3, <1>4 DEF Passed, Current
  <2>2. m \in DOMAIN Current(r) /\ m # at[r].level
    BY <1>1, <2>1, BuiltNotEmpty
  <2>3. t \in StepsOf(Current(r))
    BY <1>1, <2>1, <2>2, InPassed DEF StepsOf
  <2>4. s = t
    BY <1>2, <1>3, <1>4, <2>3 DEF OneTicket, Current
  <2>5. m = at[r].level
    BY <1>1, <2>1, <2>2, <2>4 DEF BuiltWorkflow, Level
  <2> QED
    BY <2>2, <2>5
<1> QED
  BY <1>3, <1>4

LEMMA NamesHere ==
  ASSUME RunInv, NEW r \in Run, OneTicket(plan[r])
  PROVE  /\ at[r].level <= Len(Current(r)) =>
              \A s \in ToSet(Level(r)) : s \in BuiltStep /\ Last(s.id) # "ticketId"
         /\ at[r].body # <<>> => Last(LoopStep(r).id) # "ticketId"
<1>1. BuiltPlan(plan[r]) /\ BuiltWorkflow(Current(r)) /\ at[r].body \in DOMAIN plan[r]
      /\ <<>> \in DOMAIN plan[r]
  BY LevelHere DEF RunInv, Placed, BuiltPlan
<1>2. ASSUME at[r].level <= Len(Current(r)), NEW s \in ToSet(Level(r))
      PROVE  s \in BuiltStep /\ Last(s.id) # "ticketId"
  <2>1. s \in BuiltStep /\ at[r].level \in DOMAIN Current(r)
    BY <1>2, LevelHere
  <2>2. s \in StepsOf(Current(r)) /\ s.id # <<>>
    BY <1>1, <1>2, <2>1, InPassed, StepTyped DEF StepsOf, Level
  <2> QED
    BY <1>1, <2>1, <2>2 DEF OneTicket, Current
<1>3. ASSUME at[r].body # <<>> PROVE Last(LoopStep(r).id) # "ticketId"
  <2>1. /\ LoopStep(r) \in BuiltStep /\ at[r].outer \in DOMAIN plan[r][<<>>]
        /\ LoopStep(r) \in ToSet(plan[r][<<>>][at[r].outer]) /\ BuiltWorkflow(plan[r][<<>>])
    BY <1>3, LoopFacts
  <2>2. LoopStep(r) \in StepsOf(plan[r][<<>>]) /\ LoopStep(r).id # <<>>
    BY <2>1, InPassed, StepTyped DEF StepsOf
  <2> QED
    BY <1>1, <2>2 DEF OneTicket
<1> QED
  BY <1>2, <1>3

LEMMA StepTicketing ==
  ASSUME RunInv, NEW r \in Run, Ticketing(r), OneTicket(plan[r]), Step(r)
  PROVE  Ticketing(r)'
<1>1. /\ Moves(r) /\ plan' = plan /\ at[r].level \in Nat \ {0} /\ BuiltWorkflow(Current(r))
      /\ at[r] \in Position
  BY LevelHere, StepMoves DEF RunInv, TypeOK, Moves
<1>2. ticket'[r] # None =>
        \E n \in 0 .. Len(Parts) :
          ticket'[r].parts = First(n) /\ (saving'[r] > 0 => n = saving'[r] - 1)
  BY StepTicket, PartsFacts
<1> DEFINE Behind == \E s \in Passed(plan[r][<<>>], Outer(r)) : s.kind = "persist-ticket"
           Whole == ticket[r] # None /\ ticket[r].parts = ToSet(Parts)
<1>3. ASSUME Ticketed(ctx[r]) PROVE Whole'
  <2>1. Whole /\ Behind
    BY <1>3 DEF Ticketing
  <2>2. ~CreateTicket(r) /\ ~WritePart(r)
    <3>1. ASSUME AtStep(r, "persist-ticket") PROVE FALSE
      <4>1. /\ at[r].level <= Len(Current(r)) /\ Only(r) \in ToSet(Level(r))
            /\ Only(r).kind = "persist-ticket"
        BY <3>1, LevelHere DEF AtStep
      <4>2. Outer(r) = at[r].level
        BY <4>1, OnePersist DEF Outer
      <4> QED
        BY <2>1, <4>1, <4>2, OnePersist
    <3> QED
      BY <3>1 DEF CreateTicket, WritePart
  <2>3. ticket' = ticket
    BY <2>2 DEF Step, EndStep, EndParallel, Merge, Assemble, Suspend, Approve, Reject, Export,
       EnterLoop, EndRound
  <2> QED
    BY <2>1, <2>3
<1>4. Behind => Behind'
  <2>1. CASE Rests(r)
    BY <1>1, <2>1 DEF Rests, Outer
  <2>2. CASE Passes(r)
    <3>1. at'[r].body = at[r].body /\ at'[r].outer = at[r].outer /\ at'[r].level = at[r].level + 1
      BY <1>1, <2>2 DEF Passes, Position
    <3>2. Outer(r)' = Outer(r) \/ (Outer(r) = at[r].level /\ Outer(r)' = at[r].level + 1)
      BY <3>1 DEF Outer
    <3> QED
      BY <1>1, <3>2, PassedFacts
  <2>3. CASE Begins(r)
    <3>1. at'[r].body = Only(r).id /\ at'[r].outer = at[r].level /\ Only(r).id # <<>>
          /\ at[r].body = <<>>
      BY <2>3, LevelHere, StepTyped, BeginsOutside DEF Begins, AtStep
    <3> QED
      BY <1>1, <3>1 DEF Outer
  <2>4. CASE Repeats(r)
    <3>1. at'[r].body = at[r].body /\ at'[r].outer = at[r].outer /\ at[r].body # <<>>
      BY <1>1, <2>4 DEF Repeats, Position
    <3> QED
      BY <1>1, <3>1 DEF Outer
  <2>5. CASE Leaves(r)
    <3>1. at'[r].body = <<>> /\ at'[r].level = at[r].outer + 1 /\ at[r].body # <<>>
      BY <2>5 DEF Leaves
    <3>2. at[r].outer \in Nat \ {0}
      <4>1. at[r].outer \in DOMAIN plan[r][<<>>] /\ BuiltWorkflow(plan[r][<<>>])
        BY <3>1, LoopFacts
      <4> QED
        BY <4>1, BuiltNotEmpty
    <3>3. Outer(r) = at[r].outer /\ Outer(r)' = at[r].outer + 1
      BY <3>1 DEF Outer
    <3>4. Passed(plan[r][<<>>], at[r].outer) \subseteq Passed(plan[r][<<>>], at[r].outer + 1)
      BY <3>2, PassedFacts
    <3> QED
      BY <1>1, <3>3, <3>4
  <2> QED
    BY <1>1, <2>1, <2>2, <2>3, <2>4, <2>5 DEF Moves
<1>5. ASSUME Ticketed(ctx'[r]), ~Ticketed(ctx[r]) PROVE Whole' /\ Behind'
  <2>1. PICK k \in DOMAIN ctx'[r] : k # <<>> /\ Last(k) = "ticketId" /\ k \notin DOMAIN ctx[r]
    BY <1>5 DEF Ticketed
  <2>2. CASE Passes(r)
    <3>1. PICK s \in ToSet(Level(r)) : k \in Written(s)
      BY <2>1, <2>2 DEF Passes, Extends
    <3>2. s.kind = "persist-ticket" /\ at[r].level <= Len(Current(r))
      BY <2>1, <2>2, <3>1, NamesHere, WrittenNames DEF Passes
    <3>3. /\ WritePart(r) /\ saving[r] = 6
          /\ ticket' = [ticket EXCEPT ![r].parts = @ \cup {Parts[6]}]
      BY <2>2, <3>1, <3>2, PassesPersist
    <3>4. ticket[r] # None /\ ticket[r] \in Tickets /\ ticket \in [Run -> {None} \cup Tickets]
      BY <3>3 DEF RunInv, TypeOK
    <3>5. ticket[r].parts = First(5)
      BY <3>3, <3>4 DEF Ticketing
    <3>6. ticket'[r].parts = First(5) \cup {Parts[6]} /\ ticket'[r] \in Tickets
      <4>1. [ticket[r] EXCEPT !.parts = @ \cup {Parts[6]}] \in Tickets
        BY <3>4, PartsFacts DEF Tickets
      <4> QED
        BY <3>3, <3>4, <3>5, <4>1 DEF Tickets
    <3>7. Whole'
      <4>1. First(5) \cup {Parts[5 + 1]} = First(5 + 1)
        BY FirstFacts
      <4> QED
        BY <3>6, <4>1, FirstFacts, NoneAssumption
    <3>8. Behind'
      <4>1. at[r].body = <<>>
        BY <3>1, <3>2, OnePersist
      <4>2. Outer(r)' = at[r].level + 1
        BY <1>1, <2>2, <4>1 DEF Passes, Position, Outer
      <4> QED
        BY <1>1, <3>1, <3>2, <4>1, <4>2, PassedFacts DEF Level, Current
    <3> QED
      BY <3>7, <3>8
  <2>3. CASE Leaves(r)
    <3>1. k = LoopStep(r).id
      BY <2>1, <2>3 DEF Leaves, Set
    <3> QED
      BY <2>1, <2>3, <3>1, NamesHere DEF Leaves
  <2>4. CASE Rests(r) \/ Begins(r) \/ Repeats(r)
    BY <2>1, <2>4 DEF Rests, Begins, Repeats
  <2> QED
    BY <1>1, <2>2, <2>3, <2>4 DEF Moves
<1>6. Ticketed(ctx[r]) => Behind
  BY DEF Ticketing
<1> HIDE DEF Behind, Whole
<1>7. Ticketed(ctx'[r]) => Whole' /\ Behind'
  BY <1>3, <1>4, <1>5, <1>6
<1> QED
  BY <1>1, <1>2, <1>7 DEF Ticketing, Behind, Whole

(* A ticket is ready only when all of it is written, however the run goes  *)
(* on or fails, and a run that has the id of its ticket in its context has *)
(* a ready one.                                                            *)
THEOREM TicketsAreWhole ==
  ASSUME \A r \in Run : \A p \in StartedOn(r) : OneTicket(p)
  PROVE  Spec => []TicketIsWhole
<1> DEFINE Inv == \A r \in Run : Ticketing(r)
<1>1. Init => RunInv /\ Inv
  <2> SUFFICES ASSUME Init PROVE RunInv /\ Inv
    OBVIOUS
  <2>1. RunInv
    BY RunInvStart
  <2>2. ASSUME NEW r \in Run PROVE Ticketing(r)
    <3>1. ticket[r] = None /\ DOMAIN ctx[r] = InputsOf(plan[r][<<>>])
      BY DEF Init
    <3>2. OneTicket(plan[r]) /\ <<>> \in DOMAIN plan[r]
      BY <2>1, PlanFacts DEF RunInv, Planned, BuiltPlan
    <3>3. ~Ticketed(ctx[r])
      BY <3>1, <3>2 DEF OneTicket, Ticketed
    <3> QED
      BY <3>1, <3>3 DEF Ticketing
  <2> QED
    BY <2>1, <2>2
<1>2. RunInv /\ Inv /\ [Next]_vars => RunInv' /\ Inv'
  <2> SUFFICES ASSUME RunInv, Inv, [Next]_vars PROVE RunInv' /\ Inv'
    OBVIOUS
  <2>1. RunInv'
    BY RunInvStep
  <2>2. CASE UNCHANGED vars
    BY <2>1, <2>2 DEF vars, Ticketing, Outer
  <2>3. CASE Next
    <3>1. PICK r \in Run : Step(r)
      BY <2>3 DEF Next, Step
    <3>2. OneTicket(plan[r])
      BY DEF RunInv, Planned
    <3>3. Ticketing(r)'
      BY <3>1, <3>2, StepTicketing
    <3>4. plan' = plan /\ Others(r)
      BY <3>1, StepMoves DEF Moves
    <3>5. \A q \in Run \ {r} : Ticketing(q)'
      BY <3>4 DEF Others, Ticketing, Outer
    <3> QED
      BY <2>1, <3>3, <3>5
  <2> QED
    BY <2>2, <2>3
<1>3. RunInv /\ Inv => TicketIsWhole
  <2> SUFFICES ASSUME RunInv, Inv, NEW r \in Run
               PROVE  /\ ticket[r] # None /\ "ready" \in ticket[r].parts
                           => ticket[r].parts = ToSet(Parts)
                      /\ (\E id \in StepIds : NsKey(id, "ticketId") \in DOMAIN ctx[r])
                           => ticket[r] # None /\ "ready" \in ticket[r].parts
    BY DEF TicketIsWhole
  <2>1. ticket[r] # None /\ "ready" \in ticket[r].parts => ticket[r].parts = ToSet(Parts)
    <3> SUFFICES ASSUME ticket[r] # None, "ready" \in ticket[r].parts
                 PROVE  ticket[r].parts = ToSet(Parts)
      OBVIOUS
    <3>1. PICK n \in 0 .. 6 : ticket[r].parts = First(n)
      BY PartsFacts DEF Ticketing
    <3> QED
      BY <3>1, FirstFacts
  <2>2. ASSUME NEW id \in StepIds, NsKey(id, "ticketId") \in DOMAIN ctx[r]
        PROVE  ticket[r] # None /\ "ready" \in ticket[r].parts
    <3>1. PICK q \in Run : \E k \in DOMAIN plan[q] : \E s \in StepsOf(plan[q][k]) : id = s.id
      BY DEF StepIds
    <3>2. PICK k \in DOMAIN plan[q] : \E s \in StepsOf(plan[q][k]) : id = s.id
      BY <3>1
    <3>3. PICK s \in StepsOf(plan[q][k]) : id = s.id
      BY <3>2
    <3>4. BuiltWorkflow(plan[q][k])
      BY PlanFacts DEF RunInv, BuiltPlan
    <3>5. PICK m \in DOMAIN plan[q][k] : s \in ToSet(plan[q][k][m])
      <4>1. 1 .. (Len(plan[q][k]) + 1) - 1 = DOMAIN plan[q][k]
        BY <3>4, BuiltNotEmpty
      <4> QED
        BY <4>1 DEF StepsOf, Passed
    <3>6. s \in BuiltStep
      BY <3>4, <3>5, LevelFacts
    <3>7. Front(id) \in Key
      BY <3>3, <3>6, StepTyped, FrontType
    <3>8. Ticketed(ctx[r])
      BY <2>2, <3>7, LastOfAppend DEF Ticketed, NsKey
    <3>9. "ready" \in ToSet(Parts)
      <4>1. Parts[6] = "ready"
        BY DEF Parts
      <4> QED
        BY <4>1, PartsFacts
    <3> QED
      BY <3>8, <3>9 DEF Ticketing
  <2> QED
    BY <2>1, <2>2
<1> HIDE DEF Inv
<1> QED
  BY <1>1, <1>2, <1>3, PTL DEF Spec

(***************************************************************************)
(* Checks.                                                                 *)
(***************************************************************************)
(* Since level m nothing has written, looped or replaced the check's value.*)
Quiet(r, m, c) ==
  /\ \A j \in m + 1 .. at[r].level - 1 : \A w \in ToSet(Current(r)[j]) :
       ~w.writes /\ w.kind # "loop" /\ c.id \notin Written(w)
  /\ DOMAIN part[r] # {} => \A w \in ToSet(Level(r)) : ~w.writes

(* The check has passed, on this tree.                                     *)
Passing(r, c) == c.id \in DOMAIN ctx[r] /\ ctx[r][c.id].good /\ ctx[r][c.id].seen = tree

Going(r) == status[r] \in {"running", "awaiting"}

Checked(r) ==
  Going(r) =>
    \A m \in 1 .. at[r].level - 1 : \A c \in ToSet(Current(r)[m]) :
      c.kind = "check" /\ c.required /\ Quiet(r, m, c) => Passing(r, c)

(* Only a step that may write changes the tree.                            *)
LEMMA TreeMoves ==
  ASSUME RunInv, NEW r \in Run, Step(r), tree' # tree
  PROVE  /\ at[r].level <= Len(Current(r)) /\ \E w \in ToSet(Level(r)) : w.writes
         /\ EndStep(r) \/ EndParallel(r)
<1>1. EndStep(r) \/ EndParallel(r)
  BY DEF Step, Merge, Assemble, Suspend, Approve, Reject, CreateTicket, WritePart, Export,
     EnterLoop, EndRound
<1>2. CASE EndStep(r)
  <2>1. at[r].level <= Len(Current(r)) /\ Only(r).writes /\ Alone(r)
    BY <1>2 DEF EndStep, AtStep, Touches
  <2> QED
    BY <1>1, <2>1, LevelHere
<1>3. CASE EndParallel(r)
  <2>1. at[r].level <= Len(Current(r)) /\ \E s \in ToSet(Level(r)) : Touches(r, s)
    BY <1>3 DEF EndParallel
  <2> QED
    BY <1>1, <2>1 DEF Touches
<1> QED
  BY <1>1, <1>2, <1>3

LEMMA StepIsGoing ==
  ASSUME RunInv, NEW r \in Run, Step(r)
  PROVE  Going(r)
BY DEF Step, EndStep, EndParallel, Merge, Assemble, Suspend, Approve, Reject, CreateTicket,
   WritePart, Export, EnterLoop, EndRound, AtStep, Going

LEMMA PassesOn ==
  ASSUME RunInv, NEW r \in Run, Passes(r)
  PROVE  /\ at'[r] # at[r] /\ at'[r].body = at[r].body /\ at'[r].level = at[r].level + 1
         /\ at[r].level <= Len(Current(r))
<1>1. at[r] \in Position /\ at'[r] = [at[r] EXCEPT !.level = @ + 1]
  BY DEF RunInv, TypeOK, Passes
<1>2. /\ at'[r].level = at[r].level + 1 /\ at[r].level \in Nat /\ at'[r].body = at[r].body
  BY <1>1 DEF Position
<1>3. at'[r].level # at[r].level
  BY <1>2
<1>4. at'[r] # at[r]
  BY <1>3
<1> QED
  BY <1>2, <1>4 DEF Passes

LEMMA PassesCheck ==
  ASSUME RunInv, NEW r \in Run, Step(r), Passes(r), NEW c \in ToSet(Level(r)),
         c.kind = "check", c.required
  PROVE  Passing(r, c)'
<1>1. at[r].level <= Len(Current(r)) /\ at'[r] # at[r]
  BY PassesOn
<1>2. Alone(r) /\ c = Only(r) /\ c \in BuiltStep /\ ~c.writes
  BY <1>1, LevelHere
<1>3. ~Assemble(r) /\ ~Suspend(r) /\ ~CreateTicket(r) /\ ~WritePart(r) /\ ~Export(r) /\ ~EnterLoop(r)
  BY <1>2 DEF Assemble, Suspend, CreateTicket, WritePart, Export, EnterLoop, AtStep
<1>4. ~EndParallel(r) /\ ~Merge(r)
  BY <1>2 DEF EndParallel, Merge
<1>5. ~Approve(r) /\ ~Reject(r)
  BY <1>2 DEF Approve, Reject, RunInv, Placed
<1>6. ~EndRound(r)
  <2>1. Len(Current(r)) \in Nat /\ at[r].level \in Nat
    BY LevelHere
  <2> QED
    BY <1>1, <2>1 DEF EndRound
<1>7. EndStep(r)
  BY <1>3, <1>4, <1>5, <1>6 DEF Step
<1>8. PICK v \in Outcomes(r, c) : ~Stops(c, v) /\ Advance(r, Extended(ctx[r], c, v))
  BY <1>1, <1>2, <1>7 DEF EndStep
<1>9. tree' = tree
  BY <1>2, <1>7 DEF EndStep, Touches
<1>10. v \in Values /\ v.seen = tree /\ v.good
  BY <1>2, <1>8, OutcomeFacts DEF RunInv, Stops
<1>11. ctx'[r] = Extended(ctx[r], c, v)
  BY <1>8 DEF Advance, RunInv, TypeOK
<1>12. /\ Extended(ctx[r], c, v)[c.id] = v /\ c.id \in DOMAIN Extended(ctx[r], c, v)
  <2>1. IsContext(ctx[r]) /\ Works(c) /\ c.kind # "llm" /\ c.kind \notin Silent
    BY DEF RunInv, TypeOK, Works, Silent
  <2>2. Extends(ctx[r], Extended(ctx[r], c, v), {c}) /\ Extended(ctx[r], c, v)[c.id] = v
    BY <1>2, <1>10, <2>1, ExtendedFacts
  <2> QED
    BY <2>1, <2>2 DEF Extends
<1> QED
  BY <1>9, <1>10, <1>11, <1>12 DEF Passing

LEMMA StepChecked ==
  ASSUME RunInv, NEW r \in Run, Checked(r), Step(r)
  PROVE  Checked(r)'
<1>1. /\ Moves(r) /\ plan' = plan /\ at[r].level \in Nat \ {0} /\ BuiltWorkflow(Current(r))
      /\ at[r] \in Position /\ Going(r)
  BY LevelHere, StepMoves, StepIsGoing DEF RunInv, TypeOK, Moves
<1> SUFFICES ASSUME Going(r)', NEW m \in 1 .. at'[r].level - 1, NEW c \in ToSet(Current(r)'[m]),
                    c.kind = "check", c.required, Quiet(r, m, c)'
             PROVE  Passing(r, c)'
  BY DEF Checked
<1>2. CASE Rests(r)
  <2>1. Current(r)' = Current(r) /\ Level(r)' = Level(r) /\ at'[r] = at[r] /\ ctx'[r] = ctx[r]
    BY <1>1, <1>2 DEF Rests, Current, Level
  <2>2. ~Fails(r)
    BY DEF Going, Fails, RunInv, TypeOK
  <2>3. \A x : ~Advance(r, x)
    <3>1. ASSUME NEW x, Advance(r, x) PROVE FALSE
      <4>1. at'[r] = [at[r] EXCEPT !.level = @ + 1]
        BY <3>1 DEF Advance, RunInv, TypeOK
      <4>2. at'[r].level = at[r].level + 1
        BY <1>1, <4>1 DEF Position
      <4> QED
        BY <1>1, <2>1, <4>2
    <3> QED
      BY <3>1
  <2>4. ~EndStep(r) /\ ~Merge(r)
    BY <2>2, <2>3 DEF EndStep, Merge
  <2>5. ~EndParallel(r) => part' = part
    BY <2>4 DEF Step, Assemble, Suspend, Approve, Reject, CreateTicket, WritePart, Export,
       EnterLoop, EndRound
  <2>6. EndParallel(r) => DOMAIN part'[r] # {}
    <3>1. ASSUME NEW s, NEW end, part' = [part EXCEPT ![r] = Set(@, s.id, end)]
          PROVE  DOMAIN part'[r] # {}
      <4>1. part'[r] = Set(part[r], s.id, end)
        BY <3>1 DEF RunInv, TypeOK
      <4> QED
        BY <4>1 DEF Set
    <3> QED
      BY <3>1 DEF EndParallel
  <2>7. tree' = tree
    BY <2>1, <2>4, <2>6, TreeMoves DEF Quiet
  <2>8. Quiet(r, m, c)
    BY <2>1, <2>5, <2>6 DEF Quiet
  <2>9. Passing(r, c)
    BY <1>1, <2>1, <2>8 DEF Checked
  <2> QED
    BY <2>1, <2>7, <2>9 DEF Passing
<1>3. CASE Passes(r)
  <2>1. /\ Current(r)' = Current(r) /\ at'[r].level = at[r].level + 1
        /\ Extends(ctx[r], ctx'[r], ToSet(Level(r)))
    BY <1>1, <1>3, PassesOn DEF Passes, Current
  <2>2. CASE m < at[r].level
    <3>1. m \in 1 .. at[r].level - 1 /\ at[r].level \in m + 1 .. at'[r].level - 1
      BY <1>1, <2>1, <2>2
    <3>2. \A w \in ToSet(Level(r)) : ~w.writes /\ c.id \notin Written(w)
      BY <2>1, <3>1 DEF Quiet, Level
    <3>3. tree' = tree
      BY <3>2, TreeMoves
    <3>4. \A j \in m + 1 .. at[r].level - 1 : j \in m + 1 .. at'[r].level - 1
      BY <1>1, <2>1
    <3>5. Quiet(r, m, c)
      BY <2>1, <3>2, <3>4 DEF Quiet
    <3>6. Passing(r, c)
      BY <1>1, <2>1, <3>1, <3>5 DEF Checked
    <3>7. c.id \in DOMAIN ctx'[r] /\ ctx'[r][c.id] = ctx[r][c.id]
      BY <2>1, <3>2, <3>6 DEF Extends, Passing
    <3> QED
      BY <3>3, <3>6, <3>7 DEF Passing
  <2>3. CASE m = at[r].level
    BY <1>3, <2>1, <2>3, PassesCheck DEF Level
  <2> QED
    BY <1>1, <2>1, <2>2, <2>3
<1>4. CASE Begins(r)
  BY <1>4 DEF Begins
<1>5. CASE Repeats(r)
  BY <1>1, <1>5 DEF Repeats, Position
<1>6. CASE Leaves(r)
  <2>1. at'[r].body = <<>> /\ at'[r].level = at[r].outer + 1 /\ at[r].body # <<>>
    BY <1>6 DEF Leaves
  <2>2. /\ at[r].outer \in DOMAIN plan[r][<<>>] /\ BuiltWorkflow(plan[r][<<>>])
        /\ ToSet(plan[r][<<>>][at[r].outer]) = {LoopStep(r)} /\ LoopStep(r).kind = "loop"
    BY <2>1, LoopFacts
  <2>3. at[r].outer \in Nat \ {0}
    <3>1. DOMAIN plan[r][<<>>] = 1 .. Len(plan[r][<<>>])
      BY <2>2, BuiltNotEmpty
    <3> QED
      BY <2>2, <3>1
  <2>4. Current(r)' = plan[r][<<>>] /\ at'[r].level - 1 = at[r].outer
    BY <1>1, <2>1, <2>3 DEF Current
  <2>5. m # at[r].outer
    BY <2>2, <2>4
  <2>6. at[r].outer \in m + 1 .. at'[r].level - 1
    BY <2>3, <2>4, <2>5
  <2> QED
    BY <2>2, <2>4, <2>6 DEF Quiet
<1> QED
  BY <1>1, <1>2, <1>3, <1>4, <1>5, <1>6 DEF Moves

(* A step of another run leaves a run that counts on a check its tree.     *)
LEMMA BesideChecked ==
  ASSUME RunInv, ReadersBeside(Plans), NEW r \in Run, Step(r), NEW q \in Run \ {r}, Checked(q)
  PROVE  Checked(q)'
<1>1. plan' = plan /\ Others(r)
  BY StepMoves DEF Moves
<1>2. /\ at'[q] = at[q] /\ ctx'[q] = ctx[q] /\ part'[q] = part[q] /\ status'[q] = status[q]
      /\ Current(q)' = Current(q) /\ Level(q)' = Level(q)
  BY <1>1 DEF Others, Current, Level
<1>3. CASE tree' = tree
  BY <1>2, <1>3 DEF Checked, Going, Quiet, Passing
<1>4. CASE tree' # tree
  <2>1. PICK w \in ToSet(Level(r)) : w.writes /\ at[r].level <= Len(Current(r))
    BY <1>4, TreeMoves
  <2>2. HasWriter(plan[r])
    <3>1. /\ BuiltWorkflow(Current(r)) /\ at[r].level \in DOMAIN Current(r)
          /\ at[r].body \in DOMAIN plan[r]
      BY <2>1, LevelHere DEF RunInv, Placed
    <3>2. w \in StepsOf(Current(r))
      BY <3>1, InPassed DEF StepsOf, Level
    <3> QED
      BY <2>1, <3>1, <3>2 DEF HasWriter, Current
  <2>3. ~HasCheck(plan[q])
    BY <2>2 DEF ReadersBeside, RunInv, Planned, StartedOn
  <2>4. ASSUME NEW m \in 1 .. at[q].level - 1, NEW c \in ToSet(Current(q)[m]),
               c.kind = "check", c.required
        PROVE  FALSE
    <3>1. /\ BuiltWorkflow(Current(q)) /\ at[q].level \in 1 .. Len(Current(q)) + 1
          /\ at[q].body \in DOMAIN plan[q]
      BY LevelHere DEF RunInv, Placed
    <3>2. m \in DOMAIN Current(q)
      BY <3>1, BuiltNotEmpty
    <3>3. c \in StepsOf(Current(q))
      BY <3>1, <3>2, InPassed DEF StepsOf
    <3> QED
      BY <2>3, <2>4, <3>1, <3>3 DEF HasCheck, Current
  <2> QED
    BY <1>2, <2>4 DEF Checked
<1> QED
  BY <1>3, <1>4

LEMMA CheckedHolds ==
  ASSUME RunInv, NEW r \in Run, Checked(r), ReadsBetween(plan[r]), AtWork(r),
         NEW s \in ToSet(Level(r)), NEW c \in StepsOf(Current(r)),
         c.kind = "check", c.required, c.id \in s.visible,
         ~WritesBetween(StepsOf(Current(r)), c, s)
  PROVE  ctx[r][c.id].good /\ ctx[r][c.id].seen = tree
<1> DEFINE k == at[r].body
           n == at[r].level
<1>1. /\ BuiltWorkflow(Current(r)) /\ n \in DOMAIN Current(r) /\ k \in DOMAIN plan[r]
      /\ s \in ToSet(plan[r][k][n]) /\ n \in Nat \ {0}
  BY LevelHere DEF AtWork, RunInv, Placed, Current, Level
<1>2. PICK o \in DOMAIN plan[r][k] : c \in ToSet(plan[r][k][o])
  <2>1. 1 .. (Len(Current(r)) + 1) - 1 = DOMAIN Current(r)
    BY <1>1, BuiltNotEmpty
  <2> QED
    BY <2>1 DEF StepsOf, Passed, Current
<1>3. c.id \notin InputsOf(plan[r][k])
  BY <1>1, <1>2 DEF ReadsBetween
<1>4. PICK t \in Passed(Current(r), n) : t.id = c.id
  <2>1. s.visible \subseteq InputsOf(Current(r)) \cup {t.id : t \in Passed(Current(r), n)}
    BY <1>1 DEF BuiltWorkflow, Current
  <2>2. c.id \notin InputsOf(Current(r))
    BY <1>3 DEF Current
  <2> QED
    BY <2>1, <2>2
<1>5. PICK m \in 1 .. n - 1 : t \in ToSet(Current(r)[m])
  BY <1>4 DEF Passed
<1>6. m \in DOMAIN Current(r) /\ m \in DOMAIN plan[r][k]
  BY <1>1, <1>5, BuiltNotEmpty DEF Current
<1>7. t = c
  BY <1>1, <1>2, <1>4, <1>5, <1>6 DEF BuiltWorkflow, Current
<1>8. /\ \A j \in m + 1 .. n - 1 : \A w \in ToSet(plan[r][k][j]) :
           ~w.writes /\ w.kind # "loop" /\ c.id \notin Written(w)
      /\ Len(plan[r][k][n]) > 1 => \A w \in ToSet(plan[r][k][n]) : ~w.writes
  BY <1>1, <1>5, <1>6, <1>7 DEF ReadsBetween, Current
<1>9. DOMAIN part[r] # {} => Len(plan[r][k][n]) > 1
  <2>1. DOMAIN part[r] # {} => Len(Level(r)) # 1
    BY DEF RunInv, PartOK, Alone
  <2>2. Len(Level(r)) \in Nat \ {0}
    BY <1>1, LevelFacts DEF Level
  <2>3. Level(r) = plan[r][k][n]
    BY DEF Level, Current
  <2> DEFINE size == Len(Level(r))
  <2>4. size \in Nat \ {0} /\ (DOMAIN part[r] # {} => size # 1)
    BY <2>1, <2>2
  <2> HIDE DEF size
  <2>5. DOMAIN part[r] # {} => size > 1
    BY <2>4
  <2> QED
    BY <2>3, <2>5 DEF size
<1>10. Quiet(r, m, c)
  BY <1>8, <1>9 DEF Quiet, Current, Level
<1>11. Passing(r, c)
  BY <1>5, <1>7, <1>10 DEF Checked, Going, AtWork
<1> QED
  BY <1>11 DEF Passing

(* A step after a required check, with no writing step in between, runs on *)
(* the very tree the check has passed on: in every loaded workflow that    *)
(* has nothing writing beside what depends on the check, and beside runs   *)
(* that only read.                                                         *)
THEOREM ChecksHold ==
  ASSUME \A r \in Run : \A p \in StartedOn(r) : ReadsBetween(p),
         ReadersBeside(Plans)
  PROVE  Spec => []NothingOnBrokenTree
<1> DEFINE Inv == \A r \in Run : Checked(r)
<1>1. Init => RunInv /\ Inv
  <2> SUFFICES ASSUME Init PROVE RunInv /\ Inv
    OBVIOUS
  <2>1. \A r \in Run : at[r].level = 1
    BY DEF Init
  <2>2. 1 .. 1 - 1 = {}
    OBVIOUS
  <2> QED
    BY <2>1, <2>2, RunInvStart DEF Checked
<1>2. RunInv /\ Inv /\ [Next]_vars => RunInv' /\ Inv'
  <2> SUFFICES ASSUME RunInv, Inv, [Next]_vars PROVE RunInv' /\ Inv'
    OBVIOUS
  <2>1. RunInv'
    BY RunInvStep
  <2>2. CASE UNCHANGED vars
    BY <2>1, <2>2 DEF vars, Checked, Going, Quiet, Passing, Current, Level
  <2>3. CASE Next
    <3>1. PICK r \in Run : Step(r)
      BY <2>3 DEF Next, Step
    <3>2. Checked(r)'
      BY <3>1, StepChecked
    <3>3. \A q \in Run \ {r} : Checked(q)'
      BY <3>1, BesideChecked
    <3> QED
      BY <2>1, <3>2, <3>3
  <2> QED
    BY <2>2, <2>3
<1>3. RunInv /\ Inv => NothingOnBrokenTree
  <2> SUFFICES ASSUME RunInv, Inv PROVE NothingOnBrokenTree
    OBVIOUS
  <2>1. \A r \in Run : ReadsBetween(plan[r])
    BY DEF RunInv, Planned
  <2> QED
    BY <2>1, CheckedHolds DEF NothingOnBrokenTree
<1> HIDE DEF Inv
<1> QED
  BY <1>1, <1>2, <1>3, PTL DEF Spec
=============================================================================
