------------------------- MODULE SubmittedPlanProofs -------------------------
(***************************************************************************)
(* For every set of plans and deployments: the verdict on a plan is exact, *)
(* the cycle a plan is refused for is one, no check made at submission     *)
(* fails again in the run, and what a task is dispatched with is what was  *)
(* frozen at submission, however often it is replayed.                     *)
(***************************************************************************)
EXTENDS SubmittedPlan, WellFoundedInduction, FiniteSetTheorems, SequenceTheorems, TLAPS

-----------------------------------------------------------------------------
(* Dependency graphs. *)

\* A nonempty set of numbers has a least element.
LEMMA LeastNumber ==
    ASSUME NEW S \in SUBSET Nat, S # {}
    PROVE  \E n \in S : \A m \in S : ~(m < n)
<1> DEFINE Below == {0 .. n - 1 : n \in S}
<1>1. Below \subseteq FiniteSubsetsOf(Nat) /\ Below # {}
  <2>1. ASSUME NEW n \in S PROVE 0 .. n - 1 \in FiniteSubsetsOf(Nat)
    <3>1. IsFiniteSet(0 .. n - 1)
      BY FS_Interval
    <3> QED BY <3>1 DEF FiniteSubsetsOf
  <2> QED BY <2>1
<1>2. PICK X \in Below : \A Y \in Below : <<Y, X>> \notin StrictSubsetOrdering(Nat)
  <2> HIDE DEF Below
  <2> QED BY <1>1, WFMin, FS_StrictSubsetOrderingWellFounded
<1>3. PICK n \in S : X = 0 .. n - 1
  BY <1>2
<1>4. ASSUME NEW m \in S, m < n PROVE FALSE
  <2>1. 0 .. m - 1 \subseteq 0 .. n - 1 /\ m \in 0 .. n - 1 /\ m \notin 0 .. m - 1
    BY <1>4
  <2>2. <<0 .. m - 1, X>> \in StrictSubsetOrdering(Nat)
    BY <1>3, <2>1 DEF StrictSubsetOrdering
  <2> QED BY <1>2, <2>2
<1> QED BY <1>4

\* Nothing in S depends in a circle: each part of it has a task that depends on none
\* of that part.
Grounded(S) == \A T \in SUBSET S : T # {} => \E x \in T : Deps(x) \cap T = {}
Closed(S) == \A x \in S : Deps(x) \subseteq S

\* A task whose dependencies are all there may join a closed set without circles.
LEMMA GroundedGrows ==
    ASSUME NEW B, Grounded(B), Closed(B), NEW x, x \notin B, Deps(x) \subseteq B
    PROVE  Grounded(B \cup {x}) /\ Closed(B \cup {x})
<1>1. Closed(B \cup {x})
  BY DEF Closed
<1>2. ASSUME NEW T \in SUBSET (B \cup {x}), T # {} PROVE \E y \in T : Deps(y) \cap T = {}
  <2>1. CASE T \cap B = {}
    BY <1>2, <2>1
  <2>2. CASE T \cap B # {}
    <3>1. PICK y \in T \cap B : Deps(y) \cap (T \cap B) = {}
      BY <2>2 DEF Grounded
    <3>2. Deps(y) \subseteq B
      BY <3>1 DEF Closed
    <3> QED BY <3>1, <3>2
  <2> QED BY <2>1, <2>2
<1> QED BY <1>1, <1>2 DEF Grounded

\* To reach a task is to depend on it, directly or through a dependency.
LEMMA ReachesDirectly ==
    ASSUME NEW x, NEW y \in Deps(x) PROVE Reaches(x, y)
  BY DEF Reaches

LEMMA ReachesFurther ==
    ASSUME NEW x, NEW y, Reaches(x, y), NEW z \in Deps(y) PROVE Reaches(x, z)
  BY DEF Reaches

LEMMA ReachesThrough ==
    ASSUME NEW x, NEW z \in Deps(x), NEW y, Reaches(z, y) PROVE Reaches(x, y)
  BY DEF Reaches

\* What a task reaches is among its dependencies or reached from one of them.
LEMMA ReachesOnlyThrough ==
    ASSUME Closed(Ids(plan)), NEW x \in Ids(plan), NEW y, Reaches(x, y)
    PROVE  y \in Ids(plan) /\ (y \in Deps(x) \/ \E d \in Deps(x) : Reaches(d, y))
<1> DEFINE S == Deps(x) \cup {z \in Ids(plan) : \E d \in Deps(x) : Reaches(d, z)}
<1>1. S \in SUBSET Ids(plan) /\ Deps(x) \subseteq S
  BY DEF Closed
<1>2. ASSUME NEW z \in S PROVE Deps(z) \subseteq S
  <2>1. Deps(z) \subseteq Ids(plan)
    BY <1>1 DEF Closed
  <2>2. CASE z \in Deps(x)
    BY <2>1, <2>2, ReachesDirectly
  <2>3. CASE \E d \in Deps(x) : Reaches(d, z)
    BY <2>1, <2>3, ReachesFurther
  <2> QED BY <2>2, <2>3
<1> HIDE DEF S
<1>3. y \in S
  BY <1>1, <1>2 DEF Reaches
<1> QED BY <1>1, <1>3 DEF S

\* Without circles no task reaches itself.
LEMMA GroundedIsAcyclic ==
    ASSUME Closed(Ids(plan)), Grounded(Ids(plan)), NEW x \in Ids(plan)
    PROVE  ~Reaches(x, x)
<1> SUFFICES ASSUME Reaches(x, x) PROVE FALSE
  OBVIOUS
<1> DEFINE T == {z \in Ids(plan) : Reaches(x, z) /\ Reaches(z, x)}
<1>1. PICK z \in T : Deps(z) \cap T = {}
  BY DEF Grounded
<1>2. PICK d \in Deps(z) : d = x \/ Reaches(d, x)
  BY <1>1, ReachesOnlyThrough
<1>3. d \in Ids(plan) /\ Reaches(x, d)
  BY <1>1, <1>2, ReachesFurther DEF Closed
<1> QED BY <1>1, <1>2, <1>3

\* The closure the validator computes is what each task reaches: in a plan without
\* circles its equation has one solution.
LEMMA UpstreamIsReach ==
    ASSUME Closed(Ids(plan)), Grounded(Ids(plan)), NEW x \in Ids(plan)
    PROVE  Upstream(plan)[x] = {y \in Ids(plan) : Reaches(x, y)}
<1> DEFINE D(z) == Range(TaskOf(plan, z).deps)
           Solves(f) == f = [z \in Ids(plan) |-> D(z) \cup UNION {f[d] : d \in D(z)}]
           reach == [z \in Ids(plan) |-> {y \in Ids(plan) : Reaches(z, y)}]
           up == Upstream(plan)
<1>1. \A z : D(z) = Deps(z)
  BY DEF Deps
<1> HIDE DEF D
<1>2. Solves(reach)
  <2>1. ASSUME NEW z \in Ids(plan)
        PROVE  reach[z] = D(z) \cup UNION {reach[d] : d \in D(z)}
    <3>1. D(z) \subseteq Ids(plan)
      BY <1>1 DEF Closed
    <3>2. ASSUME NEW y \in reach[z] PROVE y \in D(z) \cup UNION {reach[d] : d \in D(z)}
      BY <1>1, <3>1, <3>2, ReachesOnlyThrough
    <3>3. ASSUME NEW y \in D(z) PROVE y \in reach[z]
      BY <1>1, <3>1, ReachesDirectly
    <3>4. ASSUME NEW d \in D(z), NEW y \in reach[d] PROVE y \in reach[z]
      BY <1>1, <3>1, <3>4, ReachesThrough
    <3> QED BY <3>2, <3>3, <3>4
  <2> HIDE DEF reach
  <2>2. reach = [z \in Ids(plan) |-> reach[z]]
    BY DEF reach
  <2> QED BY <2>1, <2>2
<1>3. Solves(up)
  <2>1. up = CHOOSE f : Solves(f)
    BY DEF Upstream, D
  <2> HIDE DEF Solves, up, reach
  <2> QED BY <1>2, <2>1
<1>4. up = reach
  <2> DEFINE Differ == {z \in Ids(plan) : up[z] # reach[z]}
  <2>1. ASSUME NEW z \in Differ, Deps(z) \cap Differ = {} PROVE FALSE
    <3>1. \A d \in D(z) : up[d] = reach[d]
      BY <1>1, <2>1 DEF Closed
    <3>2. /\ up[z] = D(z) \cup UNION {up[d] : d \in D(z)}
          /\ reach[z] = D(z) \cup UNION {reach[d] : d \in D(z)}
      <4> HIDE DEF up, reach
      <4> QED BY <1>2, <1>3
    <3> HIDE DEF up, reach
    <3> QED BY <2>1, <3>1, <3>2
  <2>2. Differ = {}
    BY <2>1 DEF Grounded
  <2> HIDE DEF up, reach
  <2> QED BY <1>2, <1>3, <2>2
<1> HIDE DEF up
<1> QED BY <1>4 DEF up

-----------------------------------------------------------------------------
(* The cycle search. *)

\* What the checks before the search have shown, and what follows for TaskOf.
UniqueIds == \A i, j \in DOMAIN plan : plan[i].id = plan[j].id => i = j
DepsKnown == \A t \in Range(plan) : DepsFit(plan, t)
Kids(x) == TaskOf(plan, x).deps

LEMMA PlanTyped ==
    ASSUME plan \in Plans
    PROVE  /\ plan \in Seq(Range(plan))
           /\ \A t \in Range(plan) : /\ t.id \in Ids(plan) /\ t.deps \in Seq(Range(t.deps))
                                     /\ t.wait \in Int \cup {NONE}
                                     /\ "execution" \in t.fields \/ t.policy = NONE
  BY PlansAssumption DEF Ids, Range

LEMMA TaskFound ==
    ASSUME NEW x \in Ids(plan)
    PROVE  TaskOf(plan, x) \in Range(plan) /\ TaskOf(plan, x).id = x
<1>1. \E t \in Range(plan) : t.id = x
  BY DEF Ids, Range
<1> QED BY <1>1 DEF TaskOf

LEMMA KidsTyped ==
    ASSUME plan \in Plans, DepsKnown, NEW x \in Ids(plan)
    PROVE  Kids(x) \in Seq(Ids(plan)) /\ Deps(x) = Range(Kids(x)) /\ Deps(x) \subseteq Ids(plan)
<1>1. Kids(x) \in Seq(Range(Kids(x)))
  BY TaskFound, PlanTyped DEF Kids
<1>2. Range(Kids(x)) \subseteq Ids(plan)
  BY TaskFound DEF Kids, DepsKnown, DepsFit
<1>3. Deps(x) = Range(Kids(x))
  BY DEF Deps, Kids
<1>4. Kids(x) \in Seq(Ids(plan))
  BY <1>1, <1>2
<1> QED BY <1>2, <1>3, <1>4

\* The front of a sequence that is not empty.
LEMMA FrontTyped ==
    ASSUME NEW S, NEW s \in Seq(S), Len(s) \in Nat \ {0}
    PROVE  /\ Front(s) \in Seq(S) /\ Len(Front(s)) = Len(s) - 1
           /\ \A i \in 1 .. Len(s) - 1 : Front(s)[i] = s[i]
<1>1. Front(s) = SubSeq(s, 1, Len(s) - 1)
  BY DEF Front
<1>2. 1 \in 1 .. Len(s) + 1 /\ Len(s) - 1 \in 0 .. Len(s)
  OBVIOUS
<1> DEFINE f == SubSeq(s, 1, Len(s) - 1)
<1>3. /\ f \in Seq(S)
      /\ Len(f) = IF 1 <= Len(s) - 1 THEN Len(s) - 1 - 1 + 1 ELSE 0
      /\ \A i \in 1 .. Len(s) - 1 - 1 + 1 : f[i] = s[1 + i - 1]
  BY <1>2, SubSeqProperties
<1> HIDE DEF f
<1>4. Len(f) = Len(s) - 1
  <2>1. Len(s) = 1 \/ 1 <= Len(s) - 1
    <3>1. \A n \in Nat : n # 0 => n = 1 \/ 1 <= n - 1
      OBVIOUS
    <3> QED BY <3>1
  <2>2. Len(s) - 1 - 1 + 1 = Len(s) - 1 /\ (Len(s) = 1 => Len(s) - 1 = 0)
    OBVIOUS
  <2>3. Len(f) = IF 1 <= Len(s) - 1 THEN Len(s) - 1 ELSE 0
    BY <1>3, <2>2
  <2> QED BY <2>1, <2>2, <2>3
<1>5. ASSUME NEW i \in 1 .. Len(s) - 1 PROVE f[i] = s[i]
  <2>1. i \in 1 .. Len(s) - 1 - 1 + 1 /\ 1 + i - 1 = i
    BY <1>2
  <2> QED BY <1>3, <2>1 DEF f
<1> QED BY <1>1, <1>3, <1>4, <1>5 DEF f

Black == {x \in Ids(plan) : color[x] = "black"}
Entering == stack # <<>> /\ Next_ = 0

\* The colors and the stacks.
Entry == [node : Ids(plan), next : Nat]
SearchTyped ==
    /\ color \in [Ids(plan) -> {"white", "gray", "black"}]
    /\ stack \in Seq(Entry)
    /\ path \in Seq(Ids(plan))

\* The path holds the gray tasks, one for each entry of the stack that was entered;
\* what is about to be entered is not black.
PathInv ==
    /\ Len(stack) = Len(path) + (IF Entering THEN 1 ELSE 0)
    /\ \A i \in 1 .. Len(path) : stack[i].node = path[i] /\ stack[i].next > 0
    /\ \A i, j \in 1 .. Len(path) : path[i] = path[j] => i = j
    /\ \A x \in Ids(plan) : color[x] = "gray" <=> \E i \in 1 .. Len(path) : path[i] = x
    /\ Entering => color[Node] # "black"

\* The dependencies an entry has passed are black, but for the one the search is in.
KidsOf(i) ==
    /\ stack[i].next <= Len(Kids(stack[i].node))
    /\ \A k \in 1 .. stack[i].next :
           color[Kids(stack[i].node)[k]] = "black" \/ (k = stack[i].next /\ i < Len(stack))
    /\ i < Len(stack) => /\ stack[i].next > 0
                         /\ Kids(stack[i].node)[stack[i].next] = stack[i + 1].node
KidsInv == \A i \in 1 .. Len(stack) : KidsOf(i)

\* The parent of a node is below it on the stack, unless the search comes back to it.
ParentOf(i) ==
    /\ stack[i + 1].node \in DOMAIN parent
    /\ \/ parent[stack[i + 1].node] = stack[i].node
       \/ Entering /\ stack[i + 1].node = Node /\ i + 1 < Len(stack)
ParentInv == \A i \in 1 .. Len(stack) - 1 : ParentOf(i)

\* What is black depends on black tasks only, and on none in a circle.
BlackInv == Grounded(Black) /\ Closed(Black)

SearchInv == SearchTyped /\ PathInv /\ KidsInv /\ ParentInv /\ BlackInv

\* The state once the node on top has been entered, where lines 890 to 909 go on.
ColorIn == IF Next_ = 0 THEN [color EXCEPT ![Node] = "gray"] ELSE color
PathIn == IF Next_ = 0 THEN Append(path, Node) ELSE path

Entered ==
    /\ ColorIn \in [Ids(plan) -> {"white", "gray", "black"}]
    /\ PathIn \in Seq(Ids(plan)) /\ Len(PathIn) = Len(stack)
    /\ \A i \in 1 .. Len(PathIn) : stack[i].node = PathIn[i]
    /\ \A i, j \in 1 .. Len(PathIn) : PathIn[i] = PathIn[j] => i = j
    /\ \A x \in Ids(plan) : ColorIn[x] = "gray" <=> \E i \in 1 .. Len(PathIn) : PathIn[i] = x
    /\ \A x \in Ids(plan) : ColorIn[x] = "black" <=> color[x] = "black"

LEMMA StackTyped ==
    ASSUME SearchTyped
    PROVE  /\ stack # <<>> => Len(stack) \in 1 .. Len(stack)
           /\ Len(stack) \in Nat /\ Len(path) \in Nat
           /\ \A i \in 1 .. Len(stack) : stack[i].node \in Ids(plan) /\ stack[i].next \in Nat
           /\ \A i \in 1 .. Len(path) : path[i] \in Ids(plan)
<1>1. \A i \in 1 .. Len(stack) : stack[i] \in Entry
  BY DEF SearchTyped
<1>2. stack # <<>> => Len(stack) \in 1 .. Len(stack)
  BY DEF SearchTyped
<1>3. Len(stack) \in Nat /\ Len(path) \in Nat /\ \A i \in 1 .. Len(path) : path[i] \in Ids(plan)
  BY DEF SearchTyped
<1> QED BY <1>1, <1>2, <1>3 DEF Entry

LEMMA TopOfStack ==
    ASSUME SearchTyped, stack # <<>>
    PROVE  /\ Len(stack) \in Nat \ {0} /\ Node = stack[Len(stack)].node /\ Node \in Ids(plan)
           /\ Next_ = stack[Len(stack)].next /\ Next_ \in Nat
  BY StackTyped DEF Node, Next_, Last

LEMMA EnterNode ==
    ASSUME SearchInv, stack # <<>>, Next_ > 0 \/ color[Node] = "white"
    PROVE  Entered
<1>1. /\ Len(stack) \in Nat \ {0} /\ Node = stack[Len(stack)].node /\ Node \in Ids(plan)
      /\ Next_ = stack[Len(stack)].next /\ Next_ \in Nat
  BY TopOfStack DEF SearchInv
<1>2. CASE Next_ = 0
  <2>1. /\ color[Node] = "white" /\ Len(stack) = Len(path) + 1 /\ Len(path) \in Nat
        /\ ColorIn = [color EXCEPT ![Node] = "gray"] /\ PathIn = Append(path, Node)
    BY <1>1, <1>2 DEF SearchInv, SearchTyped, PathInv, Entering, ColorIn, PathIn
  <2>2. /\ PathIn \in Seq(Ids(plan)) /\ Len(PathIn) = Len(stack) /\ PathIn[Len(stack)] = Node
        /\ \A i \in 1 .. Len(path) : PathIn[i] = path[i]
    BY <1>1, <2>1 DEF SearchInv, SearchTyped
  <2>3. \A i \in 1 .. Len(path) : path[i] # Node
    BY <1>1, <2>1 DEF SearchInv, PathInv
  <2>4. \A i \in 1 .. Len(PathIn) : stack[i].node = PathIn[i]
    BY <1>1, <2>1, <2>2 DEF SearchInv, PathInv
  <2>5. \A i, j \in 1 .. Len(PathIn) : PathIn[i] = PathIn[j] => i = j
    BY <2>1, <2>2, <2>3 DEF SearchInv, PathInv
  <2>6. ASSUME NEW x \in Ids(plan)
        PROVE  /\ ColorIn[x] = "gray" <=> \E i \in 1 .. Len(PathIn) : PathIn[i] = x
               /\ ColorIn[x] = "black" <=> color[x] = "black"
    BY <1>1, <2>1, <2>2 DEF SearchInv, SearchTyped, PathInv
  <2>7. ColorIn \in [Ids(plan) -> {"white", "gray", "black"}]
    BY <2>1 DEF SearchInv, SearchTyped
  <2> QED BY <2>2, <2>4, <2>5, <2>6, <2>7 DEF Entered
<1>3. CASE Next_ > 0
  <2>1. ~Entering /\ ColorIn = color /\ PathIn = path
    BY <1>3 DEF Entering, ColorIn, PathIn
  <2> QED BY <2>1 DEF SearchInv, SearchTyped, PathInv, Entered
<1> QED BY <1>1, <1>2, <1>3

\* Below a node that is entered or has been, every parent is in place.
LEMMA ParentsIntact ==
    ASSUME SearchInv, stack # <<>>, Next_ > 0 \/ color[Node] = "white",
           NEW i \in 1 .. Len(stack) - 1
    PROVE  stack[i + 1].node \in DOMAIN parent /\ parent[stack[i + 1].node] = stack[i].node
<1>1. Len(stack) \in Nat /\ Next_ \in Nat
  BY TopOfStack DEF SearchInv
<1>2. /\ stack[i + 1].node \in DOMAIN parent
      /\ \/ parent[stack[i + 1].node] = stack[i].node
         \/ Entering /\ stack[i + 1].node = Node /\ i + 1 < Len(stack)
  BY DEF SearchInv, ParentInv, ParentOf
<1>3. ASSUME Entering, stack[i + 1].node = Node, i + 1 < Len(stack) PROVE FALSE
  <2>1. color[Node] = "white" /\ Len(path) = Len(stack) - 1
    BY <1>1, <1>3 DEF SearchInv, SearchTyped, PathInv, Entering
  <2>2. color[Node] = "gray"
    BY <1>1, <1>3, <2>1, TopOfStack DEF SearchInv, PathInv
  <2> QED BY <2>1, <2>2
<1> QED BY <1>2, <1>3

\* The stack with the next dependency of its top taken.
Moved == [stack EXCEPT ![Len(stack)].next = Next_ + 1]

\* The stack with a node pushed on it after that, and the parents with its own.
Pushed(child) == Append(Moved, [node |-> child, next |-> 0])
ParentIn(child) ==
    [id \in DOMAIN parent \cup {child} |-> IF id = child THEN Node ELSE parent[id]]

LEMMA MovedStack ==
    ASSUME SearchTyped, stack # <<>>
    PROVE  /\ Moved \in Seq(Entry) /\ Len(Moved) = Len(stack)
           /\ \A i \in 1 .. Len(stack) : /\ Moved[i].node = stack[i].node
                                         /\ i < Len(stack) => Moved[i].next = stack[i].next
           /\ Moved[Len(stack)].next = Next_ + 1
<1> DEFINE top == [stack[Len(stack)] EXCEPT !.next = Next_ + 1]
<1>1. Len(stack) \in 1 .. Len(stack) /\ Next_ + 1 \in Nat
  BY StackTyped, TopOfStack
<1>2. stack[Len(stack)] \in Entry
  BY <1>1 DEF SearchTyped
<1>3. top \in Entry /\ top.node = stack[Len(stack)].node /\ top.next = Next_ + 1
  BY <1>1, <1>2 DEF Entry
<1>4. Moved = [stack EXCEPT ![Len(stack)] = top]
  BY <1>1 DEF Moved, SearchTyped
<1> HIDE DEF top
<1> QED BY <1>1, <1>3, <1>4 DEF SearchTyped

\* Passing over a black dependency.
LEMMA PassOver ==
    ASSUME SearchInv, stack # <<>>, Next_ > 0 \/ color[Node] = "white",
           Next_ < Len(Kids(Node)), color[Kids(Node)[Next_ + 1]] = "black",
           plan \in Plans, DepsKnown, plan' = plan, parent' = parent,
           color' = ColorIn, path' = PathIn, stack' = Moved
    PROVE  SearchInv'
<1>1. /\ Len(stack) \in Nat \ {0} /\ Node = stack[Len(stack)].node /\ Node \in Ids(plan)
      /\ Next_ = stack[Len(stack)].next /\ Next_ \in Nat
  BY TopOfStack DEF SearchInv
<1>2. Entered
  BY EnterNode
<1>3. /\ stack' \in Seq(Entry) /\ Len(stack') = Len(stack)
      /\ \A i \in 1 .. Len(stack) : /\ stack'[i].node = stack[i].node
                                    /\ i < Len(stack) => stack'[i].next = stack[i].next
      /\ stack'[Len(stack)].next = Next_ + 1
  BY MovedStack DEF SearchInv
<1>4. /\ Ids(plan)' = Ids(plan) /\ \A x : Kids(x)' = Kids(x) /\ Deps(x)' = Deps(x)
  BY DEF Ids, Kids, Deps, TaskOf
<1>5. stack' # <<>> /\ Next_' = Next_ + 1 /\ ~Entering'
  BY <1>1, <1>3 DEF Next_, Last, Entering
<1>6. SearchTyped'
  <2>1. Entry' = Entry
    BY <1>4 DEF Entry
  <2> QED BY <1>2, <1>3, <1>4, <2>1 DEF SearchTyped, Entered
<1>7. PathInv'
  <2>1. ASSUME NEW i \in 1 .. Len(stack) PROVE stack'[i].next > 0
    <3>1. KidsOf(i)
      BY DEF SearchInv, KidsInv
    <3>2. CASE i = Len(stack)
      BY <1>1, <1>3, <3>2
    <3>3. CASE i < Len(stack)
      BY <1>3, <3>1, <3>3 DEF KidsOf
    <3> QED BY <1>1, <3>2, <3>3
  <2>2. \A x \in Ids(plan) : color'[x] = "gray" <=> \E i \in 1 .. Len(path') : path'[i] = x
    BY <1>2 DEF Entered
  <2>3. /\ Len(path') = Len(stack)
        /\ \A i \in 1 .. Len(path') : stack'[i].node = path'[i] /\ stack'[i].next > 0
        /\ \A i, j \in 1 .. Len(path') : path'[i] = path'[j] => i = j
    BY <1>1, <1>2, <1>3, <2>1 DEF Entered
  <2>4. Len(stack') = Len(path') + 0
    BY <1>1, <1>3, <2>3
  <2> QED BY <1>4, <1>5, <2>2, <2>3, <2>4 DEF PathInv
<1>8. KidsInv'
  <2>1. \A x \in Ids(plan) : color'[x] = "black" <=> color[x] = "black"
    BY <1>2 DEF Entered
  <2>2. ASSUME NEW i \in 1 .. Len(stack) PROVE KidsOf(i)'
    <3>1. stack[i].node \in Ids(plan) /\ stack[i].next \in Nat
      BY StackTyped DEF SearchInv
    <3>2. Kids(stack[i].node) \in Seq(Ids(plan)) /\ Len(Kids(stack[i].node)) \in Nat
      BY <3>1, KidsTyped
    <3>3. KidsOf(i)
      BY DEF SearchInv, KidsInv
    <3>4. stack'[i].node = stack[i].node
      BY <1>3
    <3>5. CASE i < Len(stack)
      <4>1. i + 1 \in 1 .. Len(stack)
        BY <1>1, <3>5
      <4>2. stack'[i].next = stack[i].next /\ stack'[i + 1].node = stack[i + 1].node
        BY <1>3, <3>5, <4>1
      <4>3. \A k \in 1 .. stack[i].next :
                color'[Kids(stack[i].node)[k]] = "black" \/ k = stack[i].next
        BY <2>1, <3>1, <3>2, <3>3, <3>5 DEF KidsOf
      <4> QED BY <1>3, <3>3, <3>4, <3>5, <4>2, <4>3 DEF KidsOf, Kids
    <3>6. CASE i = Len(stack)
      <4>1. stack'[i].next = Next_ + 1 /\ stack[i].node = Node /\ stack[i].next = Next_
        BY <1>1, <1>3, <3>6
      <4>2. \A k \in 1 .. Next_ : color'[Kids(Node)[k]] = "black"
        BY <1>1, <2>1, <3>2, <3>3, <3>6, <4>1 DEF KidsOf
      <4>3. color'[Kids(Node)[Next_ + 1]] = "black"
        BY <1>1, <2>1, <3>2, <4>1
      <4>4. \A k \in 1 .. Next_ + 1 : color'[Kids(Node)[k]] = "black"
        BY <1>1, <4>2, <4>3
      <4> QED BY <1>1, <1>3, <3>2, <3>4, <3>6, <4>1, <4>4 DEF KidsOf, Kids
    <3> QED BY <1>1, <3>5, <3>6
  <2>3. KidsInv' <=> \A i \in 1 .. Len(stack) : KidsOf(i)'
    BY <1>3 DEF KidsInv
  <2> QED BY <2>2, <2>3
<1>9. ParentInv'
  BY <1>1, <1>3, ParentsIntact DEF ParentInv, ParentOf
<1>10. BlackInv'
  <2>1. Black' = Black
    BY <1>2, <1>4 DEF Black, Entered
  <2> QED BY <1>4, <2>1 DEF SearchInv, BlackInv, Grounded, Closed
<1> QED BY <1>6, <1>7, <1>8, <1>9, <1>10 DEF SearchInv

\* Following a dependency that is not black.
LEMMA Follow ==
    ASSUME SearchInv, stack # <<>>, Next_ > 0 \/ color[Node] = "white",
           plan \in Plans, DepsKnown, Next_ < Len(Kids(Node)),
           NEW child, child = Kids(Node)[Next_ + 1], color[child] # "black", plan' = plan,
           color' = ColorIn, path' = PathIn, stack' = Pushed(child),
           parent' = ParentIn(child)
    PROVE  SearchInv'
<1>1. /\ Len(stack) \in Nat \ {0} /\ Node = stack[Len(stack)].node /\ Node \in Ids(plan)
      /\ Next_ = stack[Len(stack)].next /\ Next_ \in Nat
  BY TopOfStack DEF SearchInv
<1>2. Entered
  BY EnterNode
<1>3. child \in Ids(plan) /\ [node |-> child, next |-> 0] \in Entry
  BY <1>1, KidsTyped DEF Entry
<1>4. /\ Moved \in Seq(Entry) /\ Len(Moved) = Len(stack)
      /\ \A i \in 1 .. Len(stack) : /\ Moved[i].node = stack[i].node
                                    /\ i < Len(stack) => Moved[i].next = stack[i].next
      /\ Moved[Len(stack)].next = Next_ + 1
  BY MovedStack DEF SearchInv
<1>5. /\ stack' \in Seq(Entry) /\ Len(stack') = Len(stack) + 1
      /\ \A i \in 1 .. Len(stack) : stack'[i] = Moved[i]
      /\ stack'[Len(stack) + 1] = [node |-> child, next |-> 0]
  BY <1>3, <1>4 DEF Pushed
<1>6. Len(stack') = Len(stack) + 1 /\ Len(stack) \in Nat \ {0}
  BY <1>1, <1>5
<1>7. /\ \A i \in 1 .. Len(stack) : /\ stack'[i].node = stack[i].node
                                    /\ i < Len(stack) => stack'[i].next = stack[i].next
      /\ stack'[Len(stack)].next = Next_ + 1
      /\ stack'[Len(stack) + 1].node = child /\ stack'[Len(stack) + 1].next = 0
  <2>1. ASSUME NEW i \in 1 .. Len(stack)
        PROVE  /\ stack'[i].node = stack[i].node
               /\ i < Len(stack) => stack'[i].next = stack[i].next
    BY <1>4, <1>5
  <2>2. stack'[Len(stack)].next = Next_ + 1
    <3>1. Len(stack) \in 1 .. Len(stack)
      BY <1>1
    <3> QED BY <1>4, <1>5, <3>1
  <2>3. stack'[Len(stack) + 1].node = child /\ stack'[Len(stack) + 1].next = 0
    BY <1>5
  <2> QED BY <2>1, <2>2, <2>3
<1>8. Ids(plan)' = Ids(plan) /\ \A x : Kids(x)' = Kids(x) /\ Deps(x)' = Deps(x)
  BY DEF Ids, Kids, Deps, TaskOf
<1>9. stack' # <<>> /\ Next_' = 0 /\ Node' = child /\ Entering'
  <2>1. stack' # <<>>
    BY <1>5, <1>6
  <2>2. Next_' = stack'[Len(stack')].next /\ Node' = stack'[Len(stack')].node
    BY <2>1 DEF Next_, Node, Last
  <2> QED BY <1>6, <1>7, <2>1, <2>2 DEF Entering
<1>10. SearchTyped'
  <2>1. Entry' = Entry
    BY <1>8 DEF Entry
  <2> QED BY <1>2, <1>5, <1>8, <2>1 DEF SearchTyped, Entered
<1>11. PathInv'
  <2>1. ASSUME NEW i \in 1 .. Len(stack) PROVE stack'[i].next > 0
    <3>1. KidsOf(i)
      BY DEF SearchInv, KidsInv
    <3>2. CASE i = Len(stack)
      <4>1. Next_ + 1 > 0
        BY <1>1
      <4> QED BY <1>7, <3>2, <4>1
    <3>3. CASE i < Len(stack)
      BY <1>7, <3>1, <3>3 DEF KidsOf
    <3> QED BY <1>1, <3>2, <3>3
  <2>2. \A x \in Ids(plan) : color'[x] = "gray" <=> \E i \in 1 .. Len(path') : path'[i] = x
    BY <1>2 DEF Entered
  <2>3. /\ Len(path') = Len(stack)
        /\ \A i \in 1 .. Len(path') : stack'[i].node = path'[i] /\ stack'[i].next > 0
        /\ \A i, j \in 1 .. Len(path') : path'[i] = path'[j] => i = j
    <3>1. /\ Len(path') = Len(stack)
          /\ \A i \in 1 .. Len(path') : stack[i].node = path'[i]
          /\ \A i, j \in 1 .. Len(path') : path'[i] = path'[j] => i = j
      BY <1>2 DEF Entered
    <3> QED BY <1>7, <2>1, <3>1
  <2>4. color'[child] # "black"
    BY <1>2, <1>3 DEF Entered
  <2> QED BY <1>5, <1>8, <1>9, <2>2, <2>3, <2>4 DEF PathInv
<1>12. KidsInv'
  <2>1. \A x \in Ids(plan) : color'[x] = "black" <=> color[x] = "black"
    BY <1>2 DEF Entered
  <2>2. ASSUME NEW i, i = Len(stack) + 1 PROVE KidsOf(i)'
    <3>1. stack'[i].next = 0 /\ stack'[i].node = child /\ ~(i < Len(stack'))
      <4>1. stack'[i].next = 0 /\ stack'[i].node = child
        BY <1>7, <2>2
      <4>2. Len(stack') = i /\ i \in Nat
        BY <1>6, <2>2
      <4> QED BY <4>1, <4>2
    <3>2. Len(Kids(child)) \in Nat
      BY <1>3, KidsTyped
    <3>3. stack'[i].next <= Len(Kids(child))
      BY <3>1, <3>2
    <3>4. 1 .. stack'[i].next = {}
      BY <3>1
    <3> QED BY <3>1, <3>3, <3>4 DEF KidsOf, Kids
  <2>3. ASSUME NEW i \in 1 .. Len(stack) PROVE KidsOf(i)'
    <3>1. stack[i].node \in Ids(plan) /\ stack[i].next \in Nat
      BY StackTyped DEF SearchInv
    <3>2. Kids(stack[i].node) \in Seq(Ids(plan)) /\ Len(Kids(stack[i].node)) \in Nat
      BY <3>1, KidsTyped
    <3>3. KidsOf(i)
      BY DEF SearchInv, KidsInv
    <3>4. /\ stack'[i].next <= Len(Kids(stack[i].node))
          /\ \A k \in 1 .. stack'[i].next :
                 color'[Kids(stack[i].node)[k]] = "black" \/ k = stack'[i].next
          /\ stack'[i].next > 0 /\ Kids(stack[i].node)[stack'[i].next] = stack'[i + 1].node
      <4>1. CASE i < Len(stack)
        <5>1. i + 1 \in 1 .. Len(stack)
          BY <1>1, <4>1
        <5>2. stack'[i].next = stack[i].next /\ stack'[i + 1].node = stack[i + 1].node
          BY <1>7, <4>1, <5>1
        <5> QED BY <2>1, <3>1, <3>2, <3>3, <4>1, <5>2 DEF KidsOf
      <4>2. CASE i = Len(stack)
        <5>1. stack'[i].next = Next_ + 1 /\ stack[i].node = Node /\ stack[i].next = Next_
          BY <1>1, <1>7, <4>2
        <5>2. \A k \in 1 .. Next_ : color'[Kids(Node)[k]] = "black"
          <6>1. \A k \in 1 .. Next_ : color[Kids(Node)[k]] = "black"
            BY <3>3, <4>2, <5>1 DEF KidsOf
          <6>2. \A k \in 1 .. Next_ : Kids(Node)[k] \in Ids(plan)
            <7>1. Kids(Node) \in Seq(Ids(plan)) /\ Len(Kids(Node)) \in Nat
              BY <3>2, <5>1
            <7>2. \A k \in 1 .. Next_ : k \in 1 .. Len(Kids(Node))
              BY <1>1, <7>1
            <7> QED BY <7>1, <7>2
          <6> QED BY <2>1, <6>1, <6>2
        <5>3. Kids(Node)[Next_ + 1] = stack'[i + 1].node
          BY <1>7, <4>2
        <5>4. stack'[i].next <= Len(Kids(stack[i].node)) /\ stack'[i].next > 0
          BY <1>1, <3>2, <5>1
        <5>5. \A k \in 1 .. Next_ + 1 : k \in 1 .. Next_ \/ k = Next_ + 1
          BY <1>1
        <5> QED BY <5>1, <5>2, <5>3, <5>4, <5>5
      <4>3. i < Len(stack) \/ i = Len(stack)
        BY <1>1
      <4> QED BY <4>1, <4>2, <4>3
    <3>5. stack'[i].node = stack[i].node /\ i < Len(stack')
      <4>1. i < Len(stack')
        BY <1>6
      <4> QED BY <1>7, <4>1
    <3> QED BY <3>4, <3>5 DEF KidsOf, Kids
  <2>4. ASSUME NEW i \in 1 .. Len(stack') PROVE KidsOf(i)'
    <3>1. i \in 1 .. Len(stack) \/ i = Len(stack) + 1
      BY <1>6
    <3> QED BY <2>2, <2>3, <3>1
  <2> QED BY <2>4 DEF KidsInv
<1>13. ParentInv'
  <2>1. ASSUME NEW i \in 1 .. Len(stack') - 1 PROVE ParentOf(i)'
    <3>1. i \in 1 .. Len(stack) /\ stack'[i].node = stack[i].node
      <4>1. i \in 1 .. Len(stack)
        BY <1>6
      <4> QED BY <1>7, <4>1
    <3>2. CASE i = Len(stack)
      <4>1. stack'[i + 1].node = child /\ stack'[i].node = Node
        BY <1>1, <1>7, <3>1, <3>2
      <4>2. child \in DOMAIN parent' /\ parent'[child] = Node
        BY DEF ParentIn
      <4> QED BY <4>1, <4>2 DEF ParentOf
    <3>3. CASE i < Len(stack)
      <4>1. i \in 1 .. Len(stack) - 1 /\ i + 1 \in 1 .. Len(stack)
        BY <1>1, <3>1, <3>3
      <4>2. stack'[i + 1].node = stack[i + 1].node
        BY <1>7, <4>1
      <4>3. stack[i + 1].node \in DOMAIN parent /\ parent[stack[i + 1].node] = stack[i].node
        BY <4>1, ParentsIntact
      <4>4. stack[i + 1].node = child => i + 1 < Len(stack')
        BY <1>6, <4>1
      <4>5. /\ parent' = [id \in DOMAIN parent \cup {child} |->
                              IF id = child THEN Node ELSE parent[id]]
            /\ Entering' /\ Node' = child
        BY <1>9 DEF ParentIn
      <4> QED BY <3>1, <4>2, <4>3, <4>4, <4>5 DEF ParentOf
    <3> QED BY <1>1, <3>1, <3>2, <3>3
  <2> QED BY <2>1 DEF ParentInv
<1>14. BlackInv'
  <2>1. Black' = Black
    BY <1>2, <1>8 DEF Black, Entered
  <2> QED BY <1>8, <2>1 DEF SearchInv, BlackInv, Grounded, Closed
<1> QED BY <1>10, <1>11, <1>12, <1>13, <1>14 DEF SearchInv

\* Leaving a task all of whose dependencies are black.
LEMMA Finish ==
    ASSUME SearchInv, stack # <<>>, Next_ > 0 \/ color[Node] = "white",
           plan \in Plans, DepsKnown, ~(Next_ < Len(Kids(Node))), plan' = plan, parent' = parent,
           color' = [ColorIn EXCEPT ![Node] = "black"],
           path' = Front(PathIn), stack' = Front(stack)
    PROVE  SearchInv'
<1>1. /\ Len(stack) \in Nat \ {0} /\ Node = stack[Len(stack)].node /\ Node \in Ids(plan)
      /\ Next_ = stack[Len(stack)].next /\ Next_ \in Nat
  BY TopOfStack DEF SearchInv
<1>2. Entered
  BY EnterNode
<1>3. /\ stack' \in Seq(Entry) /\ Len(stack') = Len(stack) - 1
      /\ \A i \in 1 .. Len(stack) - 1 : stack'[i] = stack[i]
  BY <1>1, FrontTyped DEF SearchInv, SearchTyped
<1>4. /\ path' \in Seq(Ids(plan)) /\ Len(path') = Len(stack) - 1
      /\ \A i \in 1 .. Len(stack) - 1 : path'[i] = PathIn[i]
  BY <1>1, <1>2, FrontTyped DEF Entered
<1>5. Ids(plan)' = Ids(plan) /\ \A x : Kids(x)' = Kids(x) /\ Deps(x)' = Deps(x)
  BY DEF Ids, Kids, Deps, TaskOf
<1>6. PathIn[Len(stack)] = Node /\ ColorIn[Node] = "gray" /\ color[Node] # "black"
  BY <1>1, <1>2 DEF Entered
<1>7. Kids(Node) \in Seq(Ids(plan)) /\ Deps(Node) = Range(Kids(Node))
  BY <1>1, KidsTyped
<1>8. Deps(Node) \subseteq Black
  <2>1. ASSUME NEW k \in 1 .. Len(Kids(Node)) PROVE Kids(Node)[k] \in Black
    <3>1. Next_ = Len(Kids(Node))
      <4>1. KidsOf(Len(stack)) /\ Len(Kids(Node)) \in Nat
        BY <1>1, <1>7 DEF SearchInv, KidsInv
      <4> QED BY <1>1, <4>1 DEF KidsOf
    <3>2. color[Kids(Node)[k]] = "black"
      <4>1. KidsOf(Len(stack))
        BY <1>1 DEF SearchInv, KidsInv
      <4> QED BY <1>1, <1>7, <3>1, <4>1 DEF KidsOf
    <3> QED BY <1>7, <3>2 DEF Black
  <2> QED BY <1>7, <2>1 DEF Range
<1>9. SearchTyped'
  <2>1. Entry' = Entry
    BY <1>5 DEF Entry
  <2>2. color' \in [Ids(plan) -> {"white", "gray", "black"}]
    BY <1>2 DEF Entered
  <2> QED BY <1>3, <1>4, <1>5, <2>1, <2>2 DEF SearchTyped
<1>10. ASSUME NEW i \in 1 .. Len(stack') PROVE stack'[i].next > 0
  <2>1. i \in 1 .. Len(stack) /\ i < Len(stack) /\ i \in 1 .. Len(stack) - 1
    BY <1>1, <1>3
  <2>2. KidsOf(i)
    BY <2>1 DEF SearchInv, KidsInv
  <2> QED BY <1>3, <2>1, <2>2 DEF KidsOf
<1>11. ~Entering'
  <2>1. ASSUME stack' # <<>> PROVE Next_' > 0
    <3>1. Len(stack') \in 1 .. Len(stack')
      BY <1>3, <2>1
    <3> QED BY <1>10, <3>1 DEF Next_, Last
  <2>2. CASE stack' = <<>>
    BY <2>2 DEF Entering
  <2>3. CASE stack' # <<>>
    <3>1. ~(Next_' = 0)
      BY <2>1, <2>3
    <3> QED BY <3>1 DEF Entering
  <2> QED BY <2>2, <2>3
<1>12. \A x \in Ids(plan) : /\ x # Node => color'[x] = ColorIn[x]
                            /\ color'[Node] = "black"
  BY <1>1, <1>2 DEF Entered
<1>13. PathInv'
  <2>1. ASSUME NEW x \in Ids(plan)
        PROVE  color'[x] = "gray" <=> \E i \in 1 .. Len(path') : path'[i] = x
    <3>1. CASE x = Node
      <4>1. \A i \in 1 .. Len(stack) - 1 : PathIn[i] # Node
        BY <1>1, <1>2, <1>6 DEF Entered
      <4> QED BY <1>4, <1>12, <3>1, <4>1
    <3>2. CASE x # Node
      <4>1. (\E i \in 1 .. Len(stack) - 1 : PathIn[i] = x)
                <=> \E i \in 1 .. Len(stack) : PathIn[i] = x
        BY <1>1, <1>6, <3>2
      <4>2. ColorIn[x] = "gray" <=> \E i \in 1 .. Len(stack) : PathIn[i] = x
        BY <1>2 DEF Entered
      <4> QED BY <1>4, <1>12, <3>2, <4>1, <4>2
    <3> QED BY <3>1, <3>2
  <2>2. /\ \A i \in 1 .. Len(path') : stack'[i].node = path'[i] /\ stack'[i].next > 0
        /\ \A i, j \in 1 .. Len(path') : path'[i] = path'[j] => i = j
    BY <1>1, <1>2, <1>3, <1>4, <1>10 DEF Entered
  <2>3. Len(stack') = Len(path') + 0
    BY <1>1, <1>3, <1>4
  <2> QED BY <1>5, <1>11, <2>1, <2>2, <2>3 DEF PathInv
<1>14. KidsInv'
  <2>1. ASSUME NEW i \in 1 .. Len(stack') PROVE KidsOf(i)'
    <3>1. i \in 1 .. Len(stack) /\ i < Len(stack) /\ stack'[i] = stack[i]
      BY <1>1, <1>3
    <3>2. stack[i].node \in Ids(plan) /\ stack[i].next \in Nat
      BY <3>1, StackTyped DEF SearchInv
    <3>3. Kids(stack[i].node) \in Seq(Ids(plan))
      BY <3>2, KidsTyped
    <3>4. KidsOf(i)
      BY <3>1 DEF SearchInv, KidsInv
    <3>5. \A x \in Ids(plan) : color[x] = "black" => color'[x] = "black"
      BY <1>2, <1>12 DEF Entered
    <3>6. CASE i = Len(stack')
      <4>1. color'[Kids(stack[i].node)[stack[i].next]] = "black"
        BY <1>1, <1>3, <1>12, <3>1, <3>4, <3>6 DEF KidsOf
      <4>2. \A k \in 1 .. stack[i].next : color'[Kids(stack[i].node)[k]] = "black"
        BY <3>1, <3>2, <3>3, <3>4, <3>5, <4>1 DEF KidsOf
      <4>3. stack[i].next <= Len(Kids(stack[i].node))
        BY <3>4 DEF KidsOf
      <4> QED BY <3>1, <3>6, <4>2, <4>3 DEF KidsOf, Kids
    <3>7. CASE i < Len(stack')
      <4>1. stack'[i + 1] = stack[i + 1]
        BY <1>1, <1>3, <3>7
      <4>2. /\ stack[i].next <= Len(Kids(stack[i].node))
            /\ \A k \in 1 .. stack[i].next :
                   color'[Kids(stack[i].node)[k]] = "black" \/ k = stack[i].next
            /\ stack[i].next > 0 /\ Kids(stack[i].node)[stack[i].next] = stack[i + 1].node
        BY <3>1, <3>2, <3>3, <3>4, <3>5 DEF KidsOf
      <4> QED BY <3>1, <3>7, <4>1, <4>2 DEF KidsOf, Kids
    <3> QED BY <1>1, <1>3, <3>6, <3>7
  <2> QED BY <2>1 DEF KidsInv
<1>15. ParentInv'
  <2>1. ASSUME NEW i \in 1 .. Len(stack') - 1 PROVE ParentOf(i)'
    <3>1. i \in 1 .. Len(stack) - 1 /\ stack'[i] = stack[i] /\ stack'[i + 1] = stack[i + 1]
      <4>1. i \in 1 .. Len(stack) - 1 /\ i + 1 \in 1 .. Len(stack) - 1
        BY <1>1, <1>3
      <4> QED BY <1>3, <4>1
    <3>2. stack[i + 1].node \in DOMAIN parent /\ parent[stack[i + 1].node] = stack[i].node
      BY <3>1, ParentsIntact
    <3> QED BY <3>1, <3>2 DEF ParentOf
  <2> QED BY <2>1 DEF ParentInv
<1>16. BlackInv'
  <2>1. Black' = Black \cup {Node} /\ Node \notin Black
    BY <1>1, <1>2, <1>5, <1>6, <1>12 DEF Black, Entered
  <2>2. Grounded(Black \cup {Node}) /\ Closed(Black \cup {Node})
    <3>1. Grounded(Black) /\ Closed(Black)
      BY DEF SearchInv, BlackInv
    <3> QED BY <1>8, <2>1, <3>1, GroundedGrows
  <2> QED BY <1>5, <2>1, <2>2 DEF BlackInv, Grounded, Closed
<1> QED BY <1>9, <1>13, <1>14, <1>15, <1>16 DEF SearchInv

-----------------------------------------------------------------------------
(* The cycle that is found. *)

\* One step of the walk back.
Back(x) == IF x \in DOMAIN parent THEN parent[x] ELSE x
Walks(b, m) == b = [n \in 0 .. m |-> IF n = 0 THEN Last(path) ELSE Back(b[n - 1])]

LEMMA WalkExists ==
    ASSUME NEW m \in Nat PROVE \E b : Walks(b, m)
<1> DEFINE Stuck == {n \in Nat : ~\E b : Walks(b, n)}
<1> SUFFICES ASSUME Stuck # {} PROVE FALSE
  OBVIOUS
<1>1. PICK n \in Stuck : \A l \in Stuck : ~(l < n)
  BY LeastNumber
<1>2. CASE n = 0
  <2>1. Walks([l \in 0 .. 0 |-> Last(path)], 0)
    BY DEF Walks
  <2> QED BY <1>1, <1>2, <2>1
<1>3. CASE n # 0
  <2>1. n \in Nat /\ n - 1 \in Nat /\ n - 1 < n
    BY <1>1, <1>3
  <2>2. PICK b : Walks(b, n - 1)
    BY <1>1, <2>1
  <2> DEFINE c == [l \in 0 .. n |-> IF l = n THEN Back(b[n - 1]) ELSE b[l]]
  <2>3. ASSUME NEW l \in 0 .. n PROVE c[l] = IF l = 0 THEN Last(path) ELSE Back(c[l - 1])
    <3>1. CASE l = n
      BY <1>3, <2>1, <3>1
    <3>2. CASE l # n
      <4>1. l \in 0 .. n - 1 /\ (l # 0 => l - 1 \in 0 .. n - 1 /\ l - 1 # n /\ l - 1 \in 0 .. n)
        BY <2>1, <3>2
      <4>2. b[l] = IF l = 0 THEN Last(path) ELSE Back(b[l - 1])
        BY <2>2, <4>1 DEF Walks
      <4> QED BY <3>2, <4>1, <4>2
    <3> QED BY <3>1, <3>2
  <2>4. c = [l \in 0 .. n |-> c[l]]
    OBVIOUS
  <2> HIDE DEF c
  <2>5. Walks(c, n)
    BY <2>3, <2>4 DEF Walks
  <2> QED BY <1>1, <2>5
<1> QED BY <1>2, <1>3

\* A sequence with the same element put before and behind it, read from its end.
Loop(x, w) == Reverse(<<x>> \o w \o <<x>>)

LEMMA LoopReads ==
    ASSUME NEW S, NEW x \in S, NEW k \in Nat, NEW w \in [1 .. k -> S], NEW q, q = Loop(x, w)
    PROVE  /\ q = [i \in 1 .. k + 2 |-> q[i]]
           /\ q[1] = x /\ q[k + 2] = x
           /\ \A i \in 1 .. k : q[i + 1] = w[k - i + 1]
<1> DEFINE p == <<x>> \o w
           r == p \o <<x>>
<1>1. w \in Seq(S) /\ Len(w) = k /\ <<x>> \in Seq(S) /\ Len(<<x>>) = 1 /\ <<x>>[1] = x
  OBVIOUS
<1>2. p \in Seq(S) /\ Len(p) = k + 1 /\ p[1] = x /\ \A i \in 1 .. k : p[i + 1] = w[i]
  <2>1. /\ p \in Seq(S) /\ Len(p) = 1 + k
        /\ \A i \in 1 .. 1 + k : p[i] = IF i <= 1 THEN <<x>>[i] ELSE w[i - 1]
    BY <1>1, ConcatProperties
  <2> HIDE DEF p
  <2>2. ASSUME NEW i \in 1 .. k PROVE p[i + 1] = w[i]
    <3>1. i + 1 \in 1 .. 1 + k /\ ~(i + 1 <= 1) /\ i + 1 - 1 = i
      OBVIOUS
    <3> QED BY <2>1, <3>1
  <2> QED BY <1>1, <2>1, <2>2
<1> HIDE DEF p
<1>3. /\ r \in Seq(S) /\ Len(r) = k + 2 /\ r[k + 2] = x
      /\ \A i \in 1 .. k + 1 : r[i] = p[i]
  <2>1. /\ r \in Seq(S) /\ Len(r) = k + 1 + 1
        /\ \A i \in 1 .. k + 1 + 1 : r[i] = IF i <= k + 1 THEN p[i] ELSE <<x>>[i - (k + 1)]
    BY <1>1, <1>2, ConcatProperties
  <2> HIDE DEF r
  <2>2. r[k + 2] = <<x>>[1]
    <3>1. k + 2 \in 1 .. k + 1 + 1 /\ ~(k + 2 <= k + 1) /\ k + 2 - (k + 1) = 1
      OBVIOUS
    <3> QED BY <2>1, <3>1
  <2>3. \A i \in 1 .. k + 1 : r[i] = p[i]
    BY <2>1
  <2> QED BY <1>1, <2>1, <2>2, <2>3
<1> HIDE DEF r
<1>4. q = [i \in 1 .. k + 2 |-> r[k + 2 - i + 1]]
  <2>1. q = Reverse(r)
    BY DEF Loop, r, p
  <2>2. q = [i \in 1 .. Len(r) |-> r[(Len(r) - i) + 1]]
    BY <2>1 DEF Reverse
  <2>3. Len(r) = k + 2
    BY <1>3
  <2> QED BY <2>2, <2>3
<1>5. q[1] = x /\ q[k + 2] = x
  <2>1. 1 \in 1 .. k + 2 /\ k + 2 \in 1 .. k + 2 /\ k + 2 - 1 + 1 = k + 2 /\ k + 2 - (k + 2) + 1 = 1
        /\ 1 \in 1 .. k + 1
    OBVIOUS
  <2> QED BY <1>2, <1>3, <1>4, <2>1
<1>6. ASSUME NEW i \in 1 .. k PROVE q[i + 1] = w[k - i + 1]
  <2>1. /\ i + 1 \in 1 .. k + 2 /\ k + 2 - (i + 1) + 1 = k - i + 1 + 1
        /\ k - i + 1 \in 1 .. k /\ k - i + 1 + 1 \in 1 .. k + 1
    OBVIOUS
  <2> QED BY <1>2, <1>3, <1>4, <2>1
<1>7. q = [i \in 1 .. k + 2 |-> q[i]]
  BY <1>4
<1> QED BY <1>5, <1>6, <1>7

\* A path without repetitions is no longer than the plan.
LEMMA PathFits ==
    ASSUME plan \in Plans, NEW s \in Seq(Ids(plan)),
           \A i, j \in 1 .. Len(s) : s[i] = s[j] => i = j
    PROVE  Len(s) <= Len(plan)
<1>1. Len(plan) \in Nat /\ Len(s) \in Nat /\ DOMAIN plan = 1 .. Len(plan)
  BY PlanTyped
<1> SUFFICES ASSUME Len(plan) < Len(s) PROVE FALSE
  BY <1>1
<1> DEFINE at == [i \in 1 .. Len(s) |-> CHOOSE n \in 1 .. Len(plan) : plan[n].id = s[i]]
<1>2. ASSUME NEW i \in 1 .. Len(s) PROVE at[i] \in 1 .. Len(plan) /\ plan[at[i]].id = s[i]
  <2>1. s[i] \in Ids(plan)
    OBVIOUS
  <2>2. \E n \in 1 .. Len(plan) : plan[n].id = s[i]
    BY <1>1, <2>1 DEF Ids
  <2> QED BY <2>2
<1>3. at \in [1 .. Len(s) -> 1 .. Len(plan)]
  BY <1>2
<1>4. /\ IsFiniteSet(1 .. Len(s)) /\ IsFiniteSet(1 .. Len(plan))
      /\ Cardinality(1 .. Len(plan)) < Cardinality(1 .. Len(s))
  <2>1. \A n \in Nat : IsFiniteSet(1 .. n) /\ Cardinality(1 .. n) = n
    <3>1. ASSUME NEW n \in Nat PROVE IsFiniteSet(1 .. n) /\ Cardinality(1 .. n) = n
      <4>1. IsFiniteSet(1 .. n) /\ Cardinality(1 .. n) = IF 1 > n THEN 0 ELSE n - 1 + 1
        <5>1. 1 \in Int /\ n \in Int
          OBVIOUS
        <5> QED BY <5>1, FS_Interval, Zenon
      <4> QED BY <4>1
    <3> QED BY <3>1
  <2> QED BY <1>1, <2>1
<1> HIDE DEF at
<1>5. PICK i, j \in 1 .. Len(s) : i # j /\ at[i] = at[j]
  <2> DEFINE D == 1 .. Len(s)
             C == 1 .. Len(plan)
  <2>1. /\ IsFiniteSet(D) /\ IsFiniteSet(C) /\ Cardinality(C) < Cardinality(D)
        /\ at \in [D -> C]
    BY <1>3, <1>4
  <2> HIDE DEF D, C
  <2>2. \E i, j \in D : i # j /\ at[i] = at[j]
    BY <2>1, FS_PigeonHole
  <2> QED BY <2>2 DEF D
<1> QED BY <1>2, <1>5

\* The walk back from the top of the stack follows the stack down to where the
\* node was entered.
LEMMA CycleOnStack ==
    ASSUME SearchInv, stack # <<>>, Next_ = 0, color[Node] = "gray", plan \in Plans
    PROVE  \E j \in 1 .. Len(stack) - 1 :
               /\ stack[j].node = Node
               /\ ClosedAt = [i \in 1 .. Len(stack) - j + 1 |-> stack[j + i - 1].node]
<1> DEFINE L == Len(path)
<1>1. /\ Len(stack) = L + 1 /\ L \in Nat /\ Entering
      /\ Node = stack[L + 1].node /\ Node \in Ids(plan)
      /\ \A i \in 1 .. L : stack[i].node = path[i]
      /\ \A i, j \in 1 .. L : path[i] = path[j] => i = j
      /\ path \in Seq(Ids(plan))
  <2>1. Entering /\ path \in Seq(Ids(plan)) /\ L \in Nat
    BY DEF Entering, SearchInv, SearchTyped
  <2>2. Len(stack) = L + 1
    BY <2>1 DEF SearchInv, PathInv
  <2>3. Node = stack[Len(stack)].node /\ Node \in Ids(plan)
    BY TopOfStack DEF SearchInv
  <2>4. /\ \A i \in 1 .. L : stack[i].node = path[i]
        /\ \A i, j \in 1 .. L : path[i] = path[j] => i = j
    BY DEF SearchInv, PathInv
  <2> QED BY <2>1, <2>2, <2>3, <2>4
<1>2. PICK j \in 1 .. L : path[j] = Node
  BY <1>1 DEF SearchInv, PathInv
<1> DEFINE k == L - j
<1> HIDE DEF L
<1>3. j \in 1 .. L /\ k \in Nat /\ k <= L /\ L >= 1 /\ k = L - j
  BY <1>1, <1>2
<1>4. L <= Len(plan) /\ Len(plan) \in Nat
  <2>1. Len(plan) \in Nat
    BY PlanTyped
  <2> QED BY <1>1, <2>1, PathFits DEF L
<1> HIDE DEF k
\* The parent of what is above that place is what is below it.
<1>5. ASSUME NEW i \in 1 .. L - 1, i + 1 # j PROVE Back(path[i + 1]) = path[i]
  <2>1. i \in 1 .. Len(stack) - 1 /\ i \in 1 .. L /\ i + 1 \in 1 .. L
    BY <1>1
  <2>2. ParentOf(i)
    BY <2>1 DEF SearchInv, ParentInv
  <2>3. stack[i + 1].node = path[i + 1] /\ stack[i].node = path[i]
    BY <1>1, <2>1
  <2>4. path[i + 1] # Node
    BY <1>1, <1>2, <1>5, <2>1
  <2> QED BY <2>2, <2>3, <2>4 DEF ParentOf, Back
<1> DEFINE b == CHOOSE f : Walks(f, Len(plan))
<1>6. Walks(b, Len(plan))
  BY <1>4, WalkExists
<1> HIDE DEF b
<1>7. ASSUME NEW n \in 0 .. k PROVE b[n] = path[L - n]
  <2> DEFINE Off == {m \in Nat : m <= k /\ b[m] # path[L - m]}
  <2> SUFFICES ASSUME Off # {} PROVE FALSE
    BY <1>3
  <2>1. PICK m \in Off : \A l \in Off : ~(l < m)
    BY LeastNumber
  <2>2. m \in Nat /\ m <= k /\ b[m] # path[L - m] /\ m \in 0 .. Len(plan)
    BY <1>1, <1>3, <1>4, <2>1
  <2>3. CASE m = 0
    <3>1. b[0] = Last(path) /\ L - 0 = L
      BY <1>1, <1>6, <2>2, <2>3 DEF Walks
    <3> QED BY <2>2, <2>3, <3>1 DEF Last, L
  <2>4. CASE m # 0
    <3>1. /\ m - 1 \in Nat /\ m - 1 <= k /\ m - 1 < m
          /\ L - m \in 1 .. L - 1 /\ L - m + 1 # j /\ L - m + 1 = L - (m - 1)
      BY <1>1, <1>3, <2>2, <2>4
    <3>2. b[m] = Back(b[m - 1])
      BY <1>6, <2>2, <2>4 DEF Walks
    <3>3. b[m - 1] = path[L - m + 1]
      BY <2>1, <3>1
    <3> QED BY <1>5, <2>2, <3>1, <3>2, <3>3
  <2> QED BY <2>3, <2>4
<1> DEFINE Hits == {n \in 0 .. Len(plan) : b[n] = Node}
<1>8. Min(Hits) = k
  <2>1. k \in Hits
    <3>1. k \in 0 .. k /\ L - k = j /\ k \in 0 .. Len(plan)
      BY <1>1, <1>3, <1>4
    <3> QED BY <1>2, <1>7, <3>1
  <2>2. ASSUME NEW n \in Hits, n < k PROVE FALSE
    <3>1. n \in 0 .. k /\ L - n \in 1 .. L /\ L - n # j
      BY <1>1, <1>3, <2>2
    <3> QED BY <1>1, <1>2, <1>7, <2>2, <3>1
  <2>3. \A n \in Hits : n \in Int
    OBVIOUS
  <2> HIDE DEF Hits
  <2>4. \A n \in Hits : k <= n
    BY <1>3, <2>2, <2>3
  <2>5. \A x \in Hits : (\A y \in Hits : x <= y) => x = k
    BY <1>3, <2>1, <2>3, <2>4
  <2> QED BY <2>1, <2>4, <2>5 DEF Min
<1> DEFINE w == [i \in 1 .. k |-> b[i - 1]]
           q == Loop(Node, w)
<1>9. ClosedAt = q
  BY <1>8 DEF ClosedAt, Loop, b, Hits, Walks, Back
<1>10. w \in [1 .. k -> Ids(plan)] /\ \A i \in 1 .. k : w[i] = path[L - i + 1]
  <2>1. ASSUME NEW i \in 1 .. k PROVE w[i] = path[L - i + 1] /\ w[i] \in Ids(plan)
    <3>1. i - 1 \in 0 .. k /\ L - (i - 1) = L - i + 1 /\ L - i + 1 \in 1 .. L
      BY <1>1, <1>3
    <3>2. path[L - i + 1] \in Ids(plan)
      BY <1>1, <3>1 DEF L
    <3> QED BY <1>7, <3>1, <3>2
  <2> QED BY <2>1
<1>11. /\ q = [i \in 1 .. k + 2 |-> q[i]]
       /\ q[1] = Node /\ q[k + 2] = Node
       /\ \A i \in 1 .. k : q[i + 1] = w[k - i + 1]
  <2> HIDE DEF w
  <2>1. q = Loop(Node, w)
    OBVIOUS
  <2>2. k \in Nat /\ Node \in Ids(plan) /\ w \in [1 .. k -> Ids(plan)]
    BY <1>1, <1>3, <1>10
  <2> HIDE DEF q
  <2> QED BY <2>1, <2>2, LoopReads
<1> HIDE DEF w, q
<1>12. ASSUME NEW i \in 1 .. k + 2 PROVE q[i] = stack[j + i - 1].node
  <2>1. CASE i = 1
    <3>1. j + i - 1 = j
      BY <1>3, <2>1
    <3> QED BY <1>1, <1>2, <1>11, <2>1, <3>1
  <2>2. CASE i = k + 2
    <3>1. j + i - 1 = L + 1
      BY <1>1, <1>3, <2>2
    <3> QED BY <1>1, <1>11, <2>2, <3>1
  <2>3. CASE i # 1 /\ i # k + 2
    <3>1. /\ i - 1 \in 1 .. k /\ i - 1 + 1 = i /\ k - (i - 1) + 1 \in 1 .. k
          /\ L - (k - (i - 1) + 1) + 1 = j + i - 1 /\ j + i - 1 \in 1 .. L
      BY <1>1, <1>3, <2>3
    <3>2. q[i] = w[k - (i - 1) + 1]
      BY <1>11, <3>1
    <3>3. q[i] = path[j + i - 1]
      BY <1>10, <3>1, <3>2
    <3> QED BY <1>1, <3>1, <3>3
  <2> QED BY <2>1, <2>2, <2>3
<1>13. Len(stack) - j + 1 = k + 2 /\ j \in 1 .. Len(stack) - 1
  BY <1>1, <1>3
<1>14. q = [i \in 1 .. k + 2 |-> stack[j + i - 1].node]
  BY <1>11, <1>12
<1>15. stack[j].node = Node
  BY <1>1, <1>2
<1> QED BY <1>9, <1>13, <1>14, <1>15

\* A closed walk along depends_on that repeats no task but its first.
ClosedWalk(c) ==
    /\ Len(c) > 1 /\ c[1] = Last(c)
    /\ \A i \in 1 .. Len(c) - 1 : c[i + 1] \in Deps(c[i])
    /\ IsInjective(Tail(c))

LEMMA CycleFound ==
    ASSUME SearchInv, stack # <<>>, Next_ = 0, color[Node] = "gray", plan \in Plans, DepsKnown,
           NEW c, c = ClosedAt
    PROVE  ClosedWalk(c) /\ Node \in Ids(plan) /\ Reaches(Node, Node)
<1>1. PICK j \in 1 .. Len(stack) - 1 :
               /\ stack[j].node = Node
               /\ c = [i \in 1 .. Len(stack) - j + 1 |-> stack[j + i - 1].node]
  BY CycleOnStack
<1> DEFINE n == Len(stack) - j + 1
           L == Len(path)
<1>2. /\ Node = stack[Len(stack)].node /\ Node \in Ids(plan)
      /\ Len(stack) = L + 1 /\ L \in Nat /\ Len(stack) \in Nat
      /\ \A i \in 1 .. L : stack[i].node = path[i]
      /\ \A i, l \in 1 .. L : path[i] = path[l] => i = l
  <2>1. Len(stack) = L + 1 /\ L \in Nat
    BY DEF SearchInv, SearchTyped, PathInv, Entering
  <2>2. Node = stack[Len(stack)].node /\ Node \in Ids(plan) /\ Len(stack) \in Nat
    BY TopOfStack DEF SearchInv
  <2> QED BY <2>1, <2>2 DEF SearchInv, PathInv
<1> HIDE DEF L
<1>3. n \in Nat /\ n >= 2 /\ n = L + 2 - j /\ j \in 1 .. L /\ Len(stack) - j + 1 = n
  BY <1>1, <1>2
<1> HIDE DEF n
<1>4. /\ c \in Seq(Ids(plan)) /\ Len(c) = n
      /\ \A i \in 1 .. n : c[i] = stack[j + i - 1].node
  <2>1. ASSUME NEW i \in 1 .. n PROVE stack[j + i - 1].node \in Ids(plan)
    <3>1. j + i - 1 \in 1 .. Len(stack)
      BY <1>2, <1>3
    <3> QED BY <3>1, StackTyped DEF SearchInv
  <2>2. c = [i \in 1 .. n |-> stack[j + i - 1].node]
    BY <1>1, <1>3
  <2>3. c \in [1 .. n -> Ids(plan)]
    BY <2>1, <2>2
  <2>4. c \in Seq(Ids(plan)) /\ Len(c) = n
    <3>1. n \in Nat
      BY <1>3
    <3> QED BY <2>3, <3>1
  <2>5. \A i \in 1 .. n : c[i] = stack[j + i - 1].node
    BY <2>2
  <2> QED BY <2>4, <2>5
<1>5. c[1] = Node /\ c[n] = Node
  <2>1. 1 \in 1 .. n /\ n \in 1 .. n /\ j + 1 - 1 = j /\ j + n - 1 = Len(stack)
    BY <1>2, <1>3
  <2> QED BY <1>1, <1>2, <1>4, <2>1
<1>6. ASSUME NEW i \in 1 .. n - 1 PROVE c[i + 1] \in Deps(c[i])
  <2> DEFINE l == j + i - 1
  <2>1. /\ l \in 1 .. Len(stack) /\ l < Len(stack) /\ i \in 1 .. n /\ i + 1 \in 1 .. n
        /\ j + (i + 1) - 1 = l + 1
    BY <1>2, <1>3
  <2> HIDE DEF l
  <2>2. c[i] = stack[l].node /\ c[i + 1] = stack[l + 1].node
    BY <1>4, <2>1 DEF l
  <2>3. /\ stack[l].next > 0 /\ stack[l].next <= Len(Kids(stack[l].node))
        /\ Kids(stack[l].node)[stack[l].next] = stack[l + 1].node
    BY <2>1 DEF SearchInv, KidsInv, KidsOf
  <2>4. stack[l].node \in Ids(plan) /\ stack[l].next \in Nat
    BY <2>1, StackTyped DEF SearchInv
  <2>5. Kids(stack[l].node) \in Seq(Ids(plan)) /\ Deps(stack[l].node) = Range(Kids(stack[l].node))
    BY <2>4, KidsTyped
  <2>6. stack[l].next \in DOMAIN Kids(stack[l].node)
    BY <2>3, <2>4, <2>5
  <2> QED BY <2>2, <2>3, <2>5, <2>6 DEF Range
<1>7. IsInjective(Tail(c))
  <2>1. DOMAIN Tail(c) = 1 .. n - 1 /\ \A i \in 1 .. n - 1 : Tail(c)[i] = c[i + 1]
    BY <1>3, <1>4
  <2>2. ASSUME NEW i \in 1 .. n - 1 PROVE c[i + 1] = IF i = n - 1 THEN path[j] ELSE path[j + i]
    <3>1. i + 1 \in 1 .. n /\ j + (i + 1) - 1 = j + i
      BY <1>3
    <3>2. c[i + 1] = stack[j + i].node
      BY <1>4, <3>1
    <3>3. CASE i = n - 1
      BY <1>1, <1>2, <1>3, <1>5, <3>3
    <3>4. CASE i # n - 1
      <4>1. j + i \in 1 .. L
        BY <1>2, <1>3, <3>4
      <4> QED BY <1>2, <3>2, <3>4, <4>1
    <3> QED BY <3>3, <3>4
  <2>3. ASSUME NEW i \in 1 .. n - 1, NEW l \in 1 .. n - 1, c[i + 1] = c[l + 1] PROVE i = l
    <3> DEFINE at(m) == IF m = n - 1 THEN j ELSE j + m
    <3>1. \A m \in 1 .. n - 1 : at(m) \in 1 .. L
      BY <1>2, <1>3
    <3>2. path[at(i)] = path[at(l)]
      BY <2>2, <2>3
    <3>3. at(i) = at(l)
      <4> HIDE DEF at
      <4> QED BY <1>2, <3>1, <3>2
    <3> QED BY <1>2, <1>3, <3>3
  <2> DEFINE tail == Tail(c)
  <2> HIDE DEF tail
  <2>4. DOMAIN tail = 1 .. n - 1 /\ \A i \in 1 .. n - 1 : tail[i] = c[i + 1]
    BY <2>1 DEF tail
  <2>5. IsInjective(tail)
    BY <2>3, <2>4 DEF IsInjective
  <2> QED BY <2>5 DEF tail
<1>8. Reaches(Node, Node)
  <2> DEFINE Missed == {m \in Nat : m >= 1 /\ m <= n - 1 /\ ~Reaches(Node, c[m + 1])}
  <2>1. Missed = {}
    <3> SUFFICES ASSUME Missed # {} PROVE FALSE
      OBVIOUS
    <3>1. PICK m \in Missed : \A l \in Missed : ~(l < m)
      BY LeastNumber
    <3>2. m \in Nat /\ m >= 1 /\ m <= n - 1 /\ ~Reaches(Node, c[m + 1]) /\ m \in 1 .. n - 1
      BY <1>3, <3>1
    <3>3. c[m + 1] \in Deps(c[m])
      BY <1>6, <3>2
    <3>4. CASE m = 1
      BY <1>5, <3>2, <3>3, <3>4, ReachesDirectly
    <3>5. CASE m # 1
      <4>1. m - 1 \in Nat /\ m - 1 >= 1 /\ m - 1 <= n - 1 /\ m - 1 < m /\ m - 1 + 1 = m
        BY <1>3, <3>2, <3>5
      <4>2. Reaches(Node, c[m])
        BY <3>1, <4>1
      <4> QED BY <3>2, <3>3, <4>2, ReachesFurther
    <3> QED BY <3>4, <3>5
  <2>2. n - 1 \in Nat /\ n - 1 >= 1 /\ n - 1 <= n - 1 /\ n - 1 + 1 = n
    BY <1>3
  <2>3. Reaches(Node, c[n])
    BY <2>1, <2>2
  <2> QED BY <1>5, <2>3
<1>9. Len(c) > 1 /\ c[1] = Last(c) /\ \A i \in 1 .. Len(c) - 1 : c[i + 1] \in Deps(c[i])
  BY <1>3, <1>4, <1>5, <1>6 DEF Last
<1> QED BY <1>2, <1>7, <1>8, <1>9 DEF ClosedWalk

-----------------------------------------------------------------------------
(* The steps of the search. *)

LEMMA MinOfNumbers ==
    ASSUME NEW S \in SUBSET Nat, S # {} PROVE Min(S) \in S
<1>1. PICK n \in S : \A m \in S : ~(m < n)
  BY LeastNumber
<1>2. n \in S /\ \A m \in S : n <= m
  BY <1>1
<1> QED BY <1>2 DEF Min

\* Before the search: nothing has been colored.
Fresh ==
    /\ color = [id \in Ids(plan) |-> "white"]
    /\ stack = <<>> /\ path = <<>> /\ parent = <<>>

LEMMA SearchStarts ==
    ASSUME Fresh PROVE SearchInv
<1>1. Black = {} /\ Len(stack) = 0 /\ Len(path) = 0 /\ ~Entering
  BY DEF Fresh, Black, Entering
<1>2. SearchTyped
  BY DEF Fresh, SearchTyped
<1>3. PathInv
  BY <1>1 DEF Fresh, PathInv
<1>4. KidsInv /\ ParentInv
  BY <1>1 DEF KidsInv, ParentInv
<1>5. BlackInv
  BY <1>1 DEF BlackInv, Grounded, Closed
<1> QED BY <1>2, <1>3, <1>4, <1>5 DEF SearchInv

\* With the stack empty every task is white or black.
LEMMA BetweenTrees ==
    ASSUME SearchInv, stack = <<>> PROVE path = <<>> /\ \A x \in Ids(plan) : color[x] # "gray"
<1>1. Len(path) = 0 /\ path \in Seq(Ids(plan))
  <2>1. ~Entering /\ Len(stack) = 0 /\ Len(path) \in Nat
    BY DEF Entering, SearchInv, SearchTyped
  <2> QED BY <2>1 DEF SearchInv, SearchTyped, PathInv
<1>2. path = <<>>
  BY <1>1
<1> QED BY <1>1, <1>2 DEF SearchInv, PathInv

LEMMA SearchRoot ==
    ASSUME SearchInv, stack = <<>>, Whites # {}, plan \in Plans,
           NEW root, root = plan[Min(Whites)].id, stack' = <<[node |-> root, next |-> 0]>>,
           UNCHANGED <<plan, color, path, parent>>
    PROVE  SearchInv'
<1>1. root \in Ids(plan) /\ color[root] = "white"
  <2>1. Whites \in SUBSET Nat
    BY PlanTyped DEF Whites
  <2>2. Min(Whites) \in Whites
    BY <2>1, MinOfNumbers
  <2> QED BY <2>2 DEF Whites, Ids
<1>2. /\ Ids(plan)' = Ids(plan) /\ Entry' = Entry /\ Black' = Black
      /\ \A x : Kids(x)' = Kids(x) /\ Deps(x)' = Deps(x)
  BY DEF Ids, Kids, Deps, TaskOf, Entry, Black
<1>3. /\ Len(stack') = 1 /\ stack' # <<>>
      /\ stack'[1].node = root /\ stack'[1].next = 0
  OBVIOUS
<1>4. Entering' /\ Node' = root
  BY <1>3 DEF Entering, Next_, Node, Last
<1>5. [node |-> root, next |-> 0] \in Entry
  BY <1>1 DEF Entry
<1>6. stack' \in Seq(Entry)
  BY <1>5
<1>7. SearchTyped'
  BY <1>2, <1>6 DEF SearchInv, SearchTyped
<1>8. PathInv'
  <2>1. path = <<>> /\ \A x \in Ids(plan) : color[x] # "gray"
    BY BetweenTrees
  <2> QED BY <1>1, <1>2, <1>3, <1>4, <2>1 DEF PathInv
<1>9. KidsInv'
  <2>1. ASSUME NEW i, i = 1 PROVE KidsOf(i)'
    <3>1. Len(Kids(root)) \in Nat
      <4>1. Kids(root) \in Seq(Range(Kids(root)))
        BY <1>1, TaskFound, PlanTyped DEF Kids
      <4> QED BY <4>1
    <3>2. stack'[i].next <= Len(Kids(root)) /\ 1 .. stack'[i].next = {} /\ ~(i < Len(stack'))
      BY <1>3, <2>1, <3>1
    <3> QED BY <1>3, <2>1, <3>2 DEF KidsOf, Kids
  <2> QED BY <1>3, <2>1 DEF KidsInv
<1>10. ParentInv'
  BY <1>3 DEF ParentInv
<1>11. BlackInv'
  BY <1>2 DEF SearchInv, BlackInv, Grounded, Closed
<1> QED BY <1>7, <1>8, <1>9, <1>10, <1>11 DEF SearchInv

\* When no task is left to start from, none depends on itself in a circle.
LEMMA SearchEnds ==
    ASSUME SearchInv, stack = <<>>, Whites = {} PROVE Grounded(Ids(plan))
<1>1. Black = Ids(plan)
  <2>1. ASSUME NEW x \in Ids(plan) PROVE color[x] = "black"
    <3>1. color[x] # "white"
      BY DEF Whites, Ids
    <3>2. color[x] # "gray"
      BY BetweenTrees
    <3>3. color[x] \in {"white", "gray", "black"}
      BY DEF SearchInv, SearchTyped
    <3> QED BY <3>1, <3>2, <3>3
  <2> QED BY <2>1 DEF Black
<1> QED BY <1>1 DEF SearchInv, BlackInv

LEMMA ExpandKeepsSearch ==
    ASSUME SearchInv, Expand, plan \in Plans, DepsKnown PROVE SearchInv'
<1>1. /\ stack # <<>>
      /\ Next_ > 0 \/ color[Node] = "white"
      /\ plan' = plan /\ Next_ \in Nat /\ Node \in Ids(plan)
  BY TopOfStack DEF Expand, SearchInv
<1>2. CASE Next_ < Len(Kids(Node))
  <2> DEFINE child == Kids(Node)[Next_ + 1]
  <2>1. child \in Ids(plan)
    <3>1. Kids(Node) \in Seq(Ids(plan))
      BY <1>1, KidsTyped
    <3> QED BY <1>1, <1>2, <3>1
  <2>2. ColorIn[child] = "black" <=> color[child] = "black"
    <3>1. Entered
      BY <1>1, EnterNode
    <3> HIDE DEF child
    <3> QED BY <2>1, <3>1 DEF Entered
  <2>3. /\ color' = ColorIn /\ path' = PathIn
        /\ ColorIn[child] # "black" => stack' = Pushed(child) /\ parent' = ParentIn(child)
        /\ ColorIn[child] = "black" => stack' = Moved /\ parent' = parent
    BY <1>2 DEF Expand, Children, Kids, ColorIn, PathIn, Moved, Pushed, Push, ParentIn
  <2>4. CASE color[child] = "black"
    BY <1>1, <1>2, <2>2, <2>3, <2>4, PassOver
  <2>5. CASE color[child] # "black"
    <3> HIDE DEF child
    <3>1. child = Kids(Node)[Next_ + 1]
      BY DEF child
    <3> QED BY <1>1, <1>2, <2>2, <2>3, <2>5, <3>1, Follow
  <2> QED BY <2>4, <2>5
<1>3. CASE ~(Next_ < Len(Kids(Node)))
  <2>1. /\ color' = [ColorIn EXCEPT ![Node] = "black"]
        /\ path' = Front(PathIn) /\ stack' = Front(stack) /\ parent' = parent
    BY <1>3 DEF Expand, Children, Kids, ColorIn, PathIn
  <2> QED BY <1>1, <1>3, <2>1, Finish
<1> QED BY <1>2, <1>3

-----------------------------------------------------------------------------
(* Dispatch. *)

\* Nothing is dispatched before the plan runs, and only what the payload says.
DispatchedFromPayload ==
    /\ dispatched # {} => stage = "running"
    /\ \A d \in dispatched : /\ d.policy = payload[d.task]
                             /\ d.dynamic = IsDynamic(plan)
                             /\ d = [task |-> d.task, policy |-> d.policy, dynamic |-> d.dynamic]

LEMMA DispatchedInit == Init => DispatchedFromPayload
  BY DEF Init, DispatchedFromPayload

LEMMA DispatchedNext == DispatchedFromPayload /\ [Next]_vars => DispatchedFromPayload'
<1> SUFFICES ASSUME DispatchedFromPayload, [Next]_vars PROVE DispatchedFromPayload'
  OBVIOUS
<1>1. CASE Validate
  \* A step of the validation: nothing has been dispatched yet.
  <2>1. stage # "running" /\ dispatched' = dispatched
    BY <1>1 DEF Validate, CheckTasks, CheckDeps, CheckRefs, Check, Reject, Search, SearchFrom,
         FindCycle, Expand, Freeze, running
  <2>2. dispatched = {}
    BY <2>1 DEF DispatchedFromPayload
  <2> QED BY <2>1, <2>2 DEF DispatchedFromPayload
<1>2. ASSUME NEW id \in Ids(plan), Dispatch(id) PROVE DispatchedFromPayload'
  <2>1. /\ stage = "running" /\ stage' = stage /\ plan' = plan /\ payload' = payload
        /\ dispatched' \in {dispatched,
               dispatched \cup {[task |-> id, policy |-> payload[id], dynamic |-> IsDynamic(plan)]}}
    BY <1>2 DEF Dispatch, PersistedExecution
  <2>2. IsDynamic(plan)' = IsDynamic(plan)
    BY <2>1 DEF IsDynamic
  <2> QED BY <2>1, <2>2 DEF DispatchedFromPayload
<1>3. ASSUME UNCHANGED <<plan, stage, payload, dispatched>> PROVE DispatchedFromPayload'
  BY <1>3 DEF DispatchedFromPayload, IsDynamic
<1>4. ASSUME NEW d \in dispatched, ActivityRuns(d) PROVE DispatchedFromPayload'
  BY <1>3, <1>4 DEF ActivityRuns
<1>5. CASE Redeploy
  BY <1>3, <1>5 DEF Redeploy
<1>6. CASE UNCHANGED vars
  BY <1>3, <1>6 DEF vars, running
<1> QED BY <1>1, <1>2, <1>4, <1>5, <1>6 DEF Next

\* A replay never dispatches a task with another policy, or by the other
\* scheduler, than before (engine.py:159-183): the run shows it on the plans it
\* enumerates, the theorem for every plan and every redeployment.
THEOREM ReplayDeterministic == Spec => []ReplayIsDeterministic
<1>1. DispatchedFromPayload => ReplayIsDeterministic
  BY DEF DispatchedFromPayload, ReplayIsDeterministic
<1> QED BY <1>1, DispatchedInit, DispatchedNext, PTL DEF Spec

-----------------------------------------------------------------------------
\* A policy the authored checks accept, or a tool's declaration that passes the
\* same checks, is never refused by the Activity that reads it back from the
\* history (schema.py:474-549 against activity.py:72-125).
THEOREM FrozenPolicyExecutes ==
    ASSUME NEW t, NEW tools,
           t.policy # NONE => PolicyFits(t.policy),
           Declared(t, tools) # NONE =>
               /\ Declared(t, tools).retry # NONE => RetryFits(Declared(t, tools).retry)
               /\ Declared(t, tools).timeout # NONE => TimeoutFits(Declared(t, tools).timeout),
           HasPolicy(t, tools)
    PROVE  Executable(Frozen(t, tools))
<1> DEFINE retry == ChosenRetry(t, tools)
           timeout == Chosen(t, tools, "timeout")
\* Whichever declaration wins, it has passed its checks.
<1>1. RetryFits(retry)
  <2>1. CASE Chosen(t, tools, "retry") # NONE
    BY <2>1 DEF Chosen, ChosenRetry, PolicyFits
  <2>2. CASE Chosen(t, tools, "retry") = NONE
    <3>1. retry = [attempts |-> 1, backoff |-> NONE]
      BY <2>2 DEF ChosenRetry
    <3> QED BY <3>1 DEF RetryFits
  <2> QED BY <2>1, <2>2
<1>2. timeout # NONE => TimeoutFits(timeout)
  BY DEF Chosen, PolicyFits
\* The frozen record carries the winner's numbers, or a single attempt's zeros.
<1> DEFINE e == Frozen(t, tools)
           r == RetryInput(retry)
<1>3. e.retry = r /\ e.timeout = timeout
  BY DEF Frozen
<1>4. /\ r.attempts = retry.attempts
      /\ retry.backoff = NONE => r.first = 0 /\ r.ceiling = 0 /\ r.tenths = 10
      /\ retry.backoff # NONE => /\ r.first = retry.backoff.initial
                                 /\ r.ceiling = retry.backoff.max
                                 /\ r.tenths = retry.backoff.tenths
  BY DEF RetryInput
<1> HIDE DEF e, r, retry, timeout
<1>5. /\ r.attempts \in 1 .. 5
      /\ r.first \in 0 .. 15 * Minute
      /\ r.ceiling \in 0 .. 15 * Minute
      /\ r.tenths \in 10 .. 100
      /\ r.attempts = 1 => r.first = 0 /\ r.ceiling = 0
      /\ r.attempts # 1 => r.first >= 1 /\ r.ceiling >= r.first
  <2>1. CASE retry.backoff = NONE
    BY <1>1, <1>4, <2>1 DEF RetryFits, Minute
  <2>2. CASE retry.backoff # NONE
    <3>1. r.attempts \in 2 .. 5
      BY <1>1, <1>4, <2>2 DEF RetryFits
    <3>2. /\ r.first \in 1 .. 5 * Minute
          /\ r.ceiling \in r.first .. 15 * Minute
          /\ r.tenths \in 10 .. 100
      <4>1. BackoffFits(retry.backoff)
        BY <1>1, <2>2 DEF RetryFits
      <4>2. /\ r.first = retry.backoff.initial /\ r.ceiling = retry.backoff.max
            /\ r.tenths = retry.backoff.tenths
        BY <1>4, <2>2
      <4> QED BY <4>1, <4>2 DEF BackoffFits
    <3>3. 5 * Minute = 300 /\ 15 * Minute = 900
      BY DEF Minute
    <3> QED BY <3>1, <3>2, <3>3
  <2> QED BY <2>1, <2>2
<1> QED BY <1>2, <1>3, <1>5, Zenon DEF Executable, e

-----------------------------------------------------------------------------
(* The checks in their order. *)

TasksFit ==
    /\ Len(plan) <= MaxNodes /\ UniqueIds
    /\ \A t \in Range(plan) : TaskFits(t, deployed.allowed)
Upwards(x) == {y \in Ids(plan) : Reaches(x, y)}
RefsKnown == \A t \in Range(plan) : RefsFit(t, plan, Upwards(t.id))
Refusals == {"task", "dependency", "cycle", "reference"}

\* What each stage has established.
StageInv ==
    /\ plan \in Plans /\ deployed \in Deployments
    /\ stage \in {"tasks", "deps", "search", "refs", "freeze", "running", "done"}
    /\ stage \in {"tasks", "deps"} => Fresh
    /\ stage \in {"deps", "search", "refs", "freeze"} => TasksFit
    /\ stage \in {"search", "refs", "freeze"} => DepsKnown
    /\ stage = "search" => SearchInv
    /\ stage \in {"refs", "freeze"} => Grounded(Ids(plan))
    /\ stage = "freeze" => RefsKnown
    /\ stage \notin {"running", "done"} => verdict = "none"
    /\ stage = "running" => verdict = "accepted"
    /\ verdict \in Refusals => ~Sound
    /\ verdict = "cycle" => ClosedWalk(cycle)

LEMMA GraphClosed ==
    ASSUME plan \in Plans, DepsKnown PROVE Closed(Ids(plan))
  BY KidsTyped DEF Closed

\* The checks together are what Sound says of a plan.
LEMMA SoundIsChecked ==
    ASSUME plan \in Plans, TasksFit, DepsKnown, Grounded(Ids(plan)), RefsKnown PROVE Sound
<1>1. \A x \in Ids(plan) : ~Reaches(x, x)
  BY GraphClosed, GroundedIsAcyclic
<1> QED BY <1>1 DEF Sound, TasksFit, UniqueIds, DepsKnown, RefsKnown, Upwards

LEMMA VerdictFollows == StageInv => VerdictIsExact
<1> SUFFICES ASSUME StageInv PROVE VerdictIsExact
  OBVIOUS
<1>1. stage = "freeze" => Sound
  BY SoundIsChecked DEF StageInv
<1>2. CycleIsReal
  BY DEF StageInv, CycleIsReal, ClosedWalk
<1>3. stage = "search" /\ stack # <<>> /\ Next_ = 0 => color[Node] # "black"
  BY DEF StageInv, SearchInv, PathInv, Entering
<1> QED BY <1>1, <1>2, <1>3 DEF VerdictIsExact, StageInv, Refusals

\* Nothing that is said of the plan changes with the search or the stage.
LEMMA SamePlan ==
    ASSUME plan' = plan
    PROVE  /\ Ids(plan)' = Ids(plan) /\ DepsKnown' = DepsKnown /\ RefsKnown' = RefsKnown
           /\ Grounded(Ids(plan))' = Grounded(Ids(plan))
           /\ deployed' = deployed => TasksFit' = TasksFit /\ Sound' = Sound
           /\ cycle' = cycle => ClosedWalk(cycle)' = ClosedWalk(cycle)
<1>1. /\ Ids(plan)' = Ids(plan) /\ \A x : Deps(x)' = Deps(x)
  BY DEF Ids, Deps, TaskOf
<1>2. \A x, y : Reaches(x, y)' = Reaches(x, y)
  BY <1>1 DEF Reaches
<1>3. DepsKnown' = DepsKnown
  BY DEF DepsKnown
<1>4. \A x : Upwards(x)' = Upwards(x)
  BY <1>1, <1>2 DEF Upwards
<1>5. RefsKnown' = RefsKnown
  BY <1>4 DEF RefsKnown
<1>6. Grounded(Ids(plan))' = Grounded(Ids(plan))
  BY <1>1 DEF Grounded
<1>7. deployed' = deployed => TasksFit' = TasksFit
  BY DEF TasksFit, UniqueIds
<1>8. deployed' = deployed => Sound' = Sound
  BY <1>1, <1>2 DEF Sound
<1>9. cycle' = cycle => ClosedWalk(cycle)' = ClosedWalk(cycle)
  BY <1>1 DEF ClosedWalk
<1> QED BY <1>1, <1>3, <1>5, <1>6, <1>7, <1>8, <1>9

LEMMA StageInit == Init => StageInv
  BY DEF Init, StageInv, Fresh, Refusals

\* A step that only moves the stage, or refuses the plan.
LEMMA StageMoves ==
    ASSUME StageInv, UNCHANGED <<plan, deployed, cycle, search>>,
           \/ /\ stage' = "done" /\ verdict' # "cycle"
              /\ verdict' \in Refusals => ~Sound
           \/ /\ stage' = "deps" /\ verdict' = verdict /\ stage = "tasks" /\ TasksFit
           \/ /\ stage' = "search" /\ verdict' = verdict /\ stage = "deps" /\ DepsKnown
           \/ /\ stage' = "refs" /\ verdict' = verdict /\ stage = "search" /\ Grounded(Ids(plan))
           \/ /\ stage' = "freeze" /\ verdict' = verdict /\ stage = "refs" /\ RefsKnown
           \/ /\ stage' = "running" /\ verdict' = "accepted"
    PROVE  StageInv'
<1>1. /\ Ids(plan)' = Ids(plan) /\ DepsKnown' = DepsKnown /\ RefsKnown' = RefsKnown
      /\ Grounded(Ids(plan))' = Grounded(Ids(plan))
      /\ TasksFit' = TasksFit /\ Sound' = Sound
      /\ ClosedWalk(cycle)' = ClosedWalk(cycle)
  BY SamePlan
<1>2. Fresh' = Fresh
  BY <1>1 DEF Fresh, search
<1>3. stage' = "search" => SearchInv'
  <2>1. ASSUME stage' = "search" PROVE SearchInv'
    <3>1. Fresh'
      BY <1>2, <2>1 DEF StageInv
    <3> QED BY <3>1, SearchStarts, PTL
  <2> QED BY <2>1
<1> QED BY <1>1, <1>2, <1>3 DEF StageInv, Refusals

LEMMA CheckTasksStage ==
    ASSUME StageInv, CheckTasks PROVE StageInv'
<1> DEFINE Holds == /\ Len(plan) <= MaxNodes
                    /\ \A i \in DOMAIN plan :
                           TaskFits(plan[i], deployed.allowed) /\ FreshId(plan, i)
<1>1. /\ stage = "tasks" /\ UNCHANGED <<plan, deployed, cycle, search>>
      /\ Holds => stage' = "deps" /\ verdict' = verdict
      /\ ~Holds => stage' = "done" /\ verdict' = "task"
  BY DEF CheckTasks, Check, Reject
<1>2. DOMAIN plan = 1 .. Len(plan) /\ Len(plan) \in Nat
  BY PlanTyped DEF StageInv
<1>3. Holds => TasksFit
  <2>1. ASSUME Holds, NEW i \in DOMAIN plan, NEW j \in DOMAIN plan, plan[i].id = plan[j].id, i < j
        PROVE  FALSE
    BY <1>2, <2>1 DEF FreshId
  <2>2. ASSUME Holds PROVE UniqueIds
    BY <1>2, <2>1, <2>2 DEF UniqueIds
  <2> QED BY <2>2 DEF TasksFit, Range
<1>4. Sound => Holds
  <2>1. ASSUME Sound, NEW i \in DOMAIN plan PROVE FreshId(plan, i)
    <3>1. ASSUME NEW j \in 1 .. i - 1 PROVE plan[j].id # plan[i].id
      <4>1. j \in DOMAIN plan /\ j # i
        BY <1>2
      <4> QED BY <2>1, <4>1 DEF Sound
    <3> QED BY <3>1 DEF FreshId
  <2> QED BY <2>1 DEF Sound, Range
<1> HIDE DEF Holds
<1> QED BY <1>1, <1>3, <1>4, StageMoves

LEMMA CheckDepsStage ==
    ASSUME StageInv, CheckDeps PROVE StageInv'
<1> DEFINE Holds == \A i \in DOMAIN plan : DepsFit(plan, plan[i])
<1>1. /\ stage = "deps" /\ UNCHANGED <<plan, deployed, cycle, search>>
      /\ Holds => stage' = "search" /\ verdict' = verdict
      /\ ~Holds => stage' = "done" /\ verdict' = "dependency"
  BY DEF CheckDeps, Check, Reject
<1>2. (Holds => DepsKnown) /\ (Sound => Holds)
  BY DEF DepsKnown, Sound, Range
<1> HIDE DEF Holds
<1> QED BY <1>1, <1>2, StageMoves

LEMMA CheckRefsStage ==
    ASSUME StageInv, CheckRefs PROVE StageInv'
<1> DEFINE up == Upstream(plan)
           Holds == \A i \in DOMAIN plan : RefsFit(plan[i], plan, up[plan[i].id])
<1>1. /\ stage = "refs" /\ UNCHANGED <<plan, deployed, cycle, search>>
      /\ Holds => stage' = "freeze" /\ verdict' = verdict
      /\ ~Holds => stage' = "done" /\ verdict' = "reference"
  BY DEF CheckRefs, Check, Reject
<1>2. \A i \in DOMAIN plan : up[plan[i].id] = Upwards(plan[i].id)
  <2>1. Closed(Ids(plan)) /\ Grounded(Ids(plan))
    BY <1>1, GraphClosed DEF StageInv
  <2>2. \A i \in DOMAIN plan : plan[i].id \in Ids(plan)
    BY DEF Ids
  <2> QED BY <2>1, <2>2, UpstreamIsReach DEF Upwards
<1> HIDE DEF up
<1>3. Holds <=> RefsKnown
  BY <1>2 DEF RefsKnown, Range
<1>4. Sound => RefsKnown
  BY DEF RefsKnown, Sound, Upwards
<1> HIDE DEF Holds
<1> QED BY <1>1, <1>3, <1>4, StageMoves

LEMMA SearchStage ==
    ASSUME StageInv, Search PROVE StageInv'
<1>1. /\ stage = "search" /\ plan \in Plans /\ DepsKnown /\ SearchInv
      /\ plan' = plan /\ deployed' = deployed
  BY DEF StageInv, Search, SearchFrom, FindCycle, Expand, Reject
<1>2. ASSUME SearchInv', stage' = stage, verdict' = verdict, cycle' = cycle PROVE StageInv'
  <2>1. DepsKnown' = DepsKnown /\ TasksFit' = TasksFit /\ Sound' = Sound
        /\ ClosedWalk(cycle)' = ClosedWalk(cycle)
    BY <1>1, <1>2, SamePlan
  <2> QED BY <1>1, <1>2, <2>1 DEF StageInv, Refusals
<1>3. CASE SearchFrom
  <2>1. CASE Whites = {}
    <3>1. /\ stage' = "refs" /\ verdict' = verdict /\ stack = <<>>
          /\ UNCHANGED <<plan, deployed, cycle, search>>
      BY <1>3, <2>1 DEF SearchFrom, search
    <3> QED BY <1>1, <2>1, <3>1, SearchEnds, StageMoves
  <2>2. CASE Whites # {}
    <3> DEFINE root == plan[Min(Whites)].id
    <3>1. /\ stack = <<>> /\ stack' = Append(<<>>, [node |-> root, next |-> 0])
          /\ UNCHANGED <<plan, color, path, parent, stage, verdict, cycle>>
      BY <1>3, <2>2 DEF SearchFrom, Push
    <3>2. root = plan[Min(Whites)].id
      OBVIOUS
    <3> HIDE DEF root
    <3>3. stack' = <<[node |-> root, next |-> 0]>>
      BY <3>1
    <3>4. SearchInv'
      BY <1>1, <2>2, <3>1, <3>2, <3>3, SearchRoot
    <3> QED BY <1>2, <3>1, <3>4
  <2> QED BY <2>1, <2>2
<1>4. CASE FindCycle
  <2>1. /\ stack # <<>> /\ Next_ = 0 /\ color[Node] = "gray" /\ cycle' = ClosedAt
        /\ stage' = "done" /\ verdict' = "cycle"
    BY <1>4 DEF FindCycle, Reject
  <2>2. ClosedWalk(cycle') /\ Node \in Ids(plan) /\ Reaches(Node, Node)
    BY <1>1, <2>1, CycleFound
  <2>3. ~Sound'
    <3>1. ~Sound
      BY <2>2 DEF Sound
    <3> QED BY <1>1, <3>1, SamePlan
  <2>4. ClosedWalk(cycle)'
    <3>1. \A x : Deps(x)' = Deps(x)
      BY <1>1 DEF Deps, TaskOf
    <3> QED BY <2>2, <3>1 DEF ClosedWalk
  <2> QED BY <1>1, <2>1, <2>3, <2>4 DEF StageInv
<1>5. CASE Expand
  <2>1. SearchInv'
    BY <1>1, <1>5, ExpandKeepsSearch
  <2>2. stage' = stage /\ verdict' = verdict /\ cycle' = cycle
    BY <1>5 DEF Expand
  <2> QED BY <1>2, <2>1, <2>2
<1> QED BY <1>3, <1>4, <1>5 DEF Search

LEMMA FreezeStage ==
    ASSUME StageInv, Freeze PROVE StageInv'
<1>1. /\ UNCHANGED <<plan, deployed, cycle, search>>
      /\ \/ stage' = "running" /\ verdict' = "accepted"
         \/ stage' = "done" /\ verdict' = "schedule"
  BY DEF Freeze, Reject
<1> QED BY <1>1, StageMoves DEF Refusals

LEMMA StageNext == StageInv /\ DispatchedFromPayload /\ [Next]_vars => StageInv'
<1> SUFFICES ASSUME StageInv, DispatchedFromPayload, [Next]_vars PROVE StageInv'
  OBVIOUS
\* While the plan runs only the deployment matters, and the verdict is given.
<1>1. ASSUME stage = "running", deployed' \in Deployments,
             UNCHANGED <<plan, stage, verdict, cycle>>
      PROVE  StageInv'
  BY <1>1 DEF StageInv, Refusals
<1>2. ASSUME NEW id \in Ids(plan), Dispatch(id) PROVE StageInv'
  BY <1>1, <1>2 DEF Dispatch, StageInv
<1>3. ASSUME NEW d \in dispatched, ActivityRuns(d) PROVE StageInv'
  BY <1>1, <1>3 DEF ActivityRuns, StageInv, DispatchedFromPayload
<1>4. CASE Redeploy
  BY <1>1, <1>4 DEF Redeploy
<1>5. CASE Validate
  BY <1>5, CheckTasksStage, CheckDepsStage, SearchStage, CheckRefsStage, FreezeStage DEF Validate
<1>6. CASE UNCHANGED vars
  <2>1. UNCHANGED <<plan, deployed, cycle, search, stage, verdict>>
    BY <1>6 DEF vars
  <2>2. /\ Ids(plan)' = Ids(plan) /\ DepsKnown' = DepsKnown /\ RefsKnown' = RefsKnown
        /\ Grounded(Ids(plan))' = Grounded(Ids(plan))
        /\ TasksFit' = TasksFit /\ Sound' = Sound
        /\ ClosedWalk(cycle)' = ClosedWalk(cycle)
    BY <2>1, SamePlan
  <2>3. Fresh' = Fresh
    BY <2>1, <2>2 DEF Fresh, search
  <2>4. SearchInv' = SearchInv
    BY <2>1 DEF search, SearchInv, SearchTyped, Entry, Ids, PathInv, Entering, Next_, Node, Last,
         KidsInv, KidsOf, Kids, TaskOf, ParentInv, ParentOf, BlackInv, Black, Grounded, Closed, Deps
  <2> QED BY <2>1, <2>2, <2>3, <2>4 DEF StageInv, Refusals
<1> QED BY <1>2, <1>3, <1>4, <1>5, <1>6 DEF Next

\* A plan refused by a check is not sound, one whose policies are to be frozen is,
\* the cycle reported is a closed walk along depends_on, and the search enters no task
\* it has left (schema.py:587-944): the run shows it on every graph of four tasks, the
\* theorem for every plan.
THEOREM VerdictsAreExact == Spec => []VerdictIsExact
<1>1. Init => StageInv /\ DispatchedFromPayload
  BY StageInit, DispatchedInit
<1>2. StageInv /\ DispatchedFromPayload /\ [Next]_vars => (StageInv /\ DispatchedFromPayload)'
  BY StageNext, DispatchedNext
<1> QED BY <1>1, <1>2, VerdictFollows, PTL DEF Spec

-----------------------------------------------------------------------------
(* The run of an accepted plan. *)

\* What submission has established and the run relies on, whatever is deployed.
Submitted ==
    /\ DepsKnown /\ RefsKnown
    /\ \A t \in Range(plan) :
           /\ t.type \in {"tool", "wait", "sub_agent"}
           /\ "until" \in t.fields => UntilFits(t)
    /\ \A id \in Ids(plan) : payload[id] # NONE => Executable(payload[id])

\* Until the app is deployed again every target is allowed and nothing fails.
BeforeRedeploy ==
    /\ clock = 0
    /\ failed = {}
    /\ \A t \in Range(plan) : t.type # "wait" => Authorized(t)

\* What has a result, or was dispatched to get one, had its dependencies' results.
Progress ==
    /\ results \subseteq Ids(plan) /\ Closed(results)
    /\ \A d \in dispatched : d.task \in Ids(plan) /\ Deps(d.task) \subseteq results

RunInv ==
    /\ stage # "running" => clock = 0 /\ results = {} /\ dispatched = {} /\ failed = {}
    /\ stage = "running" => /\ Submitted /\ Progress
                            /\ BeforeRedeploy \/ (clock = 1 /\ RecheckAgrees)

LEMMA RunInit == Init => RunInv
  BY DEF Init, RunInv

LEMMA RunFollows == RunInv => RecheckAgrees
  BY DEF RunInv, BeforeRedeploy, RecheckAgrees

\* A task that passed the checks is one the run knows how to treat.
LEMMA TaskIsSubmitted ==
    ASSUME NEW allowed, NEW t, TaskFits(t, allowed)
    PROVE  /\ t.type \in {"tool", "wait", "sub_agent"}
           /\ "until" \in t.fields => UntilFits(t)
           /\ t.type # "wait" => <<t.type, t.target>> \in allowed
           /\ "execution" \in t.fields => PolicyFits(t.policy)
<1>1. t.type \in {"tool", "wait", "sub_agent"} /\ t.fields \subseteq Permitted[t.type]
  BY DEF TaskFits, Required
<1>2. ASSUME "until" \in t.fields PROVE t.type = "wait"
  <2>1. "until" \notin Permitted["tool"] /\ "until" \notin Permitted["sub_agent"]
    BY DEF Permitted
  <2> QED BY <1>1, <1>2, <2>1
<1> QED BY <1>1, <1>2 DEF TaskFits, WaitFits, TargetFits

\* What is frozen for it, the Activity accepts.
LEMMA FrozenIsExecutable ==
    ASSUME StageInv, TasksFit, NEW t \in Range(plan), Frozen(t, deployed.tools) # NONE
    PROVE  Executable(Frozen(t, deployed.tools))
<1>1. HasPolicy(t, deployed.tools)
  BY DEF Frozen
<1>2. TaskFits(t, deployed.allowed) /\ deployed \in Deployments /\ plan \in Plans
  BY DEF TasksFit, StageInv
<1>3. t.policy # NONE => PolicyFits(t.policy)
  BY <1>2, PlanTyped, TaskIsSubmitted
<1>4. ASSUME Declared(t, deployed.tools) # NONE
      PROVE  LET own == Declared(t, deployed.tools)
             IN  /\ own.retry # NONE => RetryFits(own.retry)
                 /\ own.timeout # NONE => TimeoutFits(own.timeout)
  <2>1. t.type = "tool" /\ Declared(t, deployed.tools) = deployed.tools[t.target]
    BY <1>4 DEF Declared
  <2>2. <<t.type, t.target>> \in deployed.allowed
    BY <1>2, <2>1, TaskIsSubmitted
  <2>3. t.target \in DOMAIN deployed.tools
    <3>1. \A pair \in deployed.allowed : pair[1] = "tool" => pair[2] \in DOMAIN deployed.tools
      BY <1>2, DeploymentsAssumption
    <3> QED BY <2>1, <2>2, <3>1
  <2> QED BY <1>2, <1>4, <2>1, <2>3, DeploymentsAssumption
<1> QED BY <1>1, <1>3, <1>4, FrozenPolicyExecutes

LEMMA RunStarts ==
    ASSUME StageInv, RunInv, Freeze PROVE RunInv'
<1>1. /\ stage = "freeze" /\ UNCHANGED <<plan, deployed, running>>
      /\ clock = 0 /\ results = {} /\ dispatched = {} /\ failed = {}
      /\ TasksFit /\ DepsKnown /\ RefsKnown
  BY DEF Freeze, Reject, RunInv, StageInv
<1>2. clock' = 0 /\ results' = {} /\ dispatched' = {} /\ failed' = {}
  BY <1>1 DEF running
<1>3. CASE stage' # "running"
  BY <1>2, <1>3 DEF RunInv
<1>4. CASE stage' = "running"
  <2>1. payload' = [id \in Ids(plan) |-> Frozen(TaskOf(plan, id), deployed.tools)]
    BY <1>4 DEF Freeze, Reject
  <2>2. \A id \in Ids(plan) : payload'[id] # NONE => Executable(payload'[id])
    BY <1>1, <2>1, TaskFound, FrozenIsExecutable
  <2>3. \A t \in Range(plan) : /\ t.type \in {"tool", "wait", "sub_agent"}
                               /\ "until" \in t.fields => UntilFits(t)
                               /\ t.type # "wait" => <<t.type, t.target>> \in deployed.allowed
    BY <1>1, TaskIsSubmitted DEF TasksFit
  <2>4. DepsKnown' /\ RefsKnown' /\ Ids(plan)' = Ids(plan)
    BY <1>1, SamePlan
  <2>5. Submitted'
    BY <1>1, <2>2, <2>3, <2>4 DEF Submitted
  <2>6. Progress'
    BY <1>2 DEF Progress, Closed
  <2>7. BeforeRedeploy'
    BY <1>1, <1>2, <2>3 DEF BeforeRedeploy, Authorized
  <2> QED BY <1>4, <2>5, <2>6, <2>7 DEF RunInv
<1> QED BY <1>3, <1>4

\* With the results of a task's dependencies, all it reaches has a result.
LEMMA ReachHasResults ==
    ASSUME Progress, NEW x, Deps(x) \subseteq results PROVE Upwards(x) \subseteq results
  BY DEF Progress, Closed, Upwards, Reaches

LEMMA ReferencesResolve ==
    ASSUME NEW t, NEW up, NEW done, RefsFit(t, plan, up), up \subseteq done
    PROVE  Resolves(t, done)
<1> DEFINE bound == t.each # NONE
<1>1. ASSUME NEW ref, RefFits(t, ref, plan, up) PROVE Resolve(ref, done, bound) = "value"
  <2>1. CASE Local(ref) /\ t.each # NONE
    BY <2>1 DEF Resolve
  <2>2. CASE Named(ref) /\ NodeOf(ref) \in Ids(plan) /\ NodeOf(ref) \in up
    BY <2>2 DEF Resolve
  <2> QED BY <1>1, <2>1, <2>2 DEF RefFits
<1>2. ASSUME bound PROVE Resolve(t.each, done, FALSE) = "value"
  BY <1>2 DEF RefsFit, EachFits, Resolve
<1> QED BY <1>1, <1>2 DEF RefsFit, WhenFits, Resolves

LEMMA DispatchRun ==
    ASSUME StageInv, RunInv, NEW id \in Ids(plan), Dispatch(id) PROVE RunInv'
<1> DEFINE t == TaskOf(plan, id)
<1>1. /\ stage = "running" /\ Deps(id) \subseteq results
      /\ UNCHANGED <<plan, stage, deployed, payload, clock, results>>
  BY DEF Dispatch, Deps
<1>2. Submitted /\ Progress /\ (BeforeRedeploy \/ (clock = 1 /\ RecheckAgrees))
  BY <1>1 DEF RunInv
<1>3. t \in Range(plan) /\ t.id = id
  BY TaskFound
<1>4. WaitHolds(t, clock)
  <2>1. ASSUME "until" \in t.fields PROVE t.wait - clock <= MaxWait
    <3>1. t.wait # NONE /\ t.wait <= MaxWait
      BY <1>2, <1>3, <2>1 DEF Submitted, UntilFits
    <3>2. t.wait \in Int
      BY <1>3, <3>1, PlanTyped DEF StageInv
    <3>3. clock \in {0, 1}
      BY <1>2 DEF BeforeRedeploy
    <3> QED BY <3>1, <3>2, <3>3 DEF MaxWait
  <2> QED BY <2>1 DEF WaitHolds
<1>5. Resolves(t, results)
  <2>1. RefsFit(t, plan, Upwards(id))
    BY <1>2, <1>3 DEF Submitted, RefsKnown
  <2>2. Upwards(id) \subseteq results
    BY <1>1, <1>2, ReachHasResults
  <2> QED BY <2>1, <2>2, ReferencesResolve
<1>6. /\ failed' = failed
      /\ dispatched' = dispatched \cup {[task |-> id, policy |-> PersistedExecution(id),
                                         dynamic |-> IsDynamic(plan)]}
  BY <1>4, <1>5 DEF Dispatch
<1> HIDE DEF t
<1>7. Ids(plan)' = Ids(plan) /\ \A x : Deps(x)' = Deps(x)
  BY <1>1 DEF Ids, Deps, TaskOf
<1>8. Submitted'
  <2>1. DepsKnown' = DepsKnown /\ RefsKnown' = RefsKnown
    BY <1>1, SamePlan
  <2> QED BY <1>1, <1>2, <1>7, <2>1 DEF Submitted
<1>9. Progress'
  BY <1>1, <1>2, <1>6, <1>7 DEF Progress, Closed
<1>10. BeforeRedeploy' \/ (clock' = 1 /\ RecheckAgrees')
  BY <1>1, <1>2, <1>6 DEF BeforeRedeploy, RecheckAgrees, Authorized, TaskOf
<1> QED BY <1>1, <1>8, <1>9, <1>10 DEF RunInv

LEMMA ActivityRun ==
    ASSUME StageInv, RunInv, DispatchedFromPayload, NEW d \in dispatched, ActivityRuns(d)
    PROVE  RunInv'
<1> DEFINE t == TaskOf(plan, d.task)
<1>1. /\ stage = "running" /\ d.policy = payload[d.task]
      /\ UNCHANGED <<plan, stage, deployed, payload, clock, dispatched>>
  BY DEF ActivityRuns, DispatchedFromPayload
<1>2. Submitted /\ Progress /\ (BeforeRedeploy \/ (clock = 1 /\ RecheckAgrees))
  BY <1>1 DEF RunInv
<1>3. d.task \in Ids(plan) /\ Deps(d.task) \subseteq results /\ t \in Range(plan)
  BY <1>2, TaskFound DEF Progress
<1>4. d.policy # NONE => Executable(d.policy)
  BY <1>1, <1>2, <1>3 DEF Submitted
<1>5. \/ results' = results \cup {d.task} /\ failed' = failed
      \/ /\ results' = results /\ failed' = failed \cup {d.task}
         /\ t.type # "wait" /\ ~Authorized(t)
  BY <1>4 DEF ActivityRuns
<1> HIDE DEF t
<1>6. Ids(plan)' = Ids(plan) /\ \A x : Deps(x)' = Deps(x)
  BY <1>1 DEF Ids, Deps, TaskOf
<1>7. Submitted'
  <2>1. DepsKnown' = DepsKnown /\ RefsKnown' = RefsKnown
    BY <1>1, SamePlan
  <2> QED BY <1>1, <1>2, <1>6, <2>1 DEF Submitted
<1>8. Progress'
  BY <1>1, <1>2, <1>3, <1>5, <1>6 DEF Progress, Closed
<1>9. BeforeRedeploy' \/ (clock' = 1 /\ RecheckAgrees')
  <2>1. CASE failed' = failed
    BY <1>1, <1>2, <2>1 DEF BeforeRedeploy, RecheckAgrees, Authorized, TaskOf
  <2>2. CASE failed' = failed \cup {d.task} /\ t.type # "wait" /\ ~Authorized(t)
    <3>1. clock = 1 /\ RecheckAgrees
      BY <1>2, <1>3, <2>2 DEF BeforeRedeploy
    <3>2. \A id \in failed' : TaskOf(plan, id).type # "wait" /\ ~Authorized(TaskOf(plan, id))
      BY <2>2, <3>1 DEF RecheckAgrees, t
    <3> QED BY <1>1, <3>1, <3>2 DEF RecheckAgrees, Authorized
  <2> QED BY <1>5, <2>1, <2>2
<1> QED BY <1>1, <1>7, <1>8, <1>9 DEF RunInv

LEMMA RunNext == StageInv /\ RunInv /\ DispatchedFromPayload /\ [Next]_vars => RunInv'
<1> SUFFICES ASSUME StageInv, RunInv, DispatchedFromPayload, [Next]_vars PROVE RunInv'
  OBVIOUS
<1>1. ASSUME stage # "running", stage' # "running", UNCHANGED running PROVE RunInv'
  BY <1>1 DEF RunInv, running
<1>2. CASE CheckTasks \/ CheckDeps \/ Search \/ CheckRefs
  <2>1. stage # "running" /\ stage' # "running" /\ UNCHANGED running
    BY <1>2 DEF CheckTasks, CheckDeps, CheckRefs, Check, Reject, Search, SearchFrom, FindCycle,
         Expand
  <2> QED BY <1>1, <2>1
<1>3. CASE Freeze
  BY <1>3, RunStarts
<1>4. ASSUME NEW id \in Ids(plan), Dispatch(id) PROVE RunInv'
  BY <1>4, DispatchRun
<1>5. ASSUME NEW d \in dispatched, ActivityRuns(d) PROVE RunInv'
  BY <1>5, ActivityRun
<1>6. ASSUME stage = "running", UNCHANGED <<plan, stage, payload, results, dispatched, failed>>,
             BeforeRedeploy' \/ (clock' = 1 /\ RecheckAgrees')
      PROVE  RunInv'
  <2>1. Submitted /\ Progress
    BY <1>6 DEF RunInv
  <2>2. /\ Ids(plan)' = Ids(plan) /\ DepsKnown' = DepsKnown /\ RefsKnown' = RefsKnown
        /\ \A x : Deps(x)' = Deps(x)
    BY <1>6, SamePlan DEF Deps, TaskOf
  <2>3. Submitted'
    BY <1>6, <2>1, <2>2 DEF Submitted
  <2>4. Progress'
    BY <1>6, <2>1, <2>2 DEF Progress, Closed
  <2> QED BY <1>6, <2>3, <2>4 DEF RunInv
<1>7. CASE Redeploy
  <2>1. /\ stage = "running" /\ clock = 0 /\ clock' = 1
        /\ UNCHANGED <<plan, stage, payload, results, dispatched, failed>>
    BY <1>7 DEF Redeploy
  <2>2. failed = {}
    BY <2>1 DEF RunInv, BeforeRedeploy
  <2>3. RecheckAgrees'
    BY <2>1, <2>2 DEF RecheckAgrees
  <2> QED BY <1>6, <2>1, <2>3
<1>8. CASE UNCHANGED vars
  <2>1. UNCHANGED <<plan, stage, payload, deployed, running>>
    BY <1>8 DEF vars
  <2>2. CASE stage # "running"
    BY <1>1, <2>1, <2>2
  <2>3. CASE stage = "running"
    <3>1. BeforeRedeploy' \/ (clock' = 1 /\ RecheckAgrees')
      BY <2>1, <2>3 DEF RunInv, BeforeRedeploy, RecheckAgrees, Authorized, running
    <3> QED BY <1>6, <2>1, <2>3, <3>1 DEF running
  <2> QED BY <2>2, <2>3
<1> QED BY <1>2, <1>3, <1>4, <1>5, <1>7, <1>8 DEF Next, Validate

\* Of an accepted plan no task is refused for its wait, its references or its frozen
\* policy, whatever is deployed while it runs (engine.py:159-183, activity.py:72-125).
THEOREM RechecksAgree == Spec => []RecheckAgrees
<1>1. Init => StageInv /\ DispatchedFromPayload /\ RunInv
  BY StageInit, DispatchedInit, RunInit
<1>2. StageInv /\ DispatchedFromPayload /\ RunInv /\ [Next]_vars
          => (StageInv /\ DispatchedFromPayload /\ RunInv)'
  BY StageNext, DispatchedNext, RunNext
<1> QED BY <1>1, <1>2, RunFollows, PTL DEF Spec
=============================================================================
