---------------------------- MODULE KernelProofs ----------------------------
(***************************************************************************)
(* What the kernel decides while a product runs: which effects a chain of  *)
(* callers may still have (EffectScope), and what a wave makes of a        *)
(* dataflow graph (GraphWave).                                             *)
(***************************************************************************)
EXTENDS EffectScope, FiniteSetTheorems, FunctionTheorems, SequenceTheorems,
        WellFoundedInduction, TLAPS

-----------------------------------------------------------------------------
(***************************************************************************)
(* Effects stay within what the whole chain of callers allows, for every   *)
(* set of plugins, operations and prepared compositions.                   *)
(*                                                                         *)
(* A scope is computed once, when a call is made, from the scope of the    *)
(* frame on top; from then on frames and tickets only copy it.  So it is   *)
(* enough that one computation keeps the bounds of the scope it starts     *)
(* from and adds those of the new hop, and that nothing else touches a     *)
(* scope: the invariant says so of every frame and of every ticket.        *)
(***************************************************************************)

ResourceKept(r, hops) ==
    /\ policy.resource # NoResource => r = policy.resource
    /\ \A h \in hops : h.asked.resource # NoResource => r = h.asked.resource

(* Frames and tickets alike. *)
Good(z) == Within(z.scope.authority, z.hops) /\ ResourceKept(z.scope.resource, z.hops)

Lawful == EffectsArePermitted /\ CellsNeedTheirResource /\ WorkKeepsItsResource

FramesAreGood == \A i \in DOMAIN stack : Good(stack[i])

TicketsAreGood == \A t \in DOMAIN tickets : Good(tickets[t])

IInv == /\ TypeOK
        /\ FramesAreGood
        /\ TicketsAreGood
        /\ Lawful

----------------------------------------------------------------------------
(* The prepared composition has its shape. *)
LEMMA PolicyShape ==
    ASSUME TypeOK
    PROVE  /\ policy \in Policy
           /\ policy.authority \in Authority
           /\ policy.resource \in Resources \cup {NoResource}
  <1>1. policy \in Policy
    BY PoliciesAssumption DEF TypeOK
  <1> QED BY <1>1 DEF Policy

LEMMA EverythingIsAScope == Everything \in Scope
    BY DEF Everything, Scope, Authority

LEMMA RequestShape ==
    ASSUME TypeOK, NEW asked \in Requests \cup {Everything} \cup root
    PROVE  asked \in Scope
    BY RequestsAssumption, EverythingIsAScope DEF TypeOK

(* The frame on top. *)
LEMMA TopShape ==
    ASSUME TypeOK, stack # <<>>
    PROVE  Top \in Frame /\ Len(stack) \in DOMAIN stack
  <1>1. Len(stack) \in 1..Len(stack) /\ stack \in Seq(Frame)
    BY DEF TypeOK
  <1> QED BY <1>1 DEF Top

(* What a call starts from has the bounds of the hops it comes after. *)
LEMMA InheritedIsGood ==
    ASSUME IInv
    PROVE  /\ Inherited \in Scope
           /\ HopsSoFar \subseteq Hop
           /\ Within(Inherited.authority, HopsSoFar)
           /\ ResourceKept(Inherited.resource, HopsSoFar)
  <1>1. CASE stack = <<>>
    BY <1>1, PolicyShape DEF IInv, FramesAreGood, Inherited, HopsSoFar, Within, ResourceKept, Scope
  <1>2. CASE stack # <<>>
    <2>1. Top \in Frame /\ Good(Top)
      BY <1>2, TopShape DEF IInv, FramesAreGood, Top
    <2> QED BY <1>2, <2>1 DEF Inherited, HopsSoFar, Good, Frame
  <1> QED BY <1>1, <1>2

(* effect_scope keeps the bounds of what it starts from and adds its own. *)
LEMMA NewScopeIsGood ==
    ASSUME IInv, NEW caller \in Principals, NEW key \in Keys, NEW asked \in Scope,
           Allowed(caller, Home[key], key, asked)
    PROVE  LET s == ScopeFor(caller, Home[key], key, asked)
               hops == HopsSoFar \cup {HopFor(caller, key, asked)}
           IN  /\ s \in Scope
               /\ hops \subseteq Hop
               /\ Within(s.authority, hops)
               /\ ResourceKept(s.resource, hops)
               /\ <<caller, key>> \in policy.granted
               /\ key \in policy.authority.operations
               /\ \A h \in hops : /\ Permits(h.provider, key)
                                  /\ key \in h.asked.authority.operations
  <1> DEFINE s == ScopeFor(caller, Home[key], key, asked)
             new == HopFor(caller, key, asked)
             hops == HopsSoFar \cup {new}
             both == Intersect(Inherited.authority, asked.authority)
  <1>1. /\ Inherited \in Scope
        /\ HopsSoFar \subseteq Hop
        /\ Within(Inherited.authority, HopsSoFar)
        /\ ResourceKept(Inherited.resource, HopsSoFar)
    BY InheritedIsGood
  <1>2. /\ both.operations = Inherited.authority.operations \cap asked.authority.operations
        /\ both.resources = Inherited.authority.resources \cap asked.authority.resources
    BY DEF Intersect
  <1>3. /\ s.authority.operations = {op \in both.operations : Permits(Home[key], op)}
        /\ s.authority.resources = both.resources \cap policy.grants[<<caller, key>>]
        /\ s.resource = ResourceFor(Inherited.resource, asked.resource)
        /\ s = [authority |-> [operations |-> {op \in both.operations : Permits(Home[key], op)},
                               resources |-> both.resources \cap policy.grants[<<caller, key>>]],
                resource |-> ResourceFor(Inherited.resource, asked.resource)]
    BY DEF ScopeFor, Narrowed, Retain
  <1>4. new \in Hop /\ new.provider = Home[key] /\ new.asked = asked
          /\ new.caller = caller /\ new.key = key
    BY KeysAssumption DEF HopFor, Hop
  <1>5. s \in Scope
    <2>1. Inherited.authority \in Authority /\ asked.authority \in Authority
            /\ Inherited.resource \in Resources \cup {NoResource}
            /\ asked.resource \in Resources \cup {NoResource}
      BY <1>1 DEF Scope
    <2>2. ResourceFor(Inherited.resource, asked.resource) \in Resources \cup {NoResource}
      BY <2>1 DEF ResourceFor
    <2>3. {op \in both.operations : Permits(Home[key], op)} \subseteq Keys
            /\ both.resources \cap policy.grants[<<caller, key>>] \subseteq Resources
      BY <1>2, <2>1 DEF Authority
    <2> QED BY <1>3, <2>2, <2>3 DEF Scope, Authority
  <1>6. Within(s.authority, hops)
    <2>1. /\ s.authority.operations \subseteq policy.authority.operations
          /\ s.authority.resources \subseteq policy.authority.resources
      BY <1>1, <1>2, <1>3 DEF Within
    <2>2. ASSUME NEW h \in HopsSoFar
          PROVE  /\ s.authority.operations \subseteq policy.ceilings[h.provider]
                 /\ s.authority.operations \subseteq h.asked.authority.operations
                 /\ s.authority.resources \subseteq policy.grants[<<h.caller, h.key>>]
                 /\ s.authority.resources \subseteq h.asked.authority.resources
      BY <1>1, <1>2, <1>3 DEF Within
    <2>3. /\ s.authority.operations \subseteq policy.ceilings[new.provider]
          /\ s.authority.operations \subseteq new.asked.authority.operations
          /\ s.authority.resources \subseteq policy.grants[<<new.caller, new.key>>]
          /\ s.authority.resources \subseteq new.asked.authority.resources
      BY <1>2, <1>3, <1>4 DEF Permits
    <2> QED BY <2>1, <2>2, <2>3 DEF Within
  <1>7. ResourceKept(s.resource, hops)
    <2>1. ~Switches(Inherited.resource, asked.resource)
      BY DEF Allowed
    <2>2. Inherited.resource # NoResource => s.resource = Inherited.resource
      BY <2>1, <1>3 DEF Switches, ResourceFor
    <2>3. asked.resource # NoResource => s.resource = asked.resource
      BY <1>3 DEF ResourceFor
    <2>4. policy.resource # NoResource => s.resource = policy.resource
      BY <1>1, <2>2 DEF ResourceKept
    <2>5. \A h \in HopsSoFar : h.asked.resource # NoResource => s.resource = h.asked.resource
      BY <1>1, <2>2 DEF ResourceKept
    <2> QED BY <1>4, <2>3, <2>4, <2>5 DEF ResourceKept
  <1>8. <<caller, key>> \in policy.granted /\ key \in both.operations /\ Permits(Home[key], key)
    BY DEF Allowed
  <1>9. /\ key \in policy.authority.operations
        /\ \A h \in HopsSoFar : /\ Permits(h.provider, key)
                                /\ key \in h.asked.authority.operations
    BY <1>1, <1>2, <1>8 DEF Within, Permits
  <1> HIDE DEF both
  <1>10. key \in asked.authority.operations
    BY <1>2, <1>8
  <1> QED BY <1>1, <1>4, <1>5, <1>6, <1>7, <1>8, <1>9, <1>10

----------------------------------------------------------------------------
(* Frames come and go at the top. *)
LEMMA PushKeepsStack ==
    ASSUME IInv, policy' = policy, NEW p \in Plugins, NEW t \in Tickets \cup {NoTicket},
           NEW scope \in Scope, NEW revoked \in BOOLEAN, NEW hops \in SUBSET Hop,
           Within(scope.authority, hops), ResourceKept(scope.resource, hops),
           Push(p, t, scope, revoked, hops)
    PROVE  stack' \in Seq(Frame) /\ FramesAreGood'
  <1> DEFINE f == [provider |-> p, ticket |-> t, scope |-> scope, revoked |-> revoked,
                   hops |-> hops]
  <1>1. f \in Frame /\ f.scope = scope /\ f.hops = hops
    BY DEF Frame
  <1>2. stack' = Append(stack, f) /\ stack \in Seq(Frame)
    BY DEF Push, IInv, TypeOK
  <1>3. Good(f)
    BY <1>1 DEF Good
  <1> HIDE DEF f
  <1>4. stack' \in Seq(Frame)
    BY <1>1, <1>2
  <1>5. ASSUME NEW i \in DOMAIN stack' PROVE Good(stack'[i])
    <2>1. i = Len(stack) + 1 \/ i \in DOMAIN stack
      BY <1>1, <1>2
    <2>2. CASE i = Len(stack) + 1
      <3>1. stack'[i] = f
        BY <1>1, <1>2, <2>2
      <3> QED BY <3>1, <1>3
    <2>3. CASE i \in DOMAIN stack
      <3>1. stack'[i] = stack[i]
        BY <1>1, <1>2, <2>3
      <3> QED BY <3>1, <2>3 DEF IInv, FramesAreGood
    <2> QED BY <2>1, <2>2, <2>3
  <1> QED BY <1>4, <1>5 DEF FramesAreGood, Good, Within, ResourceKept

LEMMA PopKeepsStack ==
    ASSUME IInv, policy' = policy, stack # <<>>, Pop
    PROVE  stack' \in Seq(Frame) /\ FramesAreGood'
  <1>1. stack \in Seq(Frame) /\ stack' = SubSeq(stack, 1, Len(stack) - 1)
    BY DEF Pop, IInv, TypeOK
  <1>2. stack' \in Seq(Frame) /\ Len(stack') = Len(stack) - 1
    <2>1. Len(stack) \in Nat /\ Len(stack) # 0
      BY <1>1
    <2>2. \A i \in 1..(Len(stack) - 1) : stack[i] \in Frame
      BY <1>1, <2>1
    <2>3. SubSeq(stack, 1, Len(stack) - 1) \in Seq(Frame)
      BY <2>1, <2>2, SubSeqProperties
    <2>4. Len(SubSeq(stack, 1, Len(stack) - 1)) = Len(stack) - 1
      <3>1. Len(SubSeq(stack, 1, Len(stack) - 1))
              = IF 1 <= Len(stack) - 1 THEN Len(stack) - 1 - 1 + 1 ELSE 0
        BY <2>1, <2>2, SubSeqProperties
      <3> DEFINE n == Len(stack)
                 m == Len(SubSeq(stack, 1, Len(stack) - 1))
      <3>2. n \in Nat /\ n # 0 /\ m = IF 1 <= n - 1 THEN n - 1 - 1 + 1 ELSE 0
        BY <2>1, <3>1
      <3> HIDE DEF n, m
      <3>3. m = n - 1
        BY <3>2
      <3> QED BY <3>3 DEF n, m
    <2> QED BY <1>1, <2>3, <2>4
  <1>3. ASSUME NEW i \in DOMAIN stack' PROVE Good(stack'[i])
    <2>1. i \in DOMAIN stack /\ stack'[i] = stack[i]
      BY <1>1, <1>2
    <2> QED BY <2>1 DEF IInv, FramesAreGood
  <1> QED BY <1>2, <1>3 DEF FramesAreGood, Good, Within, ResourceKept

LEMMA SameStackIsGood ==
    ASSUME IInv, policy' = policy, stack' = stack
    PROVE  stack' \in Seq(Frame) /\ FramesAreGood'
  BY DEF IInv, TypeOK, FramesAreGood, Good, Within, ResourceKept

----------------------------------------------------------------------------
(* T holds tickets of U, perhaps marked, with the scopes they had. *)
Copies(T, U) ==
    /\ DOMAIN T \subseteq DOMAIN U
    /\ T \in [DOMAIN T -> Record]
    /\ \A t \in DOMAIN T : T[t].scope = U[t].scope /\ T[t].hops = U[t].hops

LEMMA CopiesAreGood ==
    ASSUME IInv, policy' = policy, Copies(tickets', tickets)
    PROVE  /\ DOMAIN tickets' \subseteq Tickets
           /\ tickets' \in [DOMAIN tickets' -> Record]
           /\ TicketsAreGood'
  <1>1. DOMAIN tickets' \subseteq Tickets /\ tickets' \in [DOMAIN tickets' -> Record]
    BY DEF Copies, IInv, TypeOK
  <1>2. ASSUME NEW t \in DOMAIN tickets' PROVE Good(tickets'[t])
    <2>1. t \in DOMAIN tickets /\ Good(tickets[t])
      BY DEF Copies, IInv, TicketsAreGood
    <2>2. tickets'[t].scope = tickets[t].scope /\ tickets'[t].hops = tickets[t].hops
      BY DEF Copies
    <2> QED BY <2>1, <2>2 DEF Good
  <1> QED BY <1>1, <1>2 DEF TicketsAreGood, Good, Within, ResourceKept

LEMMA CopiesOfCopies ==
    ASSUME NEW T, NEW U, NEW V, Copies(T, U), Copies(U, V)
    PROVE  Copies(T, V)
  <1>1. DOMAIN T \subseteq DOMAIN V /\ T \in [DOMAIN T -> Record]
    BY DEF Copies
  <1>2. ASSUME NEW t \in DOMAIN T
        PROVE  T[t].scope = V[t].scope /\ T[t].hops = V[t].hops
    <2>1. t \in DOMAIN U
      BY DEF Copies
    <2> QED BY <2>1 DEF Copies
  <1> QED BY <1>1, <1>2 DEF Copies

LEMMA ItselfIsACopy ==
    ASSUME NEW T, T \in [DOMAIN T -> Record]
    PROVE  Copies(T, T)
  BY DEF Copies

LEMMA RevokedIsACopy ==
    ASSUME NEW T, NEW S, T \in [DOMAIN T -> Record]
    PROVE  Copies(Revoked(T, S), T)
  <1> DEFINE R == Revoked(T, S)
  <1>1. DOMAIN R = DOMAIN T
    BY DEF Revoked
  <1>2. ASSUME NEW t \in DOMAIN T
        PROVE  R[t] \in Record /\ R[t].scope = T[t].scope /\ R[t].hops = T[t].hops
    <2>1. T[t] \in Record
      OBVIOUS
    <2>2. R[t] = [T[t] EXCEPT !.revoked = TRUE] \/ R[t] = T[t]
      BY DEF Revoked
    <2> QED BY <2>1, <2>2 DEF Record
  <1>3. R = [t \in DOMAIN T |-> R[t]]
    BY DEF Revoked
  <1> QED BY <1>1, <1>2, <1>3 DEF Copies

LEMMA OverIsACopy ==
    ASSUME NEW T, NEW t, NEW over \in BOOLEAN, T \in [DOMAIN T -> Record]
    PROVE  Copies([T EXCEPT ![t].over = over], T)
  <1> DEFINE R == [T EXCEPT ![t].over = over]
  <1>1. ASSUME NEW d \in DOMAIN T
        PROVE  R[d] \in Record /\ R[d].scope = T[d].scope /\ R[d].hops = T[d].hops
    <2>1. T[d] \in Record
      OBVIOUS
    <2>2. R[d] = [T[d] EXCEPT !.over = over] \/ R[d] = T[d]
      OBVIOUS
    <2> QED BY <2>1, <2>2 DEF Record
  <1> QED BY <1>1 DEF Copies

LEMMA RestrictionIsACopy ==
    ASSUME NEW T, NEW S, S \subseteq DOMAIN T, T \in [DOMAIN T -> Record]
    PROVE  Copies([d \in S |-> T[d]], T)
  BY DEF Copies

LEMMA KeptIsACopy ==
    ASSUME NEW T, T \in [DOMAIN T -> Record]
    PROVE  Copies(Kept(T), T)
  BY RestrictionIsACopy, ItselfIsACopy DEF Kept

LEMMA WithoutIsACopy ==
    ASSUME NEW T, NEW S, T \in [DOMAIN T -> Record]
    PROVE  Copies(Without(T, S), T)
  BY RestrictionIsACopy DEF Without

----------------------------------------------------------------------------
(* What a step did is lawful when it did nothing, or one permitted thing. *)
LEMMA NothingIsLawful ==
    ASSUME effects' = {}
    PROVE  Lawful' /\ (effects \subseteq Effect)'
  BY DEF Lawful, EffectsArePermitted, CellsNeedTheirResource, WorkKeepsItsResource

(* A call, or an access to the cell that has the property's resource. *)
LEMMA PermittedIsLawful ==
    ASSUME IInv, policy' = policy, NEW caller \in Principals, NEW key \in Keys,
           NEW asked \in Scope, NEW kind \in {"call", "get", "set"},
           Allowed(caller, Home[key], key, asked),
           kind # "call" => OwnsProperty(ScopeFor(caller, Home[key], key, asked).authority),
           kind = "set" => policy.settable,
           effects' = EffectOf(kind, caller, key,
                               ScopeFor(caller, Home[key], key, asked).resource,
                               HopsSoFar \cup {HopFor(caller, key, asked)})
    PROVE  Lawful' /\ (effects \subseteq Effect)'
  <1> DEFINE s == ScopeFor(caller, Home[key], key, asked)
             hops == HopsSoFar \cup {HopFor(caller, key, asked)}
  <1>1. /\ s \in Scope
        /\ hops \subseteq Hop
        /\ Within(s.authority, hops)
        /\ ResourceKept(s.resource, hops)
        /\ <<caller, key>> \in policy.granted
        /\ key \in policy.authority.operations
        /\ \A h \in hops : /\ Permits(h.provider, key)
                            /\ key \in h.asked.authority.operations
    BY NewScopeIsGood
  <1>0. kind # "call" => Property \in s.authority.resources
    BY DEF OwnsProperty
  <1>2. effects' = EffectOf(kind, caller, key, s.resource, hops)
    OBVIOUS
  <1> HIDE DEF s, hops
  <1>3. s.resource \in Resources \cup {NoResource}
    BY <1>1 DEF Scope
  <1>4. /\ (effects \subseteq Effect)'
        /\ \A e \in effects' : /\ e.kind = kind /\ e.caller = caller /\ e.key = key
                                /\ e.resource = s.resource /\ e.hops = hops
    <2> DEFINE e0 == [kind |-> kind, caller |-> caller, key |-> key,
                      resource |-> s.resource, hops |-> hops]
    <2>1. effects' = {e0}
      BY <1>2 DEF EffectOf
    <2>2. e0 \in Effect
      BY <1>1, <1>3 DEF Effect
    <2> QED BY <2>1, <2>2
  <1>5. EffectsArePermitted'
    BY <1>1, <1>4 DEF EffectsArePermitted, Permits
  <1>6. CellsNeedTheirResource'
    BY <1>0, <1>1, <1>4 DEF CellsNeedTheirResource, Within
  <1>7. WorkKeepsItsResource'
    BY <1>1, <1>4 DEF WorkKeepsItsResource, ResourceKept
  <1> QED BY <1>4, <1>5, <1>6, <1>7 DEF Lawful

----------------------------------------------------------------------------
(* The three ways a call ends, once it is allowed. *)
LEMMA CellCallKeeps ==
    ASSUME IInv, NEW caller \in Principals, NEW key \in Keys,
           NEW asked \in Requests \cup {Everything} \cup root, CallCell(caller, key, asked)
    PROVE  IInv'
  <1>1. asked \in Scope /\ Home[key] = Owner
    BY RequestShape, KeysAssumption DEF IInv, CallCell
  <1>2. policy' = policy /\ stack' = stack /\ root' = root /\ tickets' = tickets
    BY DEF CallCell
  <1>3. Kind(key) \in {"call", "get", "set"} /\ (Kind(key) = "set" => policy.settable)
    BY DEF CallCell, Kind, Exported
  <1>4. Lawful' /\ (effects \subseteq Effect)'
    BY <1>1, <1>2, <1>3, PermittedIsLawful DEF CallCell
  <1>5. stack' \in Seq(Frame) /\ FramesAreGood'
    BY <1>2, SameStackIsGood
  <1>6. TicketsAreGood'
    BY <1>2 DEF IInv, TicketsAreGood, Good, Within, ResourceKept
  <1> QED BY <1>2, <1>4, <1>5, <1>6 DEF IInv, TypeOK

LEMMA ServiceCallKeeps ==
    ASSUME IInv, NEW caller \in Principals, NEW key \in Keys,
           NEW asked \in Requests \cup {Everything} \cup root, CallService(caller, key, asked)
    PROVE  IInv'
  <1> DEFINE s == ScopeFor(caller, Home[key], key, asked)
             hops == HopsSoFar \cup {HopFor(caller, key, asked)}
  <1>1. asked \in Scope /\ Home[key] \in Plugins
    BY RequestShape, KeysAssumption DEF IInv
  <1>2. policy' = policy /\ root' = root /\ tickets' = tickets
          /\ Allowed(caller, Home[key], key, asked)
          /\ Push(Home[key], NoTicket, s, FALSE, hops)
          /\ effects' = EffectOf("call", caller, key, s.resource, hops)
    BY DEF CallService
  <1>3. Lawful' /\ (effects \subseteq Effect)'
    BY <1>1, <1>2, PermittedIsLawful
  <1>4. s \in Scope /\ hops \subseteq Hop /\ Within(s.authority, hops)
          /\ ResourceKept(s.resource, hops)
    BY <1>1, <1>2, NewScopeIsGood
  <1> HIDE DEF s, hops
  <1>5. stack' \in Seq(Frame) /\ FramesAreGood'
    BY <1>1, <1>2, <1>4, PushKeepsStack
  <1>6. TicketsAreGood'
    BY <1>2 DEF IInv, TicketsAreGood, Good, Within, ResourceKept
  <1> QED BY <1>2, <1>3, <1>5, <1>6 DEF IInv, TypeOK

LEMMA BegunCallKeeps ==
    ASSUME IInv, NEW caller \in Principals, NEW key \in Keys,
           NEW asked \in Requests \cup {Everything} \cup root, BeginCall(caller, key, asked)
    PROVE  IInv'
  <1> DEFINE s == ScopeFor(caller, Home[key], key, asked)
             hops == HopsSoFar \cup {HopFor(caller, key, asked)}
             r == RecordFor(Home[key], key, s, hops)
  <1>1. asked \in Scope /\ Home[key] \in Plugins
    BY RequestShape, KeysAssumption DEF IInv
  <1>2. policy' = policy /\ root' = root /\ Allowed(caller, Home[key], key, asked)
          /\ effects' = EffectOf("call", caller, key, s.resource, hops)
    BY DEF BeginCall
  <1>3. PICK t \in Tickets \ DOMAIN tickets :
          /\ tickets' = [d \in DOMAIN tickets \cup {t} |->
                            IF d = t THEN r ELSE tickets[d]]
          /\ Push(Home[key], t, s, FALSE, hops)
    BY DEF BeginCall
  <1>4. Lawful' /\ (effects \subseteq Effect)'
    BY <1>1, <1>2, PermittedIsLawful
  <1>5. s \in Scope /\ hops \subseteq Hop /\ Within(s.authority, hops)
          /\ ResourceKept(s.resource, hops)
    BY <1>1, <1>2, NewScopeIsGood
  <1> HIDE DEF s, hops
  <1>6. r \in Record /\ r.scope = s /\ r.hops = hops
    <2> DEFINE parent == IF stack = <<>> THEN NoTicket ELSE Top.ticket
    <2>1. parent \in Tickets \cup {NoTicket}
      BY TopShape DEF IInv, Frame
    <2>2. ASSUME parent \in DOMAIN tickets PROVE tickets[parent].above \subseteq Tickets
      BY <2>2 DEF IInv, TypeOK, Record
    <2>3. (IF parent \in DOMAIN tickets THEN {parent} \cup tickets[parent].above ELSE {})
             \subseteq Tickets
      BY <2>2 DEF IInv, TypeOK
    <2> HIDE DEF parent
    <2>4. r = [provider |-> Home[key], key |-> key, parent |-> parent,
               above |-> IF parent \in DOMAIN tickets
                         THEN {parent} \cup tickets[parent].above ELSE {},
               scope |-> s, revoked |-> FALSE, over |-> FALSE, hops |-> hops]
      BY DEF RecordFor, parent
    <2> QED BY <1>1, <1>5, <2>1, <2>3, <2>4 DEF Record
  <1>7. stack' \in Seq(Frame) /\ FramesAreGood'
    BY <1>1, <1>2, <1>3, <1>5, PushKeepsStack
  <1> HIDE DEF r
  <1>8. (DOMAIN tickets \subseteq Tickets)' /\ (tickets \in [DOMAIN tickets -> Record])'
    BY <1>3, <1>6 DEF IInv, TypeOK
  <1>9. TicketsAreGood'
    <2>1. ASSUME NEW d \in DOMAIN tickets' PROVE Good(tickets[d])'
      <3>1. CASE d = t
        BY <1>2, <1>3, <1>5, <1>6, <3>1 DEF Good, Within, ResourceKept
      <3>2. CASE d # t
        BY <1>2, <1>3, <2>1, <3>2 DEF IInv, TicketsAreGood, Good, Within, ResourceKept
      <3> QED BY <3>1, <3>2
    <2> QED BY <2>1 DEF TicketsAreGood
  <1> QED BY <1>2, <1>4, <1>7, <1>8, <1>9 DEF IInv, TypeOK

----------------------------------------------------------------------------
(* Re-entering a ticket, of tickets that are copies, puts its scope on the *)
(* stack as it was.                                                        *)
LEMMA EnteringKeeps ==
    ASSUME IInv, policy' = policy, NEW T, Copies(T, tickets), NEW t \in DOMAIN T, Enter(T, t)
    PROVE  stack' \in Seq(Frame) /\ FramesAreGood' /\ Lawful' /\ (effects \subseteq Effect)'
  <1>1. T[t] \in Record /\ t \in DOMAIN tickets
          /\ T[t].scope = tickets[t].scope /\ T[t].hops = tickets[t].hops
    BY DEF Copies
  <1>2. t \in Tickets /\ Good(tickets[t])
    BY <1>1 DEF IInv, TypeOK, TicketsAreGood
  <1>3. /\ Within(T[t].scope.authority, T[t].hops)
        /\ ResourceKept(T[t].scope.resource, T[t].hops)
    BY <1>1, <1>2 DEF Good
  <1>4. /\ Push(T[t].provider, t, T[t].scope, T[t].revoked, T[t].hops)
        /\ effects' = {}
    BY DEF Enter
  <1>5. T[t].provider \in Plugins /\ T[t].scope \in Scope /\ T[t].revoked \in BOOLEAN
          /\ T[t].hops \in SUBSET Hop
    BY <1>1 DEF Record
  <1>6. stack' \in Seq(Frame) /\ FramesAreGood'
    BY <1>2, <1>3, <1>4, <1>5, PushKeepsStack
  <1> QED BY <1>4, <1>6, NothingIsLawful

(***************************************************************************)
(* Every step keeps the invariant.                                         *)
(***************************************************************************)
THEOREM InvariantInitially == Init => IInv
  <1> SUFFICES ASSUME Init PROVE IInv
    OBVIOUS
  <1>1. TypeOK
    BY DEF Init, TypeOK
  <1>2. FramesAreGood /\ TicketsAreGood
    BY DEF Init, FramesAreGood, TicketsAreGood
  <1>3. Lawful
    BY DEF Init, Lawful, EffectsArePermitted, CellsNeedTheirResource, WorkKeepsItsResource
  <1> QED BY <1>1, <1>2, <1>3 DEF IInv

THEOREM InvariantKept == IInv /\ [Next]_vars => IInv'
  <1> SUFFICES ASSUME IInv, [Next]_vars PROVE IInv'
    OBVIOUS
  <1>0. tickets \in [DOMAIN tickets -> Record] /\ Copies(tickets, tickets)
    BY ItselfIsACopy DEF IInv, TypeOK
  <1>1. ASSUME NEW scope \in Requests, Admit(scope) PROVE IInv'
    <2>1. policy' = policy /\ stack' = stack /\ tickets' = tickets /\ root' = {scope}
            /\ effects' = {}
      BY <1>1 DEF Admit
    <2> QED BY <1>0, <2>1, SameStackIsGood, CopiesAreGood, NothingIsLawful DEF IInv, TypeOK
  <1>2. CASE FromOutside
    BY <1>2, CellCallKeeps, ServiceCallKeeps, BegunCallKeeps DEF FromOutside
  <1>3. CASE FromPlugin
    <2>1. Top.provider \in Principals
      BY <1>3, TopShape DEF FromPlugin, Running, IInv, Frame, Principals
    <2> QED BY <1>3, <2>1, CellCallKeeps, ServiceCallKeeps, BegunCallKeeps DEF FromPlugin
  <1>4. ASSUME NEW key \in {GetKey, SetKey}, TouchCell(key) PROVE IInv'
    <2>1. Top.provider \in Principals /\ key \in Keys /\ Home[key] = Owner
      BY <1>4, TopShape, KeysAssumption DEF TouchCell, Running, IInv, Frame, Principals
    <2>2. CallCell(Top.provider, key, Everything)
      BY <1>4 DEF TouchCell, CallCell
    <2> QED BY <2>1, <2>2, CellCallKeeps
  <1>5. CASE Publish
    <2>1. /\ policy' = policy /\ root' = root /\ stack' = stack /\ tickets' = tickets
          /\ stack # <<>> /\ ~policy.settable /\ Property \in Top.scope.authority.resources
          /\ effects' = EffectOf("publish", Owner, SetKey, Top.scope.resource, Top.hops)
      BY <1>5 DEF Publish, Running, OwnsProperty
    <2>2. Top \in Frame /\ Good(Top)
      BY <2>1, TopShape DEF IInv, FramesAreGood, Top
    <2>3. Top.scope.resource \in Resources \cup {NoResource} /\ Top.hops \in SUBSET Hop
      BY <2>2 DEF Frame, Scope
    <2>4. /\ (effects \subseteq Effect)'
          /\ \A e \in effects' : /\ e.kind = "publish" /\ e.caller = Owner /\ e.key = SetKey
                                  /\ e.resource = Top.scope.resource /\ e.hops = Top.hops
      BY <2>1, <2>3, KeysAssumption DEF EffectOf, Effect, Principals
    <2>5. Lawful'
      BY <2>1, <2>2, <2>4 DEF Lawful, EffectsArePermitted, CellsNeedTheirResource,
                              WorkKeepsItsResource, Good, Within, ResourceKept
    <2> QED BY <1>0, <2>1, <2>4, <2>5, SameStackIsGood, CopiesAreGood DEF IInv, TypeOK
  <1>6. CASE Poll
    <2>1. PICK t \in DOMAIN tickets : Enter(tickets, t)
      BY <1>6 DEF Poll
    <2>2. policy' = policy /\ root' = root /\ tickets' = tickets
      BY <1>6 DEF Poll
    <2> QED BY <1>0, <2>1, <2>2, EnteringKeeps, CopiesAreGood DEF IInv, TypeOK
  <1>7. CASE Cancel
    <2>1. PICK t \in DOMAIN tickets :
            /\ tickets' = Revoked(tickets, Tree(tickets, t))
            /\ Enter(tickets', t)
      BY <1>7 DEF Cancel
    <2>2. policy' = policy /\ root' = root /\ Copies(tickets', tickets)
      BY <1>0, <1>7, <2>1, RevokedIsACopy DEF Cancel
    <2>3. t \in DOMAIN tickets'
      BY <2>1 DEF Revoked
    <2> QED BY <2>1, <2>2, <2>3, EnteringKeeps, CopiesAreGood DEF IInv, TypeOK
  <1>8. CASE Return
    <2>1. policy' = policy /\ root' = root /\ tickets' = tickets /\ stack # <<>> /\ Pop
            /\ effects' = {}
      BY <1>8 DEF Return
    <2> QED BY <1>0, <2>1, PopKeepsStack, CopiesAreGood, NothingIsLawful DEF IInv, TypeOK
  <1>9. CASE Fail
    <2> DEFINE R == Revoked(tickets, Tree(tickets, Top.ticket))
    <2>1. PICK over \in BOOLEAN : tickets' = Kept([R EXCEPT ![Top.ticket].over = over])
      BY <1>9 DEF Fail
    <2>2. policy' = policy /\ root' = root /\ stack # <<>> /\ Pop /\ effects' = {}
      BY <1>9 DEF Fail
    <2>3. Copies(R, tickets)
      BY <1>0, RevokedIsACopy
    <2> HIDE DEF R
    <2> DEFINE t == Top.ticket
               O == [R EXCEPT ![t].over = over]
    <2>a. R \in [DOMAIN R -> Record]
      BY <2>3 DEF Copies
    <2>4. Copies(O, R)
      <3> HIDE DEF t
      <3> QED BY <2>a, OverIsACopy
    <2>b. tickets' = Kept(O)
      BY <2>1
    <2> HIDE DEF O
    <2>5. Copies(tickets', O)
      <3>1. O \in [DOMAIN O -> Record]
        BY <2>4 DEF Copies
      <3> QED BY <2>b, <3>1, KeptIsACopy
    <2>6. Copies(tickets', tickets)
      BY <2>3, <2>4, <2>5, CopiesOfCopies
    <2> QED BY <2>2, <2>6, PopKeepsStack, CopiesAreGood, NothingIsLawful DEF IInv, TypeOK
  <1>10. CASE Complete
    <2> DEFINE T == [tickets EXCEPT ![Top.ticket].over = TRUE]
    <2>1. policy' = policy /\ root' = root /\ stack # <<>> /\ Pop /\ effects' = {}
            /\ (tickets' = Without(T, Tree(T, Top.ticket)) \/ tickets' = Kept(T))
      BY <1>10 DEF Complete
    <2>2. Copies(T, tickets)
      BY <1>0, OverIsACopy
    <2> HIDE DEF T
    <2>3. Copies(tickets', T)
      BY <2>1, <2>2, WithoutIsACopy, KeptIsACopy DEF Copies
    <2>4. Copies(tickets', tickets)
      BY <2>2, <2>3, CopiesOfCopies
    <2> QED BY <2>1, <2>4, PopKeepsStack, CopiesAreGood, NothingIsLawful DEF IInv, TypeOK
  <1>11. CASE Release
    <2>1. policy' = policy /\ root' = root /\ stack' = stack /\ effects' = {}
      BY <1>11 DEF Release
    <2>2. Copies(tickets', tickets)
      BY <1>0, <1>11, WithoutIsACopy DEF Release
    <2> QED BY <2>1, <2>2, SameStackIsGood, CopiesAreGood, NothingIsLawful DEF IInv, TypeOK
  <1>12. CASE Drop
    <2> DEFINE R == Revoked(tickets, DOMAIN tickets)
    <2>1. policy' = policy /\ root' = {} /\ stack' = stack /\ effects' = {}
            /\ tickets' = [d \in {t \in DOMAIN R : ~Quiescent(R, t)} |-> R[d]]
      BY <1>12 DEF Drop
    <2>2. Copies(R, tickets)
      BY <1>0, RevokedIsACopy
    <2> HIDE DEF R
    <2>3. Copies(tickets', R)
      BY <2>1, <2>2, RestrictionIsACopy DEF Copies
    <2>4. Copies(tickets', tickets)
      BY <2>2, <2>3, CopiesOfCopies
    <2> QED BY <2>1, <2>4, SameStackIsGood, CopiesAreGood, NothingIsLawful DEF IInv, TypeOK
  <1>13. CASE UNCHANGED vars
    <2>1. policy' = policy /\ root' = root /\ stack' = stack /\ tickets' = tickets
            /\ effects' = effects
      BY <1>13 DEF vars
    <2>2. Lawful' /\ (effects \subseteq Effect)'
      BY <2>1 DEF IInv, TypeOK, Lawful, EffectsArePermitted, CellsNeedTheirResource,
                  WorkKeepsItsResource, Permits
    <2> QED BY <1>0, <2>1, <2>2, SameStackIsGood, CopiesAreGood DEF IInv, TypeOK
  <1> QED BY <1>1, <1>2, <1>3, <1>4, <1>5, <1>6, <1>7, <1>8, <1>9, <1>10, <1>11,
             <1>12, <1>13 DEF Next

THEOREM InvariantAlways == Spec => []IInv
  BY InvariantInitially, InvariantKept, PTL DEF Spec

(***************************************************************************)
(* The results, for every product: the state keeps its shape,              *)
(***************************************************************************)
THEOREM TypeCorrect == Spec => []TypeOK
  <1>1. IInv => TypeOK
    BY DEF IInv
  <1> QED BY <1>1, InvariantAlways, PTL

(* no scope outgrows the limits its callers had, on the stack or in a      *)
(* ticket that is polled without them,                                     *)
THEOREM ScopesNeverGrow == Spec => []ScopesOnlyNarrow
  <1>1. IInv => ScopesOnlyNarrow
    BY DEF IInv, FramesAreGood, TicketsAreGood, Good, ScopesOnlyNarrow
  <1> QED BY <1>1, InvariantAlways, PTL

(* calls are made as the product and everybody on the way permit,          *)
THEOREM EffectsAlwaysPermitted == Spec => []EffectsArePermitted
  <1>1. IInv => EffectsArePermitted
    BY DEF IInv, Lawful
  <1> QED BY <1>1, InvariantAlways, PTL

(* cells are reached with the property's resource only,                    *)
THEOREM CellsAlwaysNeedTheirResource == Spec => []CellsNeedTheirResource
  <1>1. IInv => CellsNeedTheirResource
    BY DEF IInv, Lawful
  <1> QED BY <1>1, InvariantAlways, PTL

(* and work that was begun for a resource is never done for another.       *)
THEOREM WorkAlwaysKeepsItsResource == Spec => []WorkKeepsItsResource
  <1>1. IInv => WorkKeepsItsResource
    BY DEF IInv, Lawful
  <1> QED BY <1>1, InvariantAlways, PTL

(* All of it together: authority only shrinks, and effects stay within it. *)
THEOREM ScopesAlwaysSound == Spec => []ScopesAreSound
  <1>1. TypeOK /\ ScopesOnlyNarrow /\ EffectsArePermitted /\ CellsNeedTheirResource
          /\ WorkKeepsItsResource => ScopesAreSound
    BY DEF ScopesAreSound
  <1> QED
    BY <1>1, TypeCorrect, ScopesNeverGrow, EffectsAlwaysPermitted,
       CellsAlwaysNeedTheirResource, WorkAlwaysKeepsItsResource, PTL

-----------------------------------------------------------------------------
(***************************************************************************)
(* Dataflow waves.  What becomes of a node is a recursive function of the  *)
(* nodes before it, and there is no least node for which it is undefined.  *)
(* A flow is resolved to what that function says, or not at all, whatever  *)
(* was resolved before it.                                                 *)
(***************************************************************************)
CONSTANTS Nodes, Kinds, Inputs, Flows, Orders, Cases, Source, Provider, Denied, MaxValues

VARIABLES policies, outcome, taken, at, polls, arrivals, started, done, values, wavePending, waveStopped, waveFailure

Wave == INSTANCE GraphWave WITH
    policy <- policies, pending <- wavePending, stopped <- waveStopped, failure <- waveFailure

(* In whatever order operations complete, an edge resolves to what the      *)
(* graph means, an operation is called exactly when the graph gives it a    *)
(* value, a join holds payloads only while it may run, and a wave fails for *)
(* what the graph means only.                                               *)
WavesAreConfluent == Wave!WavesAreConfluent

(* Every set of numbers that is not empty has a least element. *)
LEMMA LeastElement ==
    ASSUME NEW T, T \subseteq Nat, T # {}
    PROVE  \E n \in T : \A m \in T : n <= m
<1> DEFINE R == StrictSubsetOrdering(Nat)
           S == FiniteSubsetsOf(Nat)
           W == {1 .. k : k \in T}
<1>1. IsWellFoundedOn(R, S)
  BY FS_StrictSubsetOrderingWellFounded
<1>2. W \subseteq S
  BY FS_Interval DEF FiniteSubsetsOf
<1>3. W # {}
  OBVIOUS
<1>4. \E x \in W : \A y \in W : ~(<<y, x>> \in R)
  <2> HIDE DEF R, S, W
  <2> QED BY <1>1, <1>2, <1>3, WFMin
<1>5. PICK n \in T : \A m \in T : <<1 .. m, 1 .. n>> \notin R
  BY <1>4
<1>6. ASSUME NEW m \in T, m < n PROVE FALSE
  <2>1. 1 .. m \subseteq 1 .. n /\ 1 .. m # 1 .. n
    <3>1. n \in 1 .. n /\ n \notin 1 .. m
      BY <1>6
    <3> QED BY <1>6, <3>1
  <2>2. <<1 .. m, 1 .. n>> \in R
    BY <2>1 DEF StrictSubsetOrdering
  <2> QED BY <1>5, <2>2
<1> QED BY <1>6

LEMMA WaveCardinality == \A S : Wave!Cardinality(S) = Cardinality(S) /\ (Wave!IsFiniteSet(S) <=> IsFiniteSet(S))
  BY DEF Wave!Cardinality, Cardinality, Wave!IsFiniteSet, IsFiniteSet

(* What the flows into a node carry, and what becomes of the node. *)
With(f, n, what) == {e \in Wave!Into(n) : Wave!Carries(f, e) = what}

Means(f, n) ==
    IF Kinds[n] = "source" THEN (IF n = Source THEN "fires" ELSE "closed")
    ELSE IF With(f, n, "failed") # {} THEN "failed"
    ELSE IF n \in Wave!Joins
    THEN (IF \A i \in Inputs[n] : \E e \in With(f, n, "value") : e.in = i THEN "fires" ELSE "closed")
    ELSE IF With(f, n, "value") = {} THEN "closed" ELSE "fires"

Fates == {"fires", "closed", "failed"}

LEMMA GraphFacts ==
    ASSUME Wave!GraphAssumption
    PROVE  /\ Cardinality(Nodes) \in Nat /\ Nodes = 1 .. Cardinality(Nodes) /\ IsFiniteSet(Flows)
           /\ \A e \in Flows : e.from \in Nodes /\ e.to \in Nodes /\ e.from < e.to /\ e.port # "none"
  BY WaveCardinality, FS_CardinalityType DEF Wave!GraphAssumption, Wave!NoPort

(* A node depends on those before it only. *)
LEMMA MeansLocally ==
    ASSUME Wave!GraphAssumption, NEW f, NEW g, NEW n \in Nodes,
           \A i \in Nodes : i < n => f[i] = g[i]
    PROVE  Means(f, n) = Means(g, n)
<1>1. \A e \in Wave!Into(n) : Wave!Carries(f, e) = Wave!Carries(g, e)
  BY GraphFacts DEF Wave!Into, Wave!Carries
<1>2. \A what : With(f, n, what) = With(g, n, what)
  BY <1>1 DEF With
<1> QED BY <1>2 DEF Means

LEMMA FateExists ==
    ASSUME Wave!GraphAssumption
    PROVE  \E f \in [Nodes -> Fates] : \A n \in Nodes : f[n] = Means(f, n)
<1> DEFINE Begun(k) == \E f \in [1 .. k -> Fates] : \A n \in 1 .. k : f[n] = Means(f, n)
           last == Cardinality(Nodes)
           T == {k \in 0 .. last : ~Begun(k)}
<1>0. last \in Nat /\ Nodes = 1 .. last
  BY GraphFacts
<1> HIDE DEF last
<1>1. T = {}
  <2> SUFFICES ASSUME T # {} PROVE FALSE
    OBVIOUS
  <2>0. T \subseteq Nat
    BY <1>0
  <2>1. PICK k \in T : \A m \in T : k <= m
    <3> HIDE DEF T
    <3> QED BY <2>0, LeastElement
  <2>2. k \in 0 .. last /\ ~Begun(k)
    BY <2>1
  <2>3. k # 0
    <3>1. [n \in 1 .. 0 |-> "closed"] \in [1 .. 0 -> Fates] /\ 1 .. 0 = {}
      BY DEF Fates
    <3>2. Begun(0)
      BY <3>1
    <3> QED BY <2>2, <3>2
  <2>4. k - 1 \in 0 .. last /\ k \in Nodes /\ Begun(k - 1)
    <3>1. k - 1 \in 0 .. last /\ k \in Nodes /\ ~(k <= k - 1)
      BY <1>0, <2>2, <2>3
    <3> QED BY <2>1, <3>1
  <2>5. PICK f \in [1 .. k - 1 -> Fates] : \A n \in 1 .. k - 1 : f[n] = Means(f, n)
    BY <2>4
  <2> DEFINE g == [n \in 1 .. k |-> IF n = k THEN Means(f, k) ELSE f[n]]
  <2>6. g \in [1 .. k -> Fates]
    BY <1>0, <2>2 DEF Means, Fates
  <2>7. \A n \in 1 .. k : g[n] = Means(g, n)
    <3> SUFFICES ASSUME NEW n \in 1 .. k PROVE g[n] = Means(g, n)
      OBVIOUS
    <3>1. n \in Nodes /\ \A i \in Nodes : i < n => g[i] = f[i]
      BY <1>0, <2>2
    <3>2. Means(g, n) = Means(f, n)
      BY <3>1, MeansLocally
    <3>3. CASE n = k
      BY <3>2, <3>3
    <3>4. CASE n # k
      <4>1. n \in 1 .. k - 1
        BY <2>2, <3>4
      <4> QED BY <2>5, <3>2, <3>4, <4>1
    <3> QED BY <3>3, <3>4
  <2>8. Begun(k)
    <3> HIDE DEF g
    <3> QED BY <2>6, <2>7
  <2> QED BY <2>2, <2>8
<1>2. Begun(last)
  BY <1>0, <1>1
<1> QED BY <1>0, <1>2

LEMMA FateMeans ==
    ASSUME Wave!GraphAssumption
    PROVE  \A n \in Nodes : Wave!Fate[n] = Means(Wave!Fate, n) /\ Wave!Fate[n] \in Fates
<1> DEFINE F == CHOOSE f : f = [n \in Nodes |-> Means(f, n)]
<1>1. Wave!Fate = F
  BY DEF Wave!Fate, Means, With
<1>2. PICK f \in [Nodes -> Fates] : \A n \in Nodes : f[n] = Means(f, n)
  BY FateExists
<1>3. f = [n \in Nodes |-> Means(f, n)]
  BY <1>2
<1>4. F = [n \in Nodes |-> Means(F, n)]
  BY <1>3
<1>5. \A n \in Nodes : F[n] = Means(F, n)
  <2> HIDE DEF F
  <2> QED BY <1>4
<1>6. \A n \in Nodes : Means(F, n) \in Fates
  <2> HIDE DEF F
  <2> QED BY DEF Means, Fates
<1> QED BY <1>1, <1>5, <1>6

(* It does not change. *)
LEMMA FateStays ==
    ASSUME UNCHANGED <<policies, outcome, taken>>
    PROVE  Wave!Fate' = Wave!Fate /\ \A f, e : Wave!Carries(f, e)' = Wave!Carries(f, e)
  BY DEF Wave!Fate, Wave!Carries, Wave!ChosenPort

Terminal == {"value", "released", "closed", "failed"}
Marks == {"unresolved"} \cup Terminal

(* What the flows carry when all is over. *)
Carried == [e \in Flows |-> Wave!Carries(Wave!Fate, e)]

(* The flows out of the nodes that are done are resolved, to what they carry; a join *)
(* that can no longer run has no payload, and one that may has lost none.             *)
ArrivalsOK(w, arr, dn) ==
    /\ arr \in [Flows -> Marks]
    /\ \A e \in Flows : arr[e] = "unresolved" <=> e.from \notin dn
    /\ \A e \in Flows : arr[e] \in Terminal => w[e] = IF arr[e] = "released" THEN "value" ELSE arr[e]
    /\ \A e \in Flows : arr[e] = "value" => ~Wave!Discarded(arr, e)
    /\ \A e \in Flows : arr[e] = "released" => Wave!Discarded(arr, e)

FlowsAt(n, i) == {e \in Wave!Into(n) : e.in = i}

ValuedAt(arr, n, i) == {e \in Wave!Into(n) : e.in = i /\ arr[e] \in {"value", "released"}}

PortIs(p, arr, n, i) ==
    \/ p = "unresolved" /\ \E e \in FlowsAt(n, i) : arr[e] = "unresolved"
    \/ p = "failed" /\ \E e \in FlowsAt(n, i) : arr[e] = "failed"
    \/ /\ \A e \in FlowsAt(n, i) : arr[e] \notin {"unresolved", "failed"}
       /\ \/ p = "closed" /\ ValuedAt(arr, n, i) = {}
          \/ p = "conflict" /\ Cardinality(ValuedAt(arr, n, i)) > 1
          \/ \E e \in ValuedAt(arr, n, i) : p = arr[e]

LEMMA PortFacts ==
    ASSUME NEW arr, NEW n, NEW i
    PROVE  PortIs(Wave!PortInput(arr, n, i), arr, n, i)
<1> DEFINE found == {arr[e] : e \in FlowsAt(n, i)}
           p == Wave!PortInput(arr, n, i)
           valued == ValuedAt(arr, n, i)
<1>1. p = IF "unresolved" \in found THEN "unresolved"
          ELSE IF "failed" \in found THEN "failed"
          ELSE IF valued = {} THEN "closed"
          ELSE IF Wave!Cardinality(valued) > 1 THEN "conflict"
          ELSE arr[CHOOSE e \in valued : TRUE]
  BY DEF Wave!PortInput, FlowsAt, ValuedAt
<1>2. \A x : x \in found <=> \E e \in FlowsAt(n, i) : arr[e] = x
  OBVIOUS
<1>3. valued # {} => (CHOOSE e \in valued : TRUE) \in valued
  OBVIOUS
<1>4. Wave!Cardinality(valued) = Cardinality(valued)
  BY WaveCardinality
<1> HIDE DEF found, p, valued
<1> SUFFICES PortIs(p, arr, n, i)
  BY DEF p
<1>5. CASE "unresolved" \in found
  BY <1>1, <1>2, <1>5 DEF PortIs
<1>6. CASE "unresolved" \notin found /\ "failed" \in found
  BY <1>1, <1>2, <1>6 DEF PortIs
<1>7. CASE "unresolved" \notin found /\ "failed" \notin found
  <2>1. \A e \in FlowsAt(n, i) : arr[e] \notin {"unresolved", "failed"}
    BY <1>2, <1>7
  <2>2. CASE valued = {}
    BY <1>1, <1>7, <2>1, <2>2 DEF PortIs, valued
  <2>3. CASE valued # {} /\ Cardinality(valued) > 1
    BY <1>1, <1>4, <1>7, <2>1, <2>3 DEF PortIs, valued
  <2>4. CASE valued # {} /\ ~(Cardinality(valued) > 1)
    BY <1>1, <1>3, <1>4, <1>7, <2>1, <2>4 DEF PortIs, valued
  <2> QED BY <2>2, <2>3, <2>4
<1> QED BY <1>5, <1>6, <1>7

(* What a node sees follows what will be. *)
InputIs(x, w, arr, n) ==
    \/ x = "unresolved"
    \/ x = "conflict" /\ \E i \in Inputs[n] : Cardinality(ValuedAt(arr, n, i)) > 1
    \/ x = "failed" /\ \E e \in Wave!Into(n) : w[e] = "failed"
    \/ /\ \A e \in Wave!Into(n) : w[e] # "failed"
       /\ \/ /\ x = "closed"
             /\ IF n \in Wave!Joins THEN \E i \in Inputs[n] : \A e \in Wave!Into(n) : e.in = i => w[e] # "value"
                                  ELSE \A e \in Wave!Into(n) : w[e] # "value"
          \/ /\ x = "value"
             /\ IF n \in Wave!Joins THEN \A i \in Inputs[n] : \E e \in Wave!Into(n) : e.in = i /\ w[e] = "value"
                                  ELSE \E e \in Wave!Into(n) : w[e] = "value"

LEMMA InputFacts ==
    ASSUME Wave!GraphAssumption, NEW w, NEW arr, NEW dn, ArrivalsOK(w, arr, dn), NEW n \in Nodes,
           Kinds[n] # "source"
    PROVE  InputIs(Wave!Input(arr, n), w, arr, n)
<1> DEFINE P(i) == Wave!PortInput(arr, n, i)
           ports == {P(i) : i \in Inputs[n]}
           x == Wave!Input(arr, n)
           dead == n \in Wave!Joins /\ Wave!NonRunnable(arr, n)
<1>1. x = IF "unresolved" \in ports THEN "unresolved"
          ELSE IF "failed" \in ports THEN "failed"
          ELSE IF dead THEN "closed"
          ELSE IF "conflict" \in ports THEN "conflict"
          ELSE IF "released" \in ports THEN "released"
          ELSE IF ports \subseteq {"closed"} THEN "closed"
          ELSE "value"
  BY DEF Wave!Input
<1>2. \A p : p \in ports <=> \E i \in Inputs[n] : P(i) = p
  OBVIOUS
<1>3. \A i : PortIs(P(i), arr, n, i)
  BY PortFacts
<1>4. \A e \in Wave!Into(n) : e \in Flows /\ e.to = n /\ e.in \in Inputs[n] /\ e \in FlowsAt(n, e.in)
  BY DEF Wave!GraphAssumption, Wave!Into, FlowsAt
<1>5. \A i : FlowsAt(n, i) \subseteq Wave!Into(n) /\ ValuedAt(arr, n, i) \subseteq FlowsAt(n, i)
  BY DEF FlowsAt, ValuedAt
<1>6. Inputs[n] # {}
  BY DEF Wave!GraphAssumption
<1> HIDE DEF ports, x, P, dead
<1> SUFFICES InputIs(x, w, arr, n)
  BY DEF x
<1>7. CASE "unresolved" \in ports
  BY <1>1, <1>7 DEF InputIs
<1>8. CASE "unresolved" \notin ports /\ "failed" \in ports
  <2>1. PICK i \in Inputs[n] : P(i) = "failed"
    BY <1>2, <1>8
  <2>2. PICK e \in FlowsAt(n, i) : arr[e] = "failed"
    BY <1>3, <1>5, <2>1, <1>4 DEF PortIs, ValuedAt
  <2>3. e \in Wave!Into(n) /\ w[e] = "failed"
    BY <1>4, <1>5, <2>2 DEF ArrivalsOK, Terminal
  <2> QED BY <1>1, <1>8, <2>3 DEF InputIs
<1>9. CASE "unresolved" \notin ports /\ "failed" \notin ports
  <2>1. \A e \in Wave!Into(n) : arr[e] \in {"value", "released", "closed"} /\ w[e] = IF arr[e] = "closed" THEN "closed" ELSE "value"
    <3> SUFFICES ASSUME NEW e \in Wave!Into(n)
                 PROVE  arr[e] \in {"value", "released", "closed"} /\ w[e] = IF arr[e] = "closed" THEN "closed" ELSE "value"
      OBVIOUS
    <3>1. P(e.in) \notin {"unresolved", "failed"}
      BY <1>2, <1>4, <1>9
    <3>2. arr[e] \notin {"unresolved", "failed"}
      BY <1>3, <1>4, <3>1 DEF PortIs
    <3> QED BY <1>4, <3>2 DEF ArrivalsOK, Terminal, Marks
  <2>2. CASE dead
    <3>1. PICK i \in Inputs[n] : \A e \in Wave!Into(n) : e.in = i => arr[e] = "closed"
      BY <2>2 DEF dead, Wave!NonRunnable
    <3>2. \A e \in Wave!Into(n) : e.in = i => w[e] # "value"
      BY <2>1, <3>1
    <3>3. x = "closed" /\ n \in Wave!Joins
      BY <1>1, <1>9, <2>2 DEF dead
    <3> QED BY <2>1, <3>2, <3>3 DEF InputIs
  <2>3. CASE ~dead /\ "conflict" \in ports
    <3>1. PICK i \in Inputs[n] : P(i) = "conflict"
      BY <1>2, <2>3
    <3>2. Cardinality(ValuedAt(arr, n, i)) > 1
      BY <1>3, <2>1, <3>1, <1>5 DEF PortIs
    <3> QED BY <1>1, <1>9, <2>3, <3>2 DEF InputIs
  <2>4. "released" \in ports => dead
    <3> SUFFICES ASSUME "released" \in ports PROVE dead
      OBVIOUS
    <3>1. PICK i \in Inputs[n] : P(i) = "released"
      BY <1>2
    <3>2. PICK e \in ValuedAt(arr, n, i) : arr[e] = "released"
      BY <1>3, <3>1 DEF PortIs
    <3>3. e \in Flows /\ e.to = n
      BY <1>4, <1>5, <3>2
    <3>4. Wave!Discarded(arr, e)
      <4>1. \A d \in Flows : arr[d] = "released" => Wave!Discarded(arr, d)
        BY DEF ArrivalsOK
      <4> QED BY <3>2, <3>3, <4>1
    <3>5. n \in Wave!Joins /\ Wave!NonRunnable(arr, n)
      BY <3>3, <3>4 DEF Wave!Discarded
    <3> QED BY <3>5 DEF dead
  <2>5. CASE ~dead /\ "conflict" \notin ports
    <3>0. "released" \notin ports
      BY <2>4, <2>5
    <3>1. n \in Wave!Joins => \A i \in Inputs[n] : \E e \in Wave!Into(n) : e.in = i /\ w[e] = "value"
      <4> SUFFICES ASSUME n \in Wave!Joins, NEW i \in Inputs[n]
                   PROVE  \E e \in Wave!Into(n) : e.in = i /\ w[e] = "value"
        OBVIOUS
      <4>1. PICK e \in Wave!Into(n) : e.in = i /\ arr[e] # "closed"
        BY <2>5 DEF dead, Wave!NonRunnable
      <4> QED BY <2>1, <4>1
    <3>2. CASE ports \subseteq {"closed"}
      <4>1. x = "closed"
        BY <1>1, <1>9, <2>5, <3>0, <3>2
      <4>2. \A e \in Wave!Into(n) : arr[e] = "closed"
        <5> SUFFICES ASSUME NEW e \in Wave!Into(n) PROVE arr[e] = "closed"
          OBVIOUS
        <5>1. P(e.in) = "closed"
          BY <1>2, <1>4, <3>2
        <5>2. ValuedAt(arr, n, e.in) = {}
          BY <1>3, <5>1, <2>1, <1>5, <1>4 DEF PortIs, ValuedAt
        <5> QED BY <2>1, <5>2 DEF ValuedAt
      <4>3. \A e \in Wave!Into(n) : w[e] # "value"
        BY <2>1, <4>2
      <4>4. n \notin Wave!Joins
        BY <1>6, <3>1, <4>3
      <4> QED BY <2>1, <4>1, <4>3, <4>4 DEF InputIs
    <3>3. CASE ~(ports \subseteq {"closed"})
      <4>1. x = "value"
        BY <1>1, <1>9, <2>5, <3>0, <3>3
      <4>2. PICK i \in Inputs[n] : P(i) # "closed"
        BY <1>2, <3>3
      <4>3. P(i) \notin {"unresolved", "failed", "closed", "conflict"}
        BY <1>2, <1>9, <2>5, <4>2
      <4>4. PICK e \in ValuedAt(arr, n, i) : TRUE
        BY <1>3, <4>3 DEF PortIs
      <4>5. e \in Wave!Into(n) /\ w[e] = "value"
        BY <1>5, <2>1, <4>4 DEF ValuedAt
      <4> QED BY <2>1, <3>1, <4>1, <4>5 DEF InputIs
    <3> QED BY <3>2, <3>3
  <2> QED BY <2>2, <2>3, <2>5
<1> QED BY <1>7, <1>8, <1>9

(* Whether a join can run depends on the flows that are closed only. *)
LEMMA NonRunnableByClosed ==
    ASSUME NEW a, NEW b, NEW j,
           \A e \in Flows : e.to = j => (a[e] = "closed" => b[e] = "closed")
    PROVE  Wave!NonRunnable(a, j) => Wave!NonRunnable(b, j)
  BY DEF Wave!NonRunnable, Wave!Into

(* A delivery resolves the flows out of n, and releases what a join it closes holds. *)
Right(w, n, port, failed) ==
    \A e \in Wave!OutOf(n) :
        w[e] = IF e.port = port THEN "value" ELSE IF failed THEN "failed" ELSE "closed"

LEMMA DeliveredFlows ==
    ASSUME Wave!GraphAssumption, NEW w, ArrivalsOK(w, arrivals, done),
           NEW n \in Nodes, n \notin done, NEW port, NEW failed \in BOOLEAN, Right(w, n, port, failed),
           NEW U, U = Wave!Unchosen(n, port, failed), NEW Freed, Freed = Wave!Release(U, n),
           NEW F, F = [e \in Flows |-> IF e \in Wave!OutOf(n) /\ e.port = port
                                       THEN IF Wave!Discarded(Freed, e) THEN "released" ELSE "value"
                                       ELSE Freed[e]]
    PROVE  ArrivalsOK(w, F, done \cup {n})
<1> DEFINE dead == {j \in Wave!Joins : (\E e \in Wave!OutOf(n) : e.to = j) /\ Wave!NonRunnable(U, j)}
           Chosen(e) == e.from = n /\ e.port = port
<1>1. /\ arrivals \in [Flows -> Marks]
      /\ \A e \in Flows : arrivals[e] = "unresolved" <=> e.from \notin done
      /\ \A e \in Flows : arrivals[e] \in Terminal => w[e] = IF arrivals[e] = "released" THEN "value" ELSE arrivals[e]
      /\ \A e \in Flows : arrivals[e] = "value" => ~Wave!Discarded(arrivals, e)
      /\ \A e \in Flows : arrivals[e] = "released" => Wave!Discarded(arrivals, e)
  BY DEF ArrivalsOK
<1>2. \A e \in Flows : U[e] = IF e.from # n \/ e.port = port THEN arrivals[e]
                              ELSE IF failed THEN "failed" ELSE "closed"
  BY DEF Wave!Unchosen
<1>3. \A e \in Flows : Freed[e] = IF e.to \in dead /\ U[e] = "value" THEN "released" ELSE U[e]
  BY DEF Wave!Release
<1>4. \A e \in Flows : F[e] = IF Chosen(e) THEN IF Wave!Discarded(Freed, e) THEN "released" ELSE "value"
                              ELSE Freed[e]
  BY DEF Wave!OutOf
<1>5. \A e \in Flows : e.from = n => arrivals[e] = "unresolved"
  BY <1>1
<1>6. \A e \in Flows : e.from = n => w[e] = IF e.port = port THEN "value" ELSE IF failed THEN "failed" ELSE "closed"
  BY DEF Right, Wave!OutOf
<1>7. DOMAIN F = Flows
  OBVIOUS
<1>8. \A j \in Wave!Joins : j \in dead <=> (\E e \in Flows : e.from = n /\ e.to = j) /\ Wave!NonRunnable(U, j)
  BY DEF Wave!OutOf
<1> HIDE DEF dead
<1>9. \A e \in Flows : /\ F[e] = "closed" <=> U[e] = "closed"
                       /\ Freed[e] = "closed" <=> U[e] = "closed"
                       /\ arrivals[e] = "closed" => U[e] = "closed"
                       /\ e.from # n => (U[e] = "closed" <=> arrivals[e] = "closed")
  BY <1>2, <1>3, <1>4, <1>5
<1>10. \A j : /\ Wave!NonRunnable(F, j) <=> Wave!NonRunnable(U, j)
              /\ Wave!NonRunnable(Freed, j) <=> Wave!NonRunnable(U, j)
              /\ Wave!NonRunnable(arrivals, j) => Wave!NonRunnable(U, j)
              /\ (\A e \in Flows : e.to = j => e.from # n)
                   => (Wave!NonRunnable(U, j) => Wave!NonRunnable(arrivals, j))
  <2> SUFFICES ASSUME NEW j
               PROVE  /\ Wave!NonRunnable(F, j) <=> Wave!NonRunnable(U, j)
                      /\ Wave!NonRunnable(Freed, j) <=> Wave!NonRunnable(U, j)
                      /\ Wave!NonRunnable(arrivals, j) => Wave!NonRunnable(U, j)
                      /\ (\A e \in Flows : e.to = j => e.from # n)
                           => (Wave!NonRunnable(U, j) => Wave!NonRunnable(arrivals, j))
    OBVIOUS
  <2>1. Wave!NonRunnable(F, j) => Wave!NonRunnable(U, j)
    BY <1>9, NonRunnableByClosed
  <2>2. Wave!NonRunnable(U, j) => Wave!NonRunnable(F, j)
    BY <1>9, NonRunnableByClosed
  <2>3. Wave!NonRunnable(Freed, j) => Wave!NonRunnable(U, j)
    BY <1>9, NonRunnableByClosed
  <2>4. Wave!NonRunnable(U, j) => Wave!NonRunnable(Freed, j)
    BY <1>9, NonRunnableByClosed
  <2>5. Wave!NonRunnable(arrivals, j) => Wave!NonRunnable(U, j)
    BY <1>9, NonRunnableByClosed
  <2>6. (\A e \in Flows : e.to = j => e.from # n)
           => (Wave!NonRunnable(U, j) => Wave!NonRunnable(arrivals, j))
    BY <1>9, NonRunnableByClosed
  <2> QED BY <2>1, <2>2, <2>3, <2>4, <2>5, <2>6
<1>11. F \in [Flows -> Marks]
  <2>1. \A e \in Flows : F[e] \in Marks
    BY <1>1, <1>2, <1>3, <1>4 DEF Marks, Terminal
  <2> QED BY <2>1
<1>12. \A e \in Flows : F[e] = "unresolved" <=> e.from \notin done \cup {n}
  BY <1>1, <1>2, <1>3, <1>4, <1>5
<1>13. \A e \in Flows : F[e] \in Terminal => w[e] = IF F[e] = "released" THEN "value" ELSE F[e]
  <2> SUFFICES ASSUME NEW e \in Flows, F[e] \in Terminal
               PROVE  w[e] = IF F[e] = "released" THEN "value" ELSE F[e]
    OBVIOUS
  <2>1. CASE e.from = n
    BY <1>2, <1>3, <1>4, <1>6, <2>1
  <2>2. CASE e.from # n
    <3>1. U[e] = arrivals[e] /\ F[e] = Freed[e]
      BY <1>2, <1>4, <2>2
    <3>2. F[e] = arrivals[e] \/ (F[e] = "released" /\ arrivals[e] = "value")
      BY <1>3, <3>1
    <3> QED BY <1>1, <3>2 DEF Terminal
  <2> QED BY <2>1, <2>2
<1>14. \A e \in Flows : F[e] = "value" => ~Wave!Discarded(F, e)
  <2> SUFFICES ASSUME NEW e \in Flows, F[e] = "value", e.to \in Wave!Joins, Wave!NonRunnable(U, e.to)
               PROVE  FALSE
    BY <1>10 DEF Wave!Discarded
  <2>1. CASE Chosen(e)
    <3>1. ~Wave!Discarded(Freed, e)
      BY <1>4, <2>1
    <3> QED BY <1>10, <3>1 DEF Wave!Discarded
  <2>2. CASE ~Chosen(e)
    <3>1. U[e] = "value" /\ e.to \notin dead
      BY <1>3, <1>4, <2>2
    <3>2. e.from # n /\ arrivals[e] = "value"
      BY <1>2, <1>5, <3>1
    <3>3. \A d \in Flows : d.to = e.to => d.from # n
      BY <1>8, <3>1
    <3>4. Wave!NonRunnable(arrivals, e.to)
      BY <1>10, <3>3
    <3> QED BY <1>1, <3>2, <3>4 DEF Wave!Discarded
  <2> QED BY <2>1, <2>2
<1>15. \A e \in Flows : F[e] = "released" => Wave!Discarded(F, e)
  <2> SUFFICES ASSUME NEW e \in Flows, F[e] = "released"
               PROVE  e.to \in Wave!Joins /\ Wave!NonRunnable(U, e.to)
    BY <1>10 DEF Wave!Discarded
  <2>1. CASE Chosen(e)
    <3>1. Wave!Discarded(Freed, e)
      BY <1>4, <2>1
    <3> QED BY <1>10, <3>1 DEF Wave!Discarded
  <2>2. CASE ~Chosen(e) /\ e.to \in dead
    BY <2>2 DEF dead
  <2>3. CASE ~Chosen(e) /\ e.to \notin dead
    <3>1. U[e] = "released"
      BY <1>3, <1>4, <2>3
    <3>2. arrivals[e] = "released"
      BY <1>2, <3>1
    <3>3. Wave!Discarded(arrivals, e)
      BY <1>1, <3>2
    <3> QED BY <1>10, <3>3 DEF Wave!Discarded
  <2> QED BY <2>1, <2>2, <2>3
<1> QED BY <1>11, <1>12, <1>13, <1>14, <1>15 DEF ArrivalsOK

(* The room the values of a wave take: one for each node and one for each flow. *)
Used(d) == Cardinality(d) + Cardinality({e \in Flows : e.from \in d})

LEMMA UsedGrows ==
    ASSUME Wave!GraphAssumption, NEW d, d \subseteq Nodes, NEW n \in Nodes, n \notin d,
           NEW K, K \subseteq Wave!OutOf(n)
    PROVE  /\ Used(d) \in Nat /\ Used(d \cup {n}) \in Nat /\ Cardinality(K) \in Nat
           /\ Used(d) + 1 + Cardinality(K) <= Used(d \cup {n})
           /\ Used(d \cup {n}) <= Cardinality(Nodes) + Cardinality(Flows)
<1> DEFINE From(x) == {e \in Flows : e.from \in x}
           next == d \cup {n}
<1>1. IsFiniteSet(Nodes) /\ IsFiniteSet(Flows) /\ Cardinality(Nodes) \in Nat /\ Cardinality(Flows) \in Nat
  BY WaveCardinality, FS_CardinalityType DEF Wave!GraphAssumption
<1>2. /\ IsFiniteSet(d) /\ Cardinality(d) \in Nat
      /\ Cardinality(next) = Cardinality(d) + 1
      /\ Cardinality(next) <= Cardinality(Nodes)
  <2>1. IsFiniteSet(d) /\ Cardinality(d) \in Nat
    BY <1>1, FS_Subset, FS_CardinalityType
  <2>2. Cardinality(next) = Cardinality(d) + 1
    BY <2>1, FS_AddElement
  <2>3. next \subseteq Nodes
    OBVIOUS
  <2>4. Cardinality(next) <= Cardinality(Nodes)
    <3> HIDE DEF next
    <3> QED BY <1>1, <2>3, FS_Subset
  <2> QED BY <2>1, <2>2, <2>4
<1>3. /\ From(d) \subseteq Flows /\ From(next) \subseteq Flows /\ K \subseteq Flows
      /\ From(d) \cup K \subseteq From(next) /\ From(d) \cap K = {}
  BY DEF Wave!OutOf
<1>4. /\ IsFiniteSet(From(d)) /\ IsFiniteSet(From(next)) /\ IsFiniteSet(K)
      /\ Cardinality(From(d)) \in Nat /\ Cardinality(From(next)) \in Nat /\ Cardinality(K) \in Nat
      /\ Cardinality(From(next)) <= Cardinality(Flows)
  <2> HIDE DEF From, next
  <2> QED BY <1>1, <1>3, FS_Subset, FS_CardinalityType
<1>5. Cardinality(From(d) \cup K) = Cardinality(From(d)) + Cardinality(K)
  <2>1. Cardinality(From(d) \cap K) = 0
    BY <1>3, FS_EmptySet
  <2>2. Cardinality(From(d) \cup K) = Cardinality(From(d)) + Cardinality(K) - Cardinality(From(d) \cap K)
    <3> HIDE DEF From
    <3> QED BY <1>4, FS_Union
  <2> HIDE DEF From
  <2> QED BY <1>4, <2>1, <2>2
<1>6. Cardinality(From(d) \cup K) <= Cardinality(From(next))
  <2> HIDE DEF From, next
  <2> QED BY <1>3, <1>4, FS_Subset
<1>7. Used(d) = Cardinality(d) + Cardinality(From(d)) /\ Used(next) = Cardinality(next) + Cardinality(From(next))
  BY DEF Used
<1> HIDE DEF From
<1>8. Used(next) \in Nat /\ Used(d) + 1 + Cardinality(K) <= Used(next)
  <2> HIDE DEF next
  <2> QED BY <1>2, <1>4, <1>5, <1>6, <1>7
<1>9. Used(next) <= Cardinality(Nodes) + Cardinality(Flows)
  <2> HIDE DEF next
  <2> QED BY <1>1, <1>2, <1>4, <1>7
<1> QED BY <1>2, <1>4, <1>7, <1>8, <1>9

Roomy == Denied = {} /\ Cardinality(Nodes) + Cardinality(Flows) <= MaxValues

Delivers(w, n, port, extra) ==
    /\ ArrivalsOK(w, arrivals', done')
    /\ values' \in Nat /\ (values' > MaxValues => waveFailure')
    /\ waveFailure \/ waveFailure' \/ done' = done \cup {n}
    /\ done' \in {done, done \cup {n}}
    /\ Roomy /\ values <= Used(done) /\ extra + (IF port = Wave!NoPort THEN 0 ELSE 1) <= 1
          => (waveFailure' => waveFailure) /\ values' <= Used(done')

LEMMA Delivered ==
    ASSUME Wave!GraphAssumption, NEW w, ArrivalsOK(w, arrivals, done), done \subseteq Nodes, values \in Nat,
           NEW n \in Nodes, n \notin done, NEW port, NEW failed \in BOOLEAN, Right(w, n, port, failed),
           NEW extra \in Nat, Wave!Deliver(n, port, failed, extra)
    PROVE  Delivers(w, n, port, extra)
<1> DEFINE U == Wave!Unchosen(n, port, failed)
           Freed == Wave!Release(U, n)
           chosen == {e \in Wave!OutOf(n) : e.port = port}
           kept == {e \in chosen : ~Wave!Discarded(Freed, e)}
           one == IF port = Wave!NoPort THEN 0 ELSE 1
           count == values + extra + one + Cardinality(kept)
           good == kept \cap Denied = {} /\ count <= MaxValues
           F == [e \in Flows |-> IF e \in Wave!OutOf(n) /\ e.port = port
                                 THEN IF Wave!Discarded(Freed, e) THEN "released" ELSE "value"
                                 ELSE Freed[e]]
<1>1. /\ values' = count
      /\ arrivals' = IF ~good THEN arrivals
                     ELSE [e \in Flows |-> IF e \in kept THEN "value"
                                           ELSE IF e \in chosen THEN "released"
                                           ELSE Freed[e]]
      /\ done' = IF good THEN done \cup {n} ELSE done
      /\ waveFailure' = (waveFailure \/ ~good)
  BY WaveCardinality DEF Wave!Deliver
<1>2. ArrivalsOK(w, F, done \cup {n})
  <2> HIDE DEF U, Freed
  <2>1. U = Wave!Unchosen(n, port, failed) /\ Freed = Wave!Release(U, n)
    BY DEF U, Freed
  <2> QED BY <2>1, DeliveredFlows
<1>3. good => arrivals' = F
  <2> HIDE DEF Freed
  <2> QED BY <1>1
<1>4. kept \subseteq Wave!OutOf(n)
  OBVIOUS
<1>5. one \in Nat /\ MaxValues \in Nat /\ Cardinality(Nodes) \in Nat /\ Cardinality(Flows) \in Nat
  BY WaveCardinality, FS_CardinalityType DEF Wave!GraphAssumption
<1> HIDE DEF U, Freed, chosen, F, kept
<1>6. /\ Used(done) \in Nat /\ Used(done \cup {n}) \in Nat /\ Cardinality(kept) \in Nat
      /\ Used(done) + 1 + Cardinality(kept) <= Used(done \cup {n})
      /\ Used(done \cup {n}) <= Cardinality(Nodes) + Cardinality(Flows)
  BY <1>4, UsedGrows
<1> HIDE DEF one
<1>7. values' \in Nat /\ (values' > MaxValues => waveFailure')
  <2>1. values' \in Nat
    BY <1>1, <1>5, <1>6
  <2>2. values' > MaxValues => ~good
    BY <1>1, <1>5, <2>1
  <2>3. ~good => waveFailure'
    BY <1>1
  <2> QED BY <2>1, <2>2, <2>3
<1>8. ArrivalsOK(w, arrivals', done')
  <2>1. CASE good
    BY <1>1, <1>2, <1>3, <2>1
  <2>2. CASE ~good
    <3>1. arrivals' = arrivals /\ done' = done
      BY <1>1, <2>2
    <3> QED BY <3>1
  <2> QED BY <2>1, <2>2
<1>9. ASSUME Roomy, values <= Used(done), extra + one <= 1
      PROVE  (waveFailure' => waveFailure) /\ values' <= Used(done')
  <2>1. count <= Used(done \cup {n}) /\ count <= MaxValues
    BY <1>5, <1>6, <1>9 DEF Roomy
  <2>2. good
    BY <1>9, <2>1 DEF Roomy
  <2> QED BY <1>1, <2>1, <2>2
<1>10. waveFailure \/ waveFailure' \/ done' = done \cup {n}
  BY <1>1
<1>11. done' \in {done, done \cup {n}}
  BY <1>1
<1> QED BY <1>7, <1>8, <1>9, <1>10, <1>11 DEF Delivers, one

(* What becomes of a node follows from what it sees. *)
LEMMA FateOfInput ==
    ASSUME Wave!GraphAssumption, NEW arr, NEW dn, ArrivalsOK(Carried, arr, dn),
           NEW n \in Nodes, Kinds[n] # "source"
    PROVE  /\ Wave!Input(arr, n) = "failed" => Wave!Fate[n] = "failed"
           /\ Wave!Input(arr, n) = "closed" => Wave!Fate[n] = "closed"
           /\ Wave!Input(arr, n) = "value" => Wave!Fate[n] = "fires"
           /\ Wave!Input(arr, n) # "released"
           /\ Wave!Input(arr, n) = "conflict" =>
                 Kinds[n] = "merge" /\ Cardinality(With(Wave!Fate, n, "value")) > 1
<1> DEFINE x == Wave!Input(arr, n)
           f == Wave!Fate
<1>1. InputIs(x, Carried, arr, n)
  BY InputFacts
<1>2. Wave!Fate[n] = Means(Wave!Fate, n)
  BY FateMeans
<1>3. \A e \in Wave!Into(n) : e \in Flows /\ Carried[e] = Wave!Carries(Wave!Fate, e)
  BY DEF Carried, Wave!Into
<1>4. \A what : With(Wave!Fate, n, what) = {e \in Wave!Into(n) : Carried[e] = what}
  BY <1>3 DEF With
<1>5. Wave!Fate[n] =
        IF With(Wave!Fate, n, "failed") # {} THEN "failed"
        ELSE IF n \in Wave!Joins
             THEN (IF \A i \in Inputs[n] : \E e \in With(Wave!Fate, n, "value") : e.in = i
                   THEN "fires" ELSE "closed")
        ELSE IF With(Wave!Fate, n, "value") = {} THEN "closed" ELSE "fires"
  BY <1>2 DEF Means
<1> HIDE DEF x
<1>6. x = "failed" => Wave!Fate[n] = "failed"
  BY <1>1, <1>4, <1>5 DEF InputIs
<1>7. x = "closed" => Wave!Fate[n] = "closed"
  BY <1>1, <1>4, <1>5 DEF InputIs
<1>8. x = "value" => Wave!Fate[n] = "fires"
  BY <1>1, <1>4, <1>5 DEF InputIs
<1>9. x # "released"
  BY <1>1 DEF InputIs
<1>10. ASSUME x = "conflict" PROVE Kinds[n] = "merge" /\ Cardinality(With(Wave!Fate, n, "value")) > 1
  <2>1. PICK i \in Inputs[n] : Cardinality(ValuedAt(arr, n, i)) > 1
    BY <1>1, <1>10 DEF InputIs
  <2> DEFINE V == ValuedAt(arr, n, i)
             W == With(Wave!Fate, n, "value")
  <2>2. V \subseteq W
    <3>1. \A e \in V : e \in Wave!Into(n) /\ arr[e] \in Terminal /\ Carried[e] = "value"
      BY <1>3 DEF ValuedAt, ArrivalsOK, Terminal
    <3> QED BY <1>4, <3>1
  <2>3. IsFiniteSet(V) /\ IsFiniteSet(W) /\ Cardinality(V) \in Nat /\ Cardinality(W) \in Nat /\ Cardinality(V) <= Cardinality(W)
    <3>1. W \subseteq Flows /\ IsFiniteSet(Flows)
      BY <1>3, GraphFacts DEF With
    <3> HIDE DEF V, W
    <3>2. IsFiniteSet(W)
      BY <3>1, FS_Subset
    <3> QED BY <2>2, <3>2, FS_Subset, FS_CardinalityType
  <2>4. \E e, d \in V : e # d
    <3> SUFFICES ASSUME \A e, d \in V : e = d PROVE FALSE
      OBVIOUS
    <3>1. V = {} \/ \E e : V = {e}
      BY Zenon
    <3>2. Cardinality(V) \in {0, 1}
      <4> HIDE DEF V
      <4> QED BY <3>1, FS_EmptySet, FS_Singleton
    <3> QED BY <2>1, <3>2
  <2>5. Kinds[n] = "merge"
    BY <2>4 DEF ValuedAt, Wave!GraphAssumption, Wave!Into
  <2> QED BY <2>1, <2>3, <2>5
<1> QED BY <1>6, <1>7, <1>8, <1>9, <1>10 DEF x

ChoicesOK ==
    /\ policies \in [Wave!Invokes -> Wave!ErrorPolicies]
    /\ outcome \in [Wave!Invokes -> {"ok", "err", "kernel"}]
    /\ \A s \in Wave!Switches : taken[s] \in Cases[s]

WaveInv ==
    /\ Wave!TypeOK /\ ChoicesOK
    /\ ArrivalsOK(Carried, arrivals, done)
    /\ \A n \in started : Wave!Fate[n] = "fires"
    /\ \A n \in done \cap Wave!Invokes : Wave!Fate[n] = "fires" => n \in started

RoomInv == values <= Used(done) /\ (waveFailure => Wave!Blamed)

LEMMA WaveStarts ==
    ASSUME Wave!GraphAssumption, Wave!Init
    PROVE  WaveInv /\ RoomInv
<1>1. /\ at = 0 /\ polls = {} /\ arrivals = [e \in Flows |-> "unresolved"]
      /\ started = {} /\ done = {} /\ values = 0 /\ wavePending = {} /\ waveStopped = FALSE /\ waveFailure = FALSE
  BY DEF Wave!Init
<1>2. ChoicesOK
  BY DEF Wave!Init, ChoicesOK
<1>3. MaxValues \in Nat /\ Cardinality(Nodes) \in Nat
  BY GraphFacts DEF Wave!GraphAssumption
<1>4. Wave!Cardinality(Nodes) = Cardinality(Nodes)
  BY WaveCardinality
<1>5. Wave!TypeOK
  BY <1>1, <1>3, <1>4 DEF Wave!TypeOK
<1>6. ArrivalsOK(Carried, arrivals, done)
  BY <1>1 DEF ArrivalsOK, Marks, Terminal
<1>7. Used(done) = 0
  <2>1. {e \in Flows : e.from \in done} = {}
    BY <1>1
  <2> QED BY <1>1, <2>1, FS_EmptySet DEF Used
<1> QED BY <1>1, <1>2, <1>5, <1>6, <1>7 DEF WaveInv, RoomInv

(* What is known of a node whose flows are right. *)
LEMMA RightFlows ==
    ASSUME Wave!GraphAssumption, NEW n \in Nodes, NEW port, NEW failed \in BOOLEAN,
           \/ Wave!Fate[n] = "fires" /\ port = Wave!ChosenPort(n) /\ (failed <=> port = Wave!NoPort)
           \/ Wave!Fate[n] = "closed" /\ port = Wave!NoPort /\ ~failed
           \/ Wave!Fate[n] = "failed" /\ port = Wave!NoPort /\ failed
    PROVE  Right(Carried, n, port, failed)
<1> SUFFICES ASSUME NEW e \in Wave!OutOf(n)
             PROVE  Carried[e] = IF e.port = port THEN "value" ELSE IF failed THEN "failed" ELSE "closed"
  BY DEF Right
<1>1. e \in Flows /\ e.from = n /\ e.port # Wave!NoPort
  BY GraphFacts DEF Wave!OutOf, Wave!NoPort
<1>2. Carried[e] = IF Wave!Fate[n] # "fires" THEN Wave!Fate[n]
                   ELSE IF e.port = Wave!ChosenPort(n) THEN "value"
                   ELSE IF Wave!ChosenPort(n) = Wave!NoPort THEN "failed" ELSE "closed"
  BY <1>1 DEF Carried, Wave!Carries
<1> QED BY <1>1, <1>2

(* The parts of the invariant that an action may disturb. *)
LEMMA WaveFollows ==
    ASSUME Wave!GraphAssumption, WaveInv, UNCHANGED Wave!choices,
           ArrivalsOK(Carried, arrivals', done'), values' \in Nat, values' > MaxValues => waveFailure',
           waveFailure' => waveStopped', at' \in 0 .. Cardinality(Nodes), polls' \subseteq wavePending',
           wavePending' \subseteq started' \ done', started' \subseteq Wave!Invokes, done' \subseteq Nodes,
           \A m \in started' : Wave!Fate[m] = "fires",
           \A m \in done' \cap Wave!Invokes : Wave!Fate[m] = "fires" => m \in started'
    PROVE  WaveInv' /\ (Roomy => (values' <= Used(done') /\ (waveFailure' => Wave!Blamed) => RoomInv'))
<1>1. policies' = policies /\ outcome' = outcome /\ taken' = taken
  BY DEF Wave!choices
<1>2. Wave!Fate' = Wave!Fate /\ \A f, e : Wave!Carries(f, e)' = Wave!Carries(f, e)
  BY <1>1, FateStays
<1>3. Carried' = Carried
  BY <1>2 DEF Carried
<1>4. ChoicesOK'
  BY <1>1 DEF WaveInv, ChoicesOK
<1>5. ArrivalsOK(Carried, arrivals, done)'
  <2>1. ArrivalsOK(Carried', arrivals', done')
    BY <1>3
  <2> QED BY <2>1
<1>6. Wave!TypeOK'
  <2>1. arrivals' \in [Flows -> {"unresolved", "value", "released", "closed", "failed"}]
    BY DEF ArrivalsOK, Marks, Terminal
  <2>2. Wave!Cardinality(Nodes) = Cardinality(Nodes)
    BY WaveCardinality
  <2> QED BY <2>1, <2>2 DEF Wave!TypeOK
<1>7. Wave!Blamed' <=> Wave!Blamed
  BY <1>1, <1>2 DEF Wave!Blamed
<1>8. WaveInv'
  BY <1>2, <1>4, <1>5, <1>6 DEF WaveInv
<1>9. values' <= Used(done') /\ (waveFailure' => Wave!Blamed) => RoomInv'
  BY <1>7 DEF RoomInv, Used
<1> QED BY <1>8, <1>9

(* What an action leaves of the flows and the values. *)
Leaves(n) ==
    /\ ArrivalsOK(Carried, arrivals', done') /\ values' \in Nat /\ (values' > MaxValues => waveFailure')
    /\ waveFailure' => waveStopped'
    /\ done' \in {done, done \cup {n}}
    /\ Roomy /\ RoomInv => values' <= Used(done') /\ (waveFailure' => Wave!Blamed)

LEMMA DeliveryLeaves ==
    ASSUME Wave!GraphAssumption, WaveInv, NEW n \in Nodes, n \notin done, NEW port, NEW failed \in BOOLEAN,
           Right(Carried, n, port, failed), NEW extra \in Nat, Wave!Deliver(n, port, failed, extra),
           extra + (IF port = Wave!NoPort THEN 0 ELSE 1) <= 1, waveFailure' => waveStopped'
    PROVE  Leaves(n)
<1>1. ArrivalsOK(Carried, arrivals, done) /\ done \subseteq Nodes /\ values \in Nat
  BY DEF WaveInv, Wave!TypeOK
<1>2. Delivers(Carried, n, port, extra)
  BY <1>1, Delivered
<1> QED BY <1>2 DEF Delivers, Leaves, RoomInv

LEMMA CompletionLeaves ==
    ASSUME Wave!GraphAssumption, WaveInv, NEW n \in Wave!Invokes, n \notin done,
           Wave!Fate[n] = "fires", Wave!Complete(n)
    PROVE  Leaves(n)
<1>1. /\ n \in Nodes /\ Kinds[n] = "invoke"
      /\ policies[n] \in {"RouteErr", "SkipDependents", "FailRoot"} /\ outcome[n] \in {"ok", "err", "kernel"}
  BY DEF Wave!Invokes, WaveInv, ChoicesOK, Wave!ErrorPolicies
<1>2. ArrivalsOK(Carried, arrivals, done) /\ values \in Nat /\ (values > MaxValues => waveFailure)
  BY DEF WaveInv, Wave!TypeOK
<1>3. CASE outcome[n] = "kernel" /\ Wave!Fail
  <2>1. /\ arrivals' = arrivals /\ done' = done /\ values' = values
        /\ waveFailure' = TRUE /\ waveStopped' = TRUE
    BY <1>3 DEF Wave!Fail, Wave!state
  <2>2. Wave!Blamed
    BY <1>3 DEF Wave!Blamed
  <2> QED BY <1>2, <2>1, <2>2 DEF Leaves, RoomInv
<1>4. CASE /\ outcome[n] = "ok" \/ (outcome[n] = "err" /\ policies[n] = "RouteErr")
           /\ Wave!Deliver(n, outcome[n], FALSE, 0) /\ waveStopped' = waveFailure'
  <2>1. Wave!ChosenPort(n) = outcome[n] /\ outcome[n] # Wave!NoPort
    BY <1>1, <1>4 DEF Wave!ChosenPort, Wave!NoPort
  <2>2. Right(Carried, n, outcome[n], FALSE)
    BY <1>1, <2>1, RightFlows
  <2>3. waveFailure' => waveStopped'
    BY <1>4
  <2>4. 0 \in Nat /\ 0 + (IF outcome[n] = Wave!NoPort THEN 0 ELSE 1) <= 1 /\ FALSE \in BOOLEAN
    OBVIOUS
  <2>5. Wave!Deliver(n, outcome[n], FALSE, 0)
    BY <1>4
  <2> QED BY ONLY Wave!GraphAssumption, WaveInv, n \notin done, <1>1, <2>2, <2>3, <2>4, <2>5, DeliveryLeaves
<1>5. CASE /\ outcome[n] = "err" /\ policies[n] # "RouteErr"
           /\ Wave!Deliver(n, Wave!NoPort, TRUE, 1) /\ waveStopped' = (waveFailure' \/ policies[n] = "FailRoot")
  <2>1. Wave!ChosenPort(n) = Wave!NoPort
    BY <1>1, <1>5 DEF Wave!ChosenPort
  <2>2. Right(Carried, n, Wave!NoPort, TRUE)
    BY <1>1, <2>1, RightFlows
  <2>3. waveFailure' => waveStopped'
    BY <1>5
  <2>4. 1 \in Nat /\ 1 + (IF Wave!NoPort = Wave!NoPort THEN 0 ELSE 1) <= 1 /\ TRUE \in BOOLEAN
    OBVIOUS
  <2>5. Wave!Deliver(n, Wave!NoPort, TRUE, 1)
    BY <1>5
  <2> QED BY ONLY Wave!GraphAssumption, WaveInv, n \notin done, <1>1, <2>2, <2>3, <2>4, <2>5, DeliveryLeaves
<1> QED BY <1>3, <1>4, <1>5 DEF Wave!Complete

LEMMA WaveAnswered ==
    ASSUME Wave!GraphAssumption, WaveInv, NEW n \in Nodes, Wave!Answered(n)
    PROVE  WaveInv' /\ (Roomy /\ RoomInv => RoomInv')
<1>1. /\ n \in polls /\ polls' = polls \ {n} /\ wavePending' = wavePending \ {n} /\ Wave!Complete(n)
      /\ UNCHANGED Wave!choices /\ at' = at /\ started' = started
  BY DEF Wave!Answered
<1>2. /\ at \in 0 .. Cardinality(Nodes) /\ polls \subseteq wavePending /\ wavePending \subseteq started \ done
      /\ started \subseteq Wave!Invokes /\ done \subseteq Nodes
  BY WaveCardinality DEF WaveInv, Wave!TypeOK
<1>3. n \in Wave!Invokes /\ n \in started /\ n \notin done /\ Wave!Fate[n] = "fires"
  BY <1>1, <1>2 DEF WaveInv
<1>4. Leaves(n)
  BY <1>1, <1>3, CompletionLeaves
<1>5. \A m \in done' \cap Wave!Invokes : Wave!Fate[m] = "fires" => m \in started'
  BY <1>1, <1>3, <1>4 DEF WaveInv, Leaves
<1>6. \A m \in started' : Wave!Fate[m] = "fires"
  BY <1>1 DEF WaveInv
<1>7. done' \subseteq Nodes /\ wavePending' \subseteq started' \ done' /\ polls' \subseteq wavePending'
  BY <1>1, <1>2, <1>4 DEF Leaves
<1> QED BY <1>1, <1>2, <1>4, <1>5, <1>6, <1>7, WaveFollows DEF Leaves

LEMMA WaveStepKeeps ==
    ASSUME Wave!GraphAssumption, WaveInv, NEW n \in Nodes, Wave!Walking(n), Wave!Step
    PROVE  at' \in 0 .. Cardinality(Nodes) /\ UNCHANGED Wave!choices /\ polls = {} /\ polls' = {}
<1>1. n \in 1 .. Cardinality(Nodes) /\ Cardinality(Nodes) \in Nat
  BY GraphFacts
<1>2. at = n /\ polls = {} /\ polls' = polls /\ UNCHANGED Wave!choices
  BY DEF Wave!Walking, Wave!Step
<1>3. at' = IF at = Cardinality(Nodes) THEN 0 ELSE at + 1
  BY WaveCardinality DEF Wave!Step
<1> QED BY <1>1, <1>2, <1>3

LEMMA WaveResolve ==
    ASSUME Wave!GraphAssumption, WaveInv, NEW n \in Nodes, Wave!Resolve(n)
    PROVE  WaveInv' /\ (Roomy /\ RoomInv => RoomInv')
<1>1. /\ Wave!Walking(n) /\ Wave!Step /\ n \notin started \cup done
      /\ started' = started /\ wavePending' = wavePending /\ (waveFailure' => waveStopped')
  BY DEF Wave!Resolve, Wave!Due
<1>2. /\ at' \in 0 .. Cardinality(Nodes) /\ UNCHANGED Wave!choices /\ polls = {} /\ polls' = {}
  BY <1>1, WaveStepKeeps
<1>3. /\ wavePending \subseteq started \ done /\ started \subseteq Wave!Invokes /\ done \subseteq Nodes
      /\ ArrivalsOK(Carried, arrivals, done)
  BY DEF WaveInv, Wave!TypeOK
<1>4. Leaves(n) /\ (n \in Wave!Invokes => Wave!Fate[n] # "fires")
  <2>1. CASE Wave!ResolveSource(n)
    <3>1. Kinds[n] = "source" /\ Wave!Deliver(n, IF n = Source THEN "out" ELSE Wave!NoPort, FALSE, 0)
      BY <2>1 DEF Wave!ResolveSource
    <3>2. Wave!Fate[n] = IF n = Source THEN "fires" ELSE "closed"
      BY <3>1, FateMeans DEF Means
    <3>3. Wave!ChosenPort(n) = "out" /\ Wave!NoPort # "out"
      BY <3>1 DEF Wave!ChosenPort, Wave!NoPort
    <3> DEFINE port == IF n = Source THEN "out" ELSE Wave!NoPort
    <3>4. Right(Carried, n, port, FALSE)
      BY <3>2, <3>3, RightFlows
    <3>5. Leaves(n)
      <4>1. Wave!Deliver(n, port, FALSE, 0)
        BY <3>1
      <4> HIDE DEF port
      <4>2. 0 \in Nat /\ 0 + (IF port = Wave!NoPort THEN 0 ELSE 1) <= 1 /\ FALSE \in BOOLEAN
        OBVIOUS
      <4>3. n \notin done /\ (waveFailure' => waveStopped')
        BY <1>1
      <4> QED BY ONLY Wave!GraphAssumption, WaveInv, n \in Nodes, <3>4, <4>1, <4>2, <4>3, DeliveryLeaves
    <3> QED BY <3>1, <3>5 DEF Wave!Invokes
  <2>2. CASE Wave!ResolveDead(n)
    <3> DEFINE failed == Wave!Input(arrivals, n) = "failed"
    <3>1. /\ Kinds[n] # "source" /\ Wave!Input(arrivals, n) \in {"closed", "failed"}
          /\ Wave!Deliver(n, Wave!NoPort, failed, 0)
      BY <2>2 DEF Wave!ResolveDead
    <3>2. Wave!Fate[n] = IF failed THEN "failed" ELSE "closed"
      BY <1>3, <3>1, FateOfInput
    <3>3. failed \in BOOLEAN
      OBVIOUS
    <3> HIDE DEF failed
    <3>4. Right(Carried, n, Wave!NoPort, failed)
      BY <3>2, <3>3, RightFlows
    <3>5. Leaves(n)
      BY <1>1, <3>1, <3>3, <3>4, DeliveryLeaves
    <3> QED BY <3>2, <3>5
  <2>3. CASE /\ Kinds[n] \in {"constant", "switch", "merge", "join"} /\ Wave!Input(arrivals, n) = "value"
             /\ Wave!Deliver(n, IF Kinds[n] = "switch" THEN taken[n] ELSE "out", FALSE, 0)
    <3> DEFINE port == IF Kinds[n] = "switch" THEN taken[n] ELSE "out"
    <3>1. Wave!Fate[n] = "fires"
      BY <1>3, <2>3, FateOfInput
    <3>2. Wave!ChosenPort(n) = port
      BY <2>3 DEF Wave!ChosenPort
    <3>3. port # Wave!NoPort
      BY DEF WaveInv, ChoicesOK, Wave!Switches, Wave!GraphAssumption, Wave!NoPort
    <3>4. Wave!Deliver(n, port, FALSE, 0)
      BY <2>3
    <3> HIDE DEF port
    <3>5. Right(Carried, n, port, FALSE)
      BY <3>1, <3>2, <3>3, RightFlows
    <3>6. Leaves(n)
      <4>1. 0 \in Nat /\ 0 + (IF port = Wave!NoPort THEN 0 ELSE 1) <= 1 /\ FALSE \in BOOLEAN
        OBVIOUS
      <4>2. n \notin done /\ (waveFailure' => waveStopped')
        BY <1>1
      <4> QED BY ONLY Wave!GraphAssumption, WaveInv, n \in Nodes, <3>4, <3>5, <4>1, <4>2, DeliveryLeaves
    <3> QED BY <2>3, <3>6 DEF Wave!Invokes
  <2> QED BY <2>1, <2>2, <2>3 DEF Wave!Resolve
<1>5. \A m \in done' \cap Wave!Invokes : Wave!Fate[m] = "fires" => m \in started'
  BY <1>1, <1>4 DEF WaveInv, Leaves
<1>6. \A m \in started' : Wave!Fate[m] = "fires"
  BY <1>1 DEF WaveInv
<1>7. done' \subseteq Nodes /\ wavePending' \subseteq started' \ done'
  BY <1>1, <1>3, <1>4 DEF Leaves
<1> QED BY <1>1, <1>2, <1>3, <1>4, <1>5, <1>6, <1>7, WaveFollows DEF Leaves

LEMMA WaveViolated ==
    ASSUME Wave!GraphAssumption, WaveInv, NEW n \in Nodes, Wave!Violated(n)
    PROVE  WaveInv' /\ (Roomy /\ RoomInv => RoomInv')
<1>1. /\ Wave!Walking(n) /\ Wave!Step /\ Kinds[n] # "source" /\ Wave!Input(arrivals, n) \in {"conflict", "released"}
      /\ started' = started /\ wavePending' = wavePending /\ waveFailure' /\ waveStopped'
      /\ arrivals' = arrivals /\ done' = done /\ values' = values
  BY DEF Wave!Violated, Wave!Fail, Wave!state
<1>2. /\ at' \in 0 .. Cardinality(Nodes) /\ UNCHANGED Wave!choices /\ polls' = {}
  BY <1>1, WaveStepKeeps
<1>3. ArrivalsOK(Carried, arrivals, done)
  BY DEF WaveInv
<1>4. Wave!Blamed
  <2>1. Kinds[n] = "merge" /\ Cardinality(With(Wave!Fate, n, "value")) > 1
    BY <1>1, <1>3, FateOfInput
  <2> QED BY <2>1, WaveCardinality DEF Wave!Blamed, With
<1>5. /\ wavePending \subseteq started \ done /\ started \subseteq Wave!Invokes /\ done \subseteq Nodes /\ values \in Nat
  BY DEF WaveInv, Wave!TypeOK
<1>6. /\ \A m \in started' : Wave!Fate[m] = "fires"
      /\ \A m \in done' \cap Wave!Invokes : Wave!Fate[m] = "fires" => m \in started'
  BY <1>1 DEF WaveInv
<1> QED BY <1>1, <1>2, <1>3, <1>4, <1>5, <1>6, WaveFollows DEF RoomInv

LEMMA WaveCall ==
    ASSUME Wave!GraphAssumption, WaveInv, NEW n \in Nodes, Wave!Call(n)
    PROVE  WaveInv' /\ (Roomy /\ RoomInv => RoomInv')
<1>1. /\ Wave!Walking(n) /\ Wave!Step /\ n \notin started \cup done /\ Kinds[n] = "invoke"
      /\ Wave!Input(arrivals, n) = "value" /\ started' = started \cup {n}
      /\ \/ wavePending' = wavePending \cup {n} /\ UNCHANGED <<Wave!state, waveStopped, waveFailure>>
         \/ Wave!Complete(n) /\ wavePending' = wavePending
  BY DEF Wave!Call, Wave!Due
<1>2. /\ at' \in 0 .. Cardinality(Nodes) /\ UNCHANGED Wave!choices /\ polls' = {}
  BY <1>1, WaveStepKeeps
<1>3. /\ wavePending \subseteq started \ done /\ started \subseteq Wave!Invokes /\ done \subseteq Nodes /\ values \in Nat
      /\ ArrivalsOK(Carried, arrivals, done) /\ (values > MaxValues => waveFailure) /\ (waveFailure => waveStopped)
  BY DEF WaveInv, Wave!TypeOK
<1>4. n \in Wave!Invokes /\ Wave!Fate[n] = "fires"
  BY <1>1, <1>3, FateOfInput DEF Wave!Invokes
<1>5. \A m \in started' : Wave!Fate[m] = "fires"
  BY <1>1, <1>4 DEF WaveInv
<1>6. CASE wavePending' = wavePending \cup {n} /\ UNCHANGED <<Wave!state, waveStopped, waveFailure>>
  <2>1. arrivals' = arrivals /\ done' = done /\ values' = values /\ waveStopped' = waveStopped /\ waveFailure' = waveFailure
    BY <1>6 DEF Wave!state
  <2>2. /\ wavePending' \subseteq started' \ done' /\ started' \subseteq Wave!Invokes
        /\ \A m \in done' \cap Wave!Invokes : Wave!Fate[m] = "fires" => m \in started'
    BY <1>1, <1>3, <1>4, <1>6, <2>1 DEF WaveInv
  <2> QED BY <1>2, <1>3, <1>5, <2>1, <2>2, WaveFollows DEF RoomInv
<1>7. CASE Wave!Complete(n) /\ wavePending' = wavePending
  <2>1. Leaves(n)
    BY <1>1, <1>4, <1>7, CompletionLeaves
  <2>2. /\ wavePending' \subseteq started' \ done' /\ started' \subseteq Wave!Invokes /\ done' \subseteq Nodes
        /\ \A m \in done' \cap Wave!Invokes : Wave!Fate[m] = "fires" => m \in started'
    BY <1>1, <1>3, <1>4, <1>7, <2>1 DEF WaveInv, Leaves
  <2> QED BY <1>2, <1>3, <1>5, <2>1, <2>2, WaveFollows DEF Leaves
<1> QED BY <1>1, <1>6, <1>7

(* An action that leaves flows, values and calls alone. *)
LEMMA WaveIdles ==
    ASSUME Wave!GraphAssumption, WaveInv, UNCHANGED <<Wave!choices, Wave!state, started, wavePending, waveStopped, waveFailure>>,
           at' \in 0 .. Cardinality(Nodes), polls' \subseteq wavePending'
    PROVE  WaveInv' /\ (Roomy /\ RoomInv => RoomInv')
<1>1. /\ UNCHANGED Wave!choices /\ arrivals' = arrivals /\ done' = done /\ values' = values
      /\ started' = started /\ wavePending' = wavePending /\ waveStopped' = waveStopped /\ waveFailure' = waveFailure
  BY DEF Wave!state
<1>2. /\ wavePending \subseteq started \ done /\ started \subseteq Wave!Invokes /\ done \subseteq Nodes /\ values \in Nat
      /\ ArrivalsOK(Carried, arrivals, done) /\ (values > MaxValues => waveFailure) /\ (waveFailure => waveStopped)
  BY DEF WaveInv, Wave!TypeOK
<1>3. /\ \A m \in started' : Wave!Fate[m] = "fires"
      /\ \A m \in done' \cap Wave!Invokes : Wave!Fate[m] = "fires" => m \in started'
  BY <1>1 DEF WaveInv
<1> QED BY <1>1, <1>2, <1>3, WaveFollows DEF RoomInv

LEMMA WaveKeeps ==
    ASSUME Wave!GraphAssumption, WaveInv, [Wave!Next]_(Wave!vars)
    PROVE  WaveInv' /\ (Roomy /\ RoomInv => RoomInv')
<1>1. /\ at \in 0 .. Cardinality(Nodes) /\ polls \subseteq wavePending /\ Cardinality(Nodes) \in Nat
      /\ Nodes = 1 .. Cardinality(Nodes) /\ 1 \in 0 .. Cardinality(Nodes)
  <2>1. Source \in Nodes /\ Nodes = 1 .. Cardinality(Nodes) /\ Cardinality(Nodes) \in Nat
    BY GraphFacts DEF Wave!GraphAssumption
  <2> QED BY <2>1, WaveCardinality DEF WaveInv, Wave!TypeOK
<1>2. CASE Wave!StartPump
  BY <1>1, <1>2, WaveIdles DEF Wave!StartPump
<1>3. ASSUME NEW n \in Nodes, Wave!StillPending(n) PROVE WaveInv' /\ (Roomy /\ RoomInv => RoomInv')
  BY <1>1, <1>3, WaveIdles DEF Wave!StillPending
<1>4. ASSUME NEW n \in Nodes, Wave!Pass(n) PROVE WaveInv' /\ (Roomy /\ RoomInv => RoomInv')
  <2>1. /\ Wave!Walking(n) /\ Wave!Step /\ UNCHANGED <<Wave!state, started, wavePending, waveStopped, waveFailure>>
    BY <1>4 DEF Wave!Pass
  <2>2. at' \in 0 .. Cardinality(Nodes) /\ UNCHANGED Wave!choices /\ polls' = {}
    BY <2>1, WaveStepKeeps
  <2> QED BY <2>1, <2>2, WaveIdles
<1>5. CASE UNCHANGED Wave!vars
  <2>1. UNCHANGED <<Wave!choices, Wave!state, started, wavePending, waveStopped, waveFailure>> /\ at' = at /\ polls' = polls
    BY <1>5 DEF Wave!vars
  <2>2. wavePending' = wavePending
    BY <2>1
  <2> QED BY <1>1, <2>1, <2>2, WaveIdles
<1>6. CASE Wave!Over
  BY <1>5, <1>6 DEF Wave!Over
<1>7. CASE Wave!Pump
  BY <1>2, <1>4, <1>7, WaveResolve, WaveViolated, WaveCall DEF Wave!Pump
<1>8. CASE \E n \in Nodes : Wave!StillPending(n) \/ Wave!Answered(n)
  BY <1>3, <1>8, WaveAnswered
<1> QED BY <1>5, <1>6, <1>7, <1>8 DEF Wave!Next

LEMMA WaveImplies ==
    ASSUME Wave!GraphAssumption, WaveInv
    PROVE  /\ Wave!TypeOK /\ Wave!Confluent /\ Wave!CalledExactlyWhenFired /\ Wave!OnlyDeadJoinsAreReleased
           /\ RoomInv => Wave!FailuresAreNotTiming
<1>1. Wave!TypeOK /\ ArrivalsOK(Carried, arrivals, done) /\ done \subseteq Nodes /\ started \subseteq Wave!Invokes
  BY DEF WaveInv, Wave!TypeOK
<1>2. \A e \in Flows : Carried[e] = Wave!Carries(Wave!Fate, e)
  BY DEF Carried
<1>3. Wave!Confluent
  <2>1. \A e \in Flows : arrivals[e] # "unresolved" =>
           Carried[e] = IF arrivals[e] = "released" THEN "value" ELSE arrivals[e]
    BY <1>1 DEF ArrivalsOK, Marks
  <2> QED BY <1>2, <2>1 DEF Wave!Confluent
<1>4. Wave!CalledExactlyWhenFired
  <2>1. \A n \in started : Wave!Fate[n] = "fires"
    BY DEF WaveInv
  <2>2. ASSUME done = Nodes PROVE started = {n \in Wave!Invokes : Wave!Fate[n] = "fires"}
    <3>1. Wave!Invokes \subseteq Nodes
      BY DEF Wave!Invokes
    <3> QED BY <1>1, <2>1, <2>2, <3>1 DEF WaveInv
  <2> QED BY <2>1, <2>2 DEF Wave!CalledExactlyWhenFired
<1>5. Wave!OnlyDeadJoinsAreReleased
  <2>1. \A e \in Flows : arrivals[e] = "value" => ~Wave!Discarded(arrivals, e)
    BY <1>1 DEF ArrivalsOK
  <2>2. ASSUME NEW e \in Flows, arrivals[e] = "released" PROVE Wave!Fate[e.to] # "fires"
    <3>1. e.to \in Nodes /\ Kinds[e.to] = "join" /\ Wave!NonRunnable(arrivals, e.to)
      BY <1>1, <2>2 DEF ArrivalsOK, Wave!Discarded, Wave!Joins
    <3>2. PICK i \in Inputs[e.to] : \A d \in Wave!Into(e.to) : d.in = i => arrivals[d] = "closed"
      BY <3>1 DEF Wave!NonRunnable
    <3>3. ASSUME NEW d \in Wave!Into(e.to), d.in = i PROVE Wave!Carries(Wave!Fate, d) = "closed"
      <4>1. d \in Flows /\ arrivals[d] = "closed"
        BY <3>2, <3>3 DEF Wave!Into
      <4> QED BY <1>1, <1>2, <4>1 DEF ArrivalsOK, Terminal
    <3>4. \A d \in With(Wave!Fate, e.to, "value") : d.in # i
      BY <3>3 DEF With
    <3>5. Wave!Fate[e.to] = Means(Wave!Fate, e.to) /\ e.to \in Wave!Joins
      BY <3>1, FateMeans DEF Wave!Joins
    <3> QED BY <3>1, <3>2, <3>4, <3>5 DEF Means
  <2> QED BY <2>1, <2>2 DEF Wave!OnlyDeadJoinsAreReleased
<1> QED BY <1>1, <1>3, <1>4, <1>5 DEF RoomInv, Wave!FailuresAreNotTiming

(* Whatever order operations answer in: every flow is resolved to what the graph means or  *)
(* not at all, exactly the operations it fires are called, and only joins that cannot run   *)
(* release payloads, in a root of any scope and any room (graph/v2/execute.rs).             *)
THEOREM WavesFollowTheirGraph ==
    ASSUME Wave!GraphAssumption
    PROVE  Wave!Spec => [](Wave!TypeOK /\ Wave!Confluent /\ Wave!CalledExactlyWhenFired
                             /\ Wave!OnlyDeadJoinsAreReleased)
<1>1. Wave!Init => WaveInv
  BY WaveStarts
<1>2. WaveInv /\ [Wave!Next]_(Wave!vars) => WaveInv'
  BY WaveKeeps
<1>3. WaveInv => Wave!TypeOK /\ Wave!Confluent /\ Wave!CalledExactlyWhenFired /\ Wave!OnlyDeadJoinsAreReleased
  BY WaveImplies
<1> QED BY <1>1, <1>2, <1>3, PTL DEF Wave!Spec

(* A root that may deliver everything and has room for the values of every node and flow    *)
(* fails for what the graph means only: a kernel failure of an operation that fires, or two *)
(* values for a merge.  MAX_ROOT_VALUES and a scope that denies a flow are counted and met   *)
(* on the way, and there the order of answers matters.                                      *)
THEOREM WavesStayConfluent ==
    ASSUME Wave!GraphAssumption, Denied = {}, Cardinality(Nodes) + Cardinality(Flows) <= MaxValues
    PROVE  Wave!Spec => []WavesAreConfluent
<1>1. Wave!Init => WaveInv /\ RoomInv
  BY WaveStarts
<1>2. WaveInv /\ RoomInv /\ [Wave!Next]_(Wave!vars) => (WaveInv /\ RoomInv)'
  BY WaveKeeps DEF Roomy
<1>3. WaveInv /\ RoomInv => WavesAreConfluent
  BY WaveImplies DEF Wave!WavesAreConfluent, WavesAreConfluent
<1> QED BY <1>1, <1>2, <1>3, PTL DEF Wave!Spec
=============================================================================
