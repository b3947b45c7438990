------------------------ MODULE AgentRegistryProofs ------------------------
(***************************************************************************)
(* The registry's invariants for every set of agents, paths, reservations  *)
(* and limits.  IInv is the inductive invariant: the index invariant needs *)
(* to know which key an entry sits under (KeysAgree), path ownership needs *)
(* the index, and the slot accounting needs both, because it counts live   *)
(* agents through thread_paths.                                            *)
(***************************************************************************)
EXTENDS AgentRegistry, FiniteSetTheorems, TLAPS

\* An entry sits under the key its metadata gives; the root path belongs to a
\* root thread and to nobody else.
KeysAgree ==
    \A k \in Keys : agent_tree[k] # None =>
        LET m == agent_tree[k] IN
        /\ m.agent_path = None => m.agent_id # None
        /\ k = MetadataKey(m.agent_id, m.agent_path)
        /\ m.agent_id \in Roots <=> m.agent_path = RootPath

IInv == TypeOK /\ IndexConsistent /\ KeysAgree /\ ReservedPathsHeld /\ SlotsAccounted

-----------------------------------------------------------------------------
\* agent_tree keys: distinct paths and distinct pathless threads have distinct keys.
LEMMA KeyFacts ==
    /\ \A p \in Paths \cup {RootPath} : PathKey(p) \in Keys
    /\ \A t \in Threads : ThreadKey(t) \in Keys
    /\ \A p, q : PathKey(p) = PathKey(q) => p = q
    /\ \A t, u : ThreadKey(t) = ThreadKey(u) => t = u
    /\ \A p, t : PathKey(p) # ThreadKey(t)
    /\ \A t \in Threads, p \in Paths \cup {None} : MetadataKey(t, p) \in Keys
BY RegistryAssumption DEF Keys, PathKey, ThreadKey, MetadataKey

\* The values None stands apart from.
LEMMA NoneFacts ==
    /\ None \notin Threads /\ None \notin Paths /\ None # RootPath /\ None \notin Nicknames
    /\ None \notin Keys /\ None \notin Metadata
BY RegistryAssumption

\* Sub-agents and roots are told apart by thread id and by path.
LEMMA RootFacts ==
    /\ RootPath \notin Paths
    /\ \A t \in Agents : t \in Threads /\ t \notin Roots
    /\ \A t \in Roots : t \in Threads
    /\ \A t \in Threads : t \in Agents \/ t \in Roots
BY RegistryAssumption DEF Threads

-----------------------------------------------------------------------------
\* Every registry operation keeps the types, given that no decrement wraps.
LEMMA TypeStep ==
    ASSUME IInv, Next, total_count' \in Nat
    PROVE  TypeOK'
<1> USE KeyFacts, NoneFacts, RootFacts
<1>0. TypeOK
  BY DEF IInv
<1>1. ASSUME NEW r \in Reservations, NEW limit \in Limits, reserve_spawn_slot(r, limit)
      PROVE TypeOK'
  BY <1>0, <1>1 DEF TypeOK, reserve_spawn_slot, NoReservation, nicknameVars
<1>2. ASSUME NEW r \in Reservations, NEW p \in Paths, reserve_agent_path(r, p)
      PROVE TypeOK'
  BY <1>0, <1>2 DEF TypeOK, reserve_agent_path, nicknameVars, Metadata
<1>3. ASSUME NEW r \in Reservations, NEW nickname \in Preferred,
             reserve_preferred_nickname(r, nickname)
      PROVE TypeOK'
  BY <1>0, <1>3, RegistryAssumption DEF TypeOK, reserve_preferred_nickname, TakeNickname
<1>4. ASSUME NEW r \in Reservations, NEW pool \in Pools, draw_nickname(r, pool)
      PROVE TypeOK'
  <2>1. PICK nickname \in AvailableNames(pool) : TakeNickname(r, nickname, used_agent_nicknames)
    BY <1>4 DEF draw_nickname
  <2>2. nickname \in Nicknames
    BY <1>0, <2>1, RegistryAssumption DEF AvailableNames, Nicknames, TypeOK
  <2> QED BY <1>0, <1>4, <2>1, <2>2 DEF TypeOK, draw_nickname, TakeNickname
<1>5. ASSUME NEW r \in Reservations, NEW pool \in Pools, reset_nickname_pool(r, pool)
      PROVE TypeOK'
  <2>1. PICK name \in pool : TakeNickname(r, <<name, nickname_reset_count + 1>>, {})
    BY <1>5 DEF reset_nickname_pool
  <2>2. nickname_reset_count + 1 \in 0..MaxResets
    BY <1>0, <1>5, RegistryAssumption DEF TypeOK, reset_nickname_pool
  <2>3. <<name, nickname_reset_count + 1>> \in Nicknames
    BY <2>1, <2>2, RegistryAssumption DEF Nicknames
  <2> QED BY <1>0, <1>5, <2>1, <2>2, <2>3 DEF TypeOK, reset_nickname_pool, TakeNickname
<1>6. ASSUME NEW r \in Reservations, NEW t \in Agents, commit(r, t)
      PROVE TypeOK'
  <2> DEFINE p == reservation[r].path
             key == MetadataKey(t, p)
  <2>1. p \in Paths \cup {None} /\ reservation[r].nickname \in Nicknames \cup {None}
    BY <1>0 DEF TypeOK
  <2>2. key \in Keys
    BY <2>1
  <2>3. [agent_id |-> t, agent_path |-> p, agent_nickname |-> reservation[r].nickname]
           \in Metadata
    BY <2>1 DEF Metadata
  <2>4. agent_tree' \in [Keys -> Metadata \cup {None}]
    BY <1>0, <1>6, <2>3 DEF TypeOK, commit, register_spawned_thread
  <2>5. thread_paths' \in [Threads -> Keys \cup {None}]
    BY <1>0, <1>6, <2>2 DEF TypeOK, commit, register_spawned_thread
  <2> QED BY <1>0, <1>6, <2>1, <2>4, <2>5
          DEF TypeOK, commit, register_spawned_thread, NoReservation
<1>7. ASSUME NEW r \in Reservations, drop_reservation(r)
      PROVE TypeOK'
  BY <1>0, <1>7 DEF TypeOK, drop_reservation, NoReservation, nicknameVars
<1>8. ASSUME NEW r \in Reservations, drop_decrement(r)
      PROVE TypeOK'
  BY <1>0, <1>8 DEF TypeOK, drop_decrement, NoReservation, nicknameVars
<1>9. ASSUME NEW c \in Releasers, NEW t \in Threads, release_spawned_thread(c, t)
      PROVE TypeOK'
  BY <1>0, <1>9 DEF TypeOK, release_spawned_thread, nicknameVars
<1>10. ASSUME NEW c \in Releasers, release_decrement(c)
       PROVE TypeOK'
  BY <1>0, <1>10 DEF TypeOK, release_decrement, nicknameVars
<1>11. ASSUME NEW t \in Roots, register_root_thread(t)
       PROVE TypeOK'
  <2> DEFINE key == PathKey(RootPath)
             root == IF agent_tree[key] = None
                     THEN [agent_id |-> t, agent_path |-> RootPath, agent_nickname |-> None]
                     ELSE agent_tree[key]
  <2>1. root \in Metadata
    BY <1>0 DEF TypeOK, Metadata
  <2>2. root.agent_id \in Threads \cup {None}
    BY <2>1 DEF Metadata
  <2> QED BY <1>0, <1>11, <2>1, <2>2 DEF TypeOK, register_root_thread, nicknameVars
<1> QED BY <1>1, <1>2, <1>3, <1>4, <1>5, <1>6, <1>7, <1>8, <1>9, <1>10, <1>11
        DEF Next, ReservationStep, ReleaserStep

-----------------------------------------------------------------------------
\* Only these actions write the two maps.
MapStep ==
    \/ \E r \in Reservations, p \in Paths : reserve_agent_path(r, p)
    \/ \E r \in Reservations, t \in Agents : commit(r, t)
    \/ \E r \in Reservations : drop_reservation(r)
    \/ \E c \in Releasers, t \in Threads : release_spawned_thread(c, t)
    \/ \E t \in Roots : register_root_thread(t)

\* The counter and nickname operations leave both maps alone.
LEMMA OtherSteps ==
    ASSUME Next
    PROVE  MapStep \/ UNCHANGED <<agent_tree, thread_paths>>
BY DEF Next, ReservationStep, ReleaserStep, MapStep, reserve_spawn_slot,
       reserve_preferred_nickname, draw_nickname, reset_nickname_pool,
       drop_decrement, release_decrement

\* What a commit finds: the reserved path is a placeholder of this reservation, so
\* the displaced-thread branch of register_spawned_thread concerns t itself only.
LEMMA CommitFacts ==
    ASSUME IInv, NEW r \in Reservations, NEW t \in Agents, commit(r, t)
    PROVE  LET key == MetadataKey(t, reservation[r].path) IN
           /\ key \in Keys
           /\ agent_tree[key] # None => agent_tree[key].agent_id \in {None, t}
           /\ thread_paths' = [thread_paths EXCEPT ![t] = key]
           /\ agent_tree' = [k \in Keys |->
                 IF k = key THEN [agent_id |-> t, agent_path |-> reservation[r].path,
                                  agent_nickname |-> reservation[r].nickname]
                 ELSE IF k = thread_paths[t] THEN None ELSE agent_tree[k]]
<1> USE KeyFacts, NoneFacts, RootFacts
<1> DEFINE p == reservation[r].path
           key == MetadataKey(t, p)
<1>1. p \in Paths \cup {None} /\ reservation[r].stage = "active"
  BY DEF IInv, TypeOK, commit
<1>2. key \in Keys
  BY <1>1
<1>3. agent_tree[key] # None => agent_tree[key].agent_id \in {None, t}
  <2>1. CASE p = None
    BY <2>1, <1>2 DEF MetadataKey, IInv, KeysAgree
  <2>2. CASE p \in Paths
    BY <2>2, <1>1 DEF IInv, ReservedPathsHeld, ReservationHolds, MetadataKey
  <2> QED BY <1>1, <2>1, <2>2
<1>4. thread_paths' = [thread_paths EXCEPT ![t] = key]
  BY <1>3 DEF commit, register_spawned_thread, IInv, TypeOK
<1> QED BY <1>2, <1>3, <1>4 DEF commit, register_spawned_thread

\* Every registry operation keeps the two maps inverse to each other, and every
\* entry under the key its metadata asks for.
LEMMA IndexStep ==
    ASSUME IInv, Next
    PROVE  IndexConsistent' /\ KeysAgree'
<1> USE KeyFacts, NoneFacts, RootFacts DEF IInv
<1>1. ASSUME NEW r \in Reservations, NEW p \in Paths, reserve_agent_path(r, p)
      PROVE IndexConsistent' /\ KeysAgree'
  BY <1>1 DEF TypeOK, IndexConsistent, KeysAgree, reserve_agent_path, MetadataKey
<1>2. ASSUME NEW r \in Reservations, NEW t \in Agents, commit(r, t)
      PROVE IndexConsistent' /\ KeysAgree'
  <2> DEFINE p == reservation[r].path
             key == MetadataKey(t, p)
  <2>0. p \in Paths \cup {None}
    BY DEF TypeOK
  <2>1. IndexConsistent'
    <3>1. key \in Keys
      BY <1>2, CommitFacts
    <3>2. agent_tree[key] # None => agent_tree[key].agent_id \in {None, t}
      BY <1>2, CommitFacts
    <3>3. thread_paths' = [thread_paths EXCEPT ![t] = key]
      BY <1>2, CommitFacts
    <3>4. agent_tree' = [k \in Keys |->
              IF k = key THEN [agent_id |-> t, agent_path |-> p,
                               agent_nickname |-> reservation[r].nickname]
              ELSE IF k = thread_paths[t] THEN None ELSE agent_tree[k]]
      BY <1>2, CommitFacts
    <3>7. [agent_id |-> t, agent_path |-> p, agent_nickname |-> reservation[r].nickname] # None
      BY <2>0 DEF TypeOK, Metadata
    <3> HIDE DEF key, p
    <3>5. ASSUME NEW u \in Threads, thread_paths'[u] # None
          PROVE  /\ agent_tree'[thread_paths'[u]] # None
                 /\ agent_tree'[thread_paths'[u]].agent_id = u
      <4>1. CASE u = t
        BY <4>1, <3>1, <3>3, <3>4, <3>7 DEF TypeOK
      <4>2. CASE u # t
        <5>1. thread_paths'[u] = thread_paths[u] /\ thread_paths[u] \in Keys
          BY <4>2, <3>3, <3>5 DEF TypeOK
        <5>2. agent_tree[thread_paths[u]] # None /\ agent_tree[thread_paths[u]].agent_id = u
          BY <5>1, <3>5 DEF IndexConsistent
        <5>3. thread_paths[u] # key
          BY <5>2, <3>2, <4>2
        <5>4. thread_paths[u] # thread_paths[t]
          BY <5>1, <5>2, <4>2 DEF IndexConsistent
        <5> QED BY <5>1, <5>2, <5>3, <5>4, <3>4
      <4> QED BY <4>1, <4>2
    <3>6. ASSUME NEW k \in Keys, agent_tree'[k] # None, agent_tree'[k].agent_id # None
          PROVE  thread_paths'[agent_tree'[k].agent_id] = k
      <4>1. CASE k = key
        BY <4>1, <3>1, <3>3, <3>4 DEF TypeOK
      <4>2. CASE k # key
        <5>1. agent_tree'[k] = agent_tree[k] /\ k # thread_paths[t]
          BY <4>2, <3>4, <3>6
        <5>2. thread_paths[agent_tree[k].agent_id] = k /\ agent_tree[k].agent_id # t
          BY <5>1, <3>6 DEF IndexConsistent
        <5>3. agent_tree[k].agent_id \in Threads
          BY <5>1, <3>6 DEF TypeOK, Metadata
        <5> QED BY <5>1, <5>2, <5>3, <3>3 DEF TypeOK
      <4> QED BY <4>1, <4>2
    <3> QED BY <3>5, <3>6 DEF IndexConsistent
  <2>2. KeysAgree'
    BY <1>2, <2>0, CommitFacts DEF TypeOK, KeysAgree, MetadataKey
  <2> QED BY <2>1, <2>2
<1>3. ASSUME NEW r \in Reservations, drop_reservation(r)
      PROVE IndexConsistent' /\ KeysAgree'
  BY <1>3 DEF TypeOK, IndexConsistent, KeysAgree, drop_reservation
<1>4. ASSUME NEW c \in Releasers, NEW t \in Threads, release_spawned_thread(c, t)
      PROVE IndexConsistent' /\ KeysAgree'
  BY <1>4 DEF TypeOK, IndexConsistent, KeysAgree, release_spawned_thread
<1>5. ASSUME NEW t \in Roots, register_root_thread(t)
      PROVE IndexConsistent' /\ KeysAgree'
  <2> DEFINE key == PathKey(RootPath)
  <2>1. CASE agent_tree[key] = None
    <3>1. agent_tree' = [agent_tree EXCEPT ![key] =
              [agent_id |-> t, agent_path |-> RootPath, agent_nickname |-> None]]
      BY <1>5, <2>1 DEF register_root_thread
    <3>2. thread_paths' = [thread_paths EXCEPT ![t] = key]
      BY <1>5, <2>1 DEF register_root_thread
    <3>3. \A k \in Keys : agent_tree[k] # None => agent_tree[k].agent_id # t
      BY <2>1 DEF KeysAgree, MetadataKey
    <3>4. IndexConsistent'
      <4>1. \A u \in Threads : thread_paths[u] # key
        BY <2>1 DEF IndexConsistent
      <4>2. thread_paths[t] = None
        BY <3>3 DEF IndexConsistent, TypeOK
      <4>3. \A k \in Keys : agent_tree'[k] = IF k = key
              THEN [agent_id |-> t, agent_path |-> RootPath, agent_nickname |-> None]
              ELSE agent_tree[k]
        BY <3>1 DEF TypeOK
      <4>4. \A u \in Threads : thread_paths'[u] = IF u = t THEN key ELSE thread_paths[u]
        BY <3>2 DEF TypeOK
      <4>5. \A k \in Keys : agent_tree[k] # None => agent_tree[k].agent_id \in Threads \cup {None}
        BY DEF TypeOK, Metadata
      <4>6. [agent_id |-> t, agent_path |-> RootPath, agent_nickname |-> None] # None
        BY DEF Metadata
      <4>7. key \in Keys
        OBVIOUS
      <4> HIDE DEF key
      <4> QED BY <4>6, <4>7, <4>1, <4>2, <4>3, <4>4, <4>5, <3>3 DEF TypeOK, IndexConsistent
    <3>5. KeysAgree'
      BY <3>1 DEF TypeOK, KeysAgree, MetadataKey
    <3> QED BY <3>4, <3>5
  <2>2. CASE agent_tree[key] # None
    <3>1. agent_tree' = agent_tree
      BY <1>5, <2>2 DEF register_root_thread, TypeOK
    <3>2. thread_paths' = thread_paths
      BY <1>5, <2>2 DEF register_root_thread, TypeOK, IndexConsistent
    <3> QED BY <3>1, <3>2 DEF IndexConsistent, KeysAgree
  <2> QED BY <2>1, <2>2
<1>6. CASE UNCHANGED <<agent_tree, thread_paths>>
  BY <1>6 DEF IndexConsistent, KeysAgree
<1> QED BY <1>1, <1>2, <1>3, <1>4, <1>5, <1>6, OtherSteps DEF MapStep

-----------------------------------------------------------------------------
\* Every registry operation keeps placeholders and active reservations in step.
LEMMA PathsStep ==
    ASSUME IInv, Next
    PROVE  ReservedPathsHeld'
<1> USE KeyFacts, NoneFacts, RootFacts DEF IInv, ReservationHolds
<1>1. ASSUME NEW r \in Reservations, NEW limit \in Limits, reserve_spawn_slot(r, limit)
      PROVE ReservedPathsHeld'
  BY <1>1 DEF TypeOK, ReservedPathsHeld, reserve_spawn_slot, NoReservation
<1>2. ASSUME NEW r \in Reservations, NEW p \in Paths, reserve_agent_path(r, p)
      PROVE ReservedPathsHeld'
  <2>1. [agent_id |-> None, agent_path |-> p, agent_nickname |-> None] # None
    BY DEF Metadata
  <2> QED BY <1>2, <2>1 DEF TypeOK, ReservedPathsHeld, reserve_agent_path
<1>3. ASSUME NEW r \in Reservations,
             \/ \E nickname \in Preferred : reserve_preferred_nickname(r, nickname)
             \/ \E pool \in Pools : draw_nickname(r, pool)
             \/ \E pool \in Pools : reset_nickname_pool(r, pool)
      PROVE ReservedPathsHeld'
  <2>1. PICK nickname : reservation' = [reservation EXCEPT ![r].nickname = nickname]
    BY <1>3 DEF reserve_preferred_nickname, draw_nickname, reset_nickname_pool, TakeNickname
  <2>2. agent_tree' = agent_tree
    BY <1>3 DEF reserve_preferred_nickname, draw_nickname, reset_nickname_pool
  <2> QED BY <2>1, <2>2 DEF TypeOK, ReservedPathsHeld
<1>4. ASSUME NEW r \in Reservations, NEW t \in Agents, commit(r, t)
      PROVE ReservedPathsHeld'
  <2> DEFINE q == reservation[r].path
             key == MetadataKey(t, q)
  <2>1. q \in Paths \cup {None} /\ reservation[r].stage = "active"
    BY <1>4 DEF TypeOK, commit
  <2>2. \A s \in Reservations : reservation'[s] = IF s = r THEN NoReservation ELSE reservation[s]
    BY <1>4 DEF TypeOK, commit
  <2>3. \A s \in Reservations, p \in Paths :
            ReservationHolds(s, p)' <=> s # r /\ ReservationHolds(s, p)
    BY <2>2 DEF NoReservation
  <2>4. ASSUME NEW p \in Paths
        PROVE  (agent_tree'[PathKey(p)] # None /\ agent_tree'[PathKey(p)].agent_id = None)
                 <=> /\ agent_tree[PathKey(p)] # None
                     /\ agent_tree[PathKey(p)].agent_id = None
                     /\ p # q
    <3>1. PathKey(p) = key <=> p = q
      BY <2>1 DEF MetadataKey
    <3>2. CASE p = q
      BY <3>1, <3>2, <1>4, CommitFacts
    <3>3. CASE p # q /\ PathKey(p) = thread_paths[t]
      <4>1. agent_tree'[PathKey(p)] = None
        BY <3>1, <3>3, <1>4, CommitFacts
      <4>2. agent_tree[PathKey(p)].agent_id = t
        BY <3>3 DEF IndexConsistent
      <4> QED BY <4>1, <4>2
    <3>4. CASE p # q /\ PathKey(p) # thread_paths[t]
      BY <3>1, <3>4, <1>4, CommitFacts
    <3> QED BY <3>2, <3>3, <3>4
  <2>5. \A p \in Paths : ReservationHolds(r, p) <=> p = q
    BY <2>1
  <2> HIDE DEF q, key
  <2> QED BY <2>3, <2>4, <2>5 DEF ReservedPathsHeld
<1>5. ASSUME NEW r \in Reservations, drop_reservation(r)
      PROVE ReservedPathsHeld'
  BY <1>5 DEF TypeOK, ReservedPathsHeld, drop_reservation, NoReservation
<1>6. ASSUME NEW r \in Reservations, drop_decrement(r)
      PROVE ReservedPathsHeld'
  BY <1>6 DEF TypeOK, ReservedPathsHeld, drop_decrement, NoReservation
<1>7. ASSUME NEW c \in Releasers, NEW t \in Threads, release_spawned_thread(c, t)
      PROVE ReservedPathsHeld'
  <2>1. agent_tree[thread_paths[t]].agent_id = t
    BY <1>7 DEF release_spawned_thread, IndexConsistent
  <2> QED BY <1>7, <2>1 DEF TypeOK, ReservedPathsHeld, release_spawned_thread
<1>8. ASSUME NEW c \in Releasers, release_decrement(c)
      PROVE ReservedPathsHeld'
  BY <1>8 DEF ReservedPathsHeld, release_decrement
<1>9. ASSUME NEW t \in Roots, register_root_thread(t)
      PROVE ReservedPathsHeld'
  BY <1>9 DEF TypeOK, ReservedPathsHeld, register_root_thread
<1> QED BY <1>1, <1>2, <1>3, <1>4, <1>5, <1>6, <1>7, <1>8, <1>9
        DEF Next, ReservationStep, ReleaserStep

-----------------------------------------------------------------------------
\* Slot accounting

Indexed == {t \in Agents : thread_paths[t] # None}

\* live_agents() and the thread index name the same sub-agents.
LEMMA LiveByIndex ==
    TypeOK /\ IndexConsistent /\ KeysAgree => LiveAgents = Indexed
<1> USE NoneFacts, RootFacts
<1> SUFFICES ASSUME TypeOK, IndexConsistent, KeysAgree
             PROVE  LiveAgents = Indexed
  OBVIOUS
<1>1. ASSUME NEW t \in LiveAgents PROVE t \in Indexed
  <2>1. PICK k \in Keys : /\ agent_tree[k] # None /\ agent_tree[k].agent_id = t
                          /\ agent_tree[k].agent_path # RootPath
    BY DEF LiveAgents
  <2> QED BY <2>1 DEF LiveAgents, Indexed, KeysAgree, IndexConsistent
<1>2. ASSUME NEW t \in Indexed PROVE t \in LiveAgents
  <2>1. /\ thread_paths[t] \in Keys /\ agent_tree[thread_paths[t]] # None
        /\ agent_tree[thread_paths[t]].agent_id = t
    BY DEF Indexed, IndexConsistent, TypeOK
  <2> QED BY <2>1 DEF Indexed, LiveAgents, KeysAgree
<1> QED BY <1>1, <1>2

\* The sets SlotsAccounted counts are finite.
LEMMA FiniteFacts ==
    ASSUME TypeOK
    PROVE  IsFiniteSet(Indexed) /\ IsFiniteSet(HeldReservations) /\ IsFiniteSet(releasing)
BY FS_Subset, RegistryAssumption DEF TypeOK, Indexed, HeldReservations

\* Every registry operation keeps a slot for each live agent, reservation and
\* pending decrement.
LEMMA SlotsStep ==
    ASSUME IInv, Next, IndexConsistent', KeysAgree'
    PROVE  total_count' \in Nat /\ (TypeOK' => SlotsAccounted')
<1> USE NoneFacts, RootFacts DEF IInv
<1>0. /\ IsFiniteSet(Indexed) /\ IsFiniteSet(HeldReservations) /\ IsFiniteSet(releasing)
      /\ Cardinality(Indexed) \in Nat
      /\ Cardinality(HeldReservations) \in Nat
      /\ Cardinality(releasing) \in Nat
      /\ total_count \in Nat
      /\ Cardinality(Indexed) + Cardinality(HeldReservations) + Cardinality(releasing)
            <= total_count
  BY FiniteFacts, LiveByIndex, FS_CardinalityType DEF SlotsAccounted, TypeOK
<1>1. (TypeOK /\ IndexConsistent /\ KeysAgree => LiveAgents = Indexed)'
  BY LiveByIndex, PTL
<1> DEFINE Accounted ==
             Cardinality(Indexed') + Cardinality(HeldReservations') + Cardinality(releasing')
               <= total_count'
<1>2. SUFFICES total_count' \in Nat /\ Accounted
  BY <1>1 DEF SlotsAccounted
<1>3. ASSUME NEW r \in Reservations, NEW limit \in Limits, reserve_spawn_slot(r, limit)
      PROVE total_count' \in Nat /\ Accounted
  <2>1. Indexed' = Indexed /\ releasing' = releasing /\ total_count' = total_count + 1
    BY <1>3 DEF reserve_spawn_slot, Indexed
  <2>2. HeldReservations' = HeldReservations \cup {r} /\ r \notin HeldReservations
    BY <1>3 DEF reserve_spawn_slot, HeldReservations, TypeOK, NoReservation
  <2>3. Cardinality(HeldReservations') = Cardinality(HeldReservations) + 1
    BY <1>0, <2>2, FS_AddElement
  <2> QED BY <1>0, <2>1, <2>3
<1>4. ASSUME NEW r \in Reservations, NEW t \in Agents, commit(r, t)
      PROVE total_count' \in Nat /\ Accounted
  <2>1. releasing' = releasing /\ total_count' = total_count
    BY <1>4 DEF commit
  <2>2. HeldReservations' = HeldReservations \ {r} /\ r \in HeldReservations
    BY <1>4 DEF commit, HeldReservations, TypeOK, NoReservation
  <2>3. Indexed' = Indexed \cup {t}
    BY <1>4, CommitFacts DEF Indexed, TypeOK
  <2>4. Cardinality(Indexed') \in Nat /\ Cardinality(Indexed') <= Cardinality(Indexed) + 1
    <3>1. CASE t \in Indexed
      <4>1. Indexed' = Indexed
        BY <2>3, <3>1
      <4> QED BY <1>0, <4>1
    <3>2. CASE t \notin Indexed
      <4>1. Cardinality(Indexed') = Cardinality(Indexed) + 1
        BY <1>0, <2>3, <3>2, FS_AddElement
      <4> QED BY <1>0, <4>1
    <3> QED BY <3>1, <3>2
  <2>5. Cardinality(HeldReservations') = Cardinality(HeldReservations) - 1
    BY <1>0, <2>2, FS_RemoveElement
  <2> QED BY <1>0, <2>1, <2>4, <2>5
<1>5. ASSUME NEW r \in Reservations, drop_decrement(r)
      PROVE total_count' \in Nat /\ Accounted
  <2>1. Indexed' = Indexed /\ releasing' = releasing /\ total_count' = total_count - 1
    BY <1>5 DEF drop_decrement, Indexed
  <2>2. HeldReservations' = HeldReservations \ {r} /\ r \in HeldReservations
    BY <1>5 DEF drop_decrement, HeldReservations, TypeOK, NoReservation
  <2>3. /\ Cardinality(HeldReservations') = Cardinality(HeldReservations) - 1
        /\ Cardinality(HeldReservations') \in Nat
    BY <1>0, <2>2, FS_RemoveElement, FS_CardinalityType
  <2> QED BY <1>0, <2>1, <2>3
<1>6. ASSUME NEW c \in Releasers, NEW t \in Threads, release_spawned_thread(c, t)
      PROVE total_count' \in Nat /\ Accounted
  <2>1. HeldReservations' = HeldReservations /\ total_count' = total_count /\ c \notin releasing
    BY <1>6 DEF release_spawned_thread, HeldReservations
  <2>2. /\ thread_paths[t] \in Keys /\ agent_tree[thread_paths[t]] # None
        /\ agent_tree[thread_paths[t]].agent_id = t
    BY <1>6 DEF release_spawned_thread, IndexConsistent, TypeOK
  <2>3. CASE t \in Agents
    <3>1. releasing' = releasing \cup {c}
      BY <1>6, <2>2, <2>3 DEF release_spawned_thread, KeysAgree
    <3>2. Indexed' = Indexed \ {t} /\ t \in Indexed
      BY <1>6, <2>2, <2>3 DEF release_spawned_thread, Indexed, TypeOK
    <3>3. Cardinality(Indexed') = Cardinality(Indexed) - 1
      BY <1>0, <3>2, FS_RemoveElement
    <3>4. Cardinality(releasing') = Cardinality(releasing) + 1
      BY <1>0, <2>1, <3>1, FS_AddElement
    <3> QED BY <1>0, <2>1, <3>3, <3>4
  <2>4. CASE t \in Roots
    <3>1. releasing' = releasing
      BY <1>6, <2>2, <2>4 DEF release_spawned_thread, KeysAgree
    <3>2. Indexed' = Indexed
      BY <1>6, <2>4 DEF release_spawned_thread, Indexed, TypeOK
    <3> QED BY <1>0, <2>1, <3>1, <3>2
  <2> QED BY <2>3, <2>4
<1>7. ASSUME NEW c \in Releasers, release_decrement(c)
      PROVE total_count' \in Nat /\ Accounted
  <2>1. /\ Indexed' = Indexed /\ HeldReservations' = HeldReservations
        /\ total_count' = total_count - 1
        /\ releasing' = releasing \ {c} /\ c \in releasing
    BY <1>7 DEF release_decrement, Indexed, HeldReservations
  <2>2. /\ Cardinality(releasing') = Cardinality(releasing) - 1
        /\ Cardinality(releasing') \in Nat
    BY <1>0, <2>1, FS_RemoveElement, FS_CardinalityType
  <2> QED BY <1>0, <2>1, <2>2
<1>8. ASSUME Indexed' = Indexed, HeldReservations' = HeldReservations,
             releasing' = releasing, total_count' = total_count
      PROVE total_count' \in Nat /\ Accounted
  BY <1>0, <1>8
<1>9. ASSUME NEW r \in Reservations, NEW p \in Paths, reserve_agent_path(r, p)
      PROVE total_count' \in Nat /\ Accounted
  <2>1. HeldReservations' = HeldReservations
    BY <1>9 DEF reserve_agent_path, HeldReservations, TypeOK
  <2> QED BY <1>8, <1>9, <2>1 DEF reserve_agent_path, Indexed
<1>10. ASSUME NEW r \in Reservations,
              \/ \E nickname \in Preferred : reserve_preferred_nickname(r, nickname)
              \/ \E pool \in Pools : draw_nickname(r, pool)
              \/ \E pool \in Pools : reset_nickname_pool(r, pool)
       PROVE total_count' \in Nat /\ Accounted
  <2>1. PICK nickname : reservation' = [reservation EXCEPT ![r].nickname = nickname]
    BY <1>10 DEF reserve_preferred_nickname, draw_nickname, reset_nickname_pool, TakeNickname
  <2>2. UNCHANGED <<thread_paths, releasing, total_count>>
    BY <1>10 DEF reserve_preferred_nickname, draw_nickname, reset_nickname_pool
  <2>3. HeldReservations' = HeldReservations
    BY <2>1 DEF HeldReservations, TypeOK
  <2> QED BY <1>8, <2>2, <2>3 DEF Indexed
<1>11. ASSUME NEW r \in Reservations, drop_reservation(r)
       PROVE total_count' \in Nat /\ Accounted
  <2>1. HeldReservations' = HeldReservations
    BY <1>11 DEF drop_reservation, HeldReservations, TypeOK, NoReservation
  <2> QED BY <1>8, <1>11, <2>1 DEF drop_reservation, Indexed
<1>12. ASSUME NEW t \in Roots, register_root_thread(t)
       PROVE total_count' \in Nat /\ Accounted
  <2>1. \A u \in Agents : thread_paths'[u] = thread_paths[u]
    BY <1>12, KeyFacts DEF register_root_thread, TypeOK, KeysAgree, MetadataKey
  <2>2. UNCHANGED <<reservation, releasing, total_count>>
    BY <1>12 DEF register_root_thread
  <2> QED BY <1>8, <2>1, <2>2 DEF Indexed, HeldReservations
<1> QED BY <1>3, <1>4, <1>5, <1>6, <1>7, <1>9, <1>10, <1>11, <1>12
        DEF Next, ReservationStep, ReleaserStep

-----------------------------------------------------------------------------
\* The empty registry satisfies the inductive invariant.
LEMMA InitIInv == Init => IInv
<1> SUFFICES ASSUME Init PROVE IInv
  OBVIOUS
<1> USE KeyFacts, NoneFacts, RootFacts
<1>1. TypeOK
  BY RegistryAssumption DEF Init, TypeOK, NoReservation
<1>2. IndexConsistent /\ KeysAgree
  BY DEF Init, IndexConsistent, KeysAgree
<1>3. ReservedPathsHeld
  BY DEF Init, ReservedPathsHeld, ReservationHolds, NoReservation
<1>4. LiveAgents = {} /\ HeldReservations = {} /\ releasing = {} /\ total_count = 0
  BY DEF Init, LiveAgents, HeldReservations, NoReservation
<1>5. SlotsAccounted
  BY <1>4, FS_EmptySet DEF SlotsAccounted
<1> QED BY <1>1, <1>2, <1>3, <1>5 DEF IInv

\* Every step of the registry preserves the inductive invariant.
LEMMA StepIInv == IInv /\ [Next]_vars => IInv'
<1> SUFFICES ASSUME IInv, [Next]_vars PROVE IInv'
  OBVIOUS
<1>1. CASE Next
  <2>1. IndexConsistent' /\ KeysAgree'
    BY <1>1, IndexStep
  <2>2. total_count' \in Nat /\ (TypeOK' => SlotsAccounted')
    BY <1>1, <2>1, SlotsStep
  <2>3. TypeOK'
    BY <1>1, <2>2, TypeStep
  <2>4. ReservedPathsHeld'
    BY <1>1, PathsStep
  <2> QED BY <2>1, <2>2, <2>3, <2>4 DEF IInv
<1>2. CASE UNCHANGED vars
  BY <1>2 DEF vars, IInv, TypeOK, IndexConsistent, KeysAgree, ReservedPathsHeld,
              ReservationHolds, SlotsAccounted, LiveAgents, HeldReservations
<1> QED BY <1>1, <1>2

\* The inductive invariant holds in every reachable state of the registry.
THEOREM InductiveInvariant == Spec => []IInv
BY InitIInv, StepIInv, PTL DEF Spec

\* Types hold for any number of agents, paths, reservations and releasers; above
\* all the atomic counter of registry.rs stays a natural number, so no fetch_sub
\* ever wraps.
THEOREM TypeCorrect == Spec => []TypeOK
<1>1. IInv => TypeOK
  BY DEF IInv
<1> QED BY <1>1, InductiveInvariant, PTL

\* Lookups by agent path and by thread id never disagree.
THEOREM IndexCorrect == Spec => []IndexConsistent
<1>1. IInv => IndexConsistent
  BY DEF IInv
<1> QED BY <1>1, InductiveInvariant, PTL

\* The path of a spawn in progress is held by that spawn alone, and by no one once
\* the spawn has failed.
THEOREM ReservedPathsCorrect == Spec => []ReservedPathsHeld
<1>1. IInv => ReservedPathsHeld
  BY DEF IInv
<1> QED BY <1>1, InductiveInvariant, PTL

\* total_count covers every live agent, open reservation and pending decrement.
THEOREM AccountingCorrect == Spec => []SlotsAccounted
<1>1. IInv => SlotsAccounted
  BY DEF IInv
<1> QED BY <1>1, InductiveInvariant, PTL

-----------------------------------------------------------------------------
\* When every limit is a number at most m, the counter stays at most m.
CountBounded ==
    \A m \in Nat \cap Limits : (\A l \in Limits : l # None /\ l <= m) => total_count <= m

\* try_increment_spawned is the only increment when every spawn is bounded, so the
\* counter never passes the largest limit.
LEMMA StepCountBounded == IInv /\ CountBounded /\ [Next]_vars => CountBounded'
<1> SUFFICES ASSUME IInv, CountBounded, [Next]_vars,
                    NEW m \in Nat \cap Limits,
                    \A l \in Limits : l # None /\ l <= m
             PROVE  total_count' <= m
  BY DEF CountBounded
<1>1. total_count \in Nat /\ total_count <= m
  BY DEF IInv, TypeOK, CountBounded
<1>2. \/ total_count' = total_count \/ total_count' = total_count - 1
      \/ total_count' = total_count + 1 /\ \E limit \in Limits : SlotAvailable(limit)
  BY DEF Next, ReservationStep, ReleaserStep, vars, reserve_spawn_slot, reserve_agent_path,
         reserve_preferred_nickname, draw_nickname, reset_nickname_pool, commit,
         drop_reservation, drop_decrement, release_spawned_thread, release_decrement,
         register_root_thread
<1>3. ASSUME NEW limit \in Limits, SlotAvailable(limit) PROVE total_count + 1 <= m
  <2>1. limit \in Nat /\ limit <= m /\ limit # None
    BY RegistryAssumption
  <2> QED BY <1>1, <1>3, <2>1 DEF SlotAvailable
<1> QED BY <1>1, <1>2, <1>3

\* However spawns, resumes, drops and releases interleave, a session whose spawns
\* are all bounded never has more live sub-agents than its limit.
THEOREM LimitCorrect == Spec => []LimitRespected
<1>1. Init => CountBounded
  BY DEF Init, CountBounded
<1>2. IInv /\ CountBounded => LimitRespected
  <2> SUFFICES ASSUME IInv, CountBounded, NEW m \in Nat \cap Limits,
                      \A l \in Limits : l # None /\ l <= m
               PROVE  Cardinality(LiveAgents) <= m
    BY DEF LimitRespected
  <2>1. /\ Cardinality(LiveAgents) \in Nat
        /\ Cardinality(HeldReservations) \in Nat
        /\ Cardinality(releasing) \in Nat
    BY FiniteFacts, LiveByIndex, FS_CardinalityType DEF IInv
  <2> QED BY <2>1 DEF IInv, SlotsAccounted, CountBounded, TypeOK
<1> QED BY <1>1, <1>2, StepCountBounded, InductiveInvariant, PTL DEF Spec

\* A live agent's path is never handed to another agent while it is registered.
THEOREM PathOwnership == Spec => PathNeverReassigned
<1> DEFINE A == \A p \in Paths : OwnerOf(p) # None => OwnerOf(p)' \in {OwnerOf(p), None}
<1>1. IInv /\ [Next]_vars => [A]_vars
  <2> SUFFICES ASSUME IInv, Next, NEW p \in Paths, OwnerOf(p) # None
               PROVE  OwnerOf(p)' \in {OwnerOf(p), None}
    OBVIOUS
  <2> USE KeyFacts, NoneFacts, RootFacts DEF OwnerOf
  <2>1. ASSUME NEW r \in Reservations, NEW q \in Paths, reserve_agent_path(r, q)
        PROVE OwnerOf(p)' \in {OwnerOf(p), None}
    BY <2>1 DEF reserve_agent_path, IInv, TypeOK
  <2>2. ASSUME NEW r \in Reservations, NEW t \in Agents, commit(r, t)
        PROVE OwnerOf(p)' \in {OwnerOf(p), None}
    <3> DEFINE key == MetadataKey(t, reservation[r].path)
    <3>1. CASE PathKey(p) = key
      BY <2>2, <3>1, CommitFacts
    <3>2. CASE PathKey(p) # key
      BY <2>2, <3>2, CommitFacts
    <3> QED BY <3>1, <3>2
  <2>3. ASSUME NEW r \in Reservations, drop_reservation(r)
        PROVE OwnerOf(p)' \in {OwnerOf(p), None}
    BY <2>3 DEF drop_reservation, IInv, TypeOK
  <2>4. ASSUME NEW c \in Releasers, NEW t \in Threads, release_spawned_thread(c, t)
        PROVE OwnerOf(p)' \in {OwnerOf(p), None}
    BY <2>4 DEF release_spawned_thread, IInv, TypeOK
  <2>5. ASSUME NEW t \in Roots, register_root_thread(t)
        PROVE OwnerOf(p)' \in {OwnerOf(p), None}
    BY <2>5 DEF register_root_thread, IInv, TypeOK
  <2>6. CASE UNCHANGED <<agent_tree, thread_paths>>
    BY <2>6
  <2> QED BY <2>1, <2>2, <2>3, <2>4, <2>5, <2>6, OtherSteps DEF MapStep
<1>2. Spec => [][A]_vars
  BY <1>1, InductiveInvariant, PTL DEF Spec
<1> QED BY <1>2 DEF PathNeverReassigned

-----------------------------------------------------------------------------
(* Nicknames.                                                              *)

AgentHas(k, n) == k \in Keys /\ agent_tree[k] # None /\ agent_tree[k].agent_nickname = n
SpawnHas(r, n) == r \in Reservations /\ reservation[r].nickname = n

\* The nicknames that come from the pool alone.
Drawn == Nicknames \ Preferred

\* Nobody holds a drawn nickname of a generation to come, and those of the present
\* one that are held are marked as used.
HeldAreUsed ==
    \A n \in Drawn : (\E x : AgentHas(x, n) \/ SpawnHas(x, n)) =>
        /\ n[2] <= nickname_reset_count
        /\ n[2] = nickname_reset_count => n \in used_agent_nicknames

\* DrawnNicknamesUnique, holder by holder.
OneHolder ==
    \A n \in Drawn :
        /\ \A k, l : AgentHas(k, n) /\ AgentHas(l, n) => k = l
        /\ \A r, s : SpawnHas(r, n) /\ SpawnHas(s, n) => r = s
        /\ \A k, r : ~ (AgentHas(k, n) /\ SpawnHas(r, n))

NicknameInv == HeldAreUsed /\ OneHolder

\* A step gives up nicknames ...
Fewer ==
    /\ \A n \in Drawn : \A x : /\ AgentHas(x, n)' => AgentHas(x, n)
                               /\ SpawnHas(x, n)' => SpawnHas(x, n)
    /\ nicknameVars' = nicknameVars

\* ... or a reservation takes one, from this generation or the next ...
Takes(r, m) ==
    /\ \A n \in Drawn : \A x : /\ AgentHas(x, n)' => AgentHas(x, n)
                               /\ SpawnHas(x, n)' => SpawnHas(x, n) \/ (x = r /\ n = m)
    /\ \/ /\ m \in Drawn => m \notin used_agent_nicknames /\ m[2] = nickname_reset_count
          /\ used_agent_nicknames' = used_agent_nicknames \cup {m}
          /\ nickname_reset_count' = nickname_reset_count
       \/ /\ m[2] = nickname_reset_count + 1
          /\ m \in used_agent_nicknames'
          /\ nickname_reset_count' = nickname_reset_count + 1

\* ... or an agent takes it over from its reservation.
HandsOver(r, key) ==
    /\ \A n \in Drawn : \A x :
           /\ AgentHas(x, n)' => (AgentHas(x, n) /\ x # key) \/ (x = key /\ SpawnHas(r, n))
           /\ SpawnHas(x, n)' => SpawnHas(x, n) /\ x # r
    /\ used_agent_nicknames \subseteq used_agent_nicknames'
    /\ nickname_reset_count' = nickname_reset_count

\* The generation of a nickname is a number.
LEMMA GenerationFacts ==
    ASSUME TypeOK
    PROVE  /\ nickname_reset_count \in Nat
           /\ \A n \in Nicknames : n[2] \in Nat
BY RegistryAssumption DEF TypeOK, Nicknames

\* Each of the three keeps the invariant.
LEMMA NicknameMoves ==
    ASSUME TypeOK, NicknameInv, NEW r, NEW m \in Nicknames, NEW key,
           Fewer \/ Takes(r, m) \/ HandsOver(r, key)
    PROVE  NicknameInv'
<1>0. /\ nickname_reset_count \in Nat /\ \A n \in Drawn : n[2] \in Nat
      /\ m[2] \in Nat
  BY GenerationFacts DEF Drawn
<1>1. CASE Fewer
  BY <1>1 DEF Fewer, NicknameInv, HeldAreUsed, OneHolder, nicknameVars, Drawn
<1>2. CASE HandsOver(r, key)
  <2>1. HeldAreUsed'
    BY <1>2 DEF HandsOver, NicknameInv, HeldAreUsed, Drawn
  <2>2. OneHolder'
    BY <1>2 DEF HandsOver, NicknameInv, OneHolder, Drawn
  <2> QED BY <2>1, <2>2 DEF NicknameInv
<1>3. CASE Takes(r, m)
  <2>1. m \in Drawn => \A x : ~ AgentHas(x, m) /\ ~ SpawnHas(x, m)
    BY <1>0, <1>3 DEF Takes, NicknameInv, HeldAreUsed
  <2>2. HeldAreUsed'
    <3> SUFFICES ASSUME NEW n \in Drawn, NEW x, AgentHas(x, n)' \/ SpawnHas(x, n)'
                 PROVE  /\ n[2] <= nickname_reset_count'
                        /\ n[2] = nickname_reset_count' => n \in used_agent_nicknames'
      BY DEF HeldAreUsed, Drawn
    <3>1. AgentHas(x, n) \/ SpawnHas(x, n) \/ n = m
      BY <1>3 DEF Takes
    <3>2. n # m => /\ n[2] <= nickname_reset_count
                   /\ n[2] = nickname_reset_count => n \in used_agent_nicknames
      BY <3>1 DEF NicknameInv, HeldAreUsed
    <3> QED BY <1>0, <1>3, <3>2 DEF Takes
  <2>3. OneHolder'
    BY <1>3, <2>1 DEF Takes, NicknameInv, OneHolder, Drawn
  <2> QED BY <2>2, <2>3 DEF NicknameInv
<1> QED BY <1>1, <1>2, <1>3

\* Every operation of the registry is one of the three.
LEMMA NicknameStep ==
    ASSUME TypeOK, NicknameInv, Next
    PROVE  NicknameInv'
<1> USE KeyFacts, NoneFacts, RootFacts
<1>0. /\ None \notin Drawn
      /\ Drawn \subseteq Nicknames
  BY DEF Drawn
<1>1. CASE Fewer
  <2>1. CASE Drawn = {}
    BY <2>1 DEF NicknameInv, HeldAreUsed, OneHolder, Drawn
  <2>2. CASE Drawn # {}
    <3>1. PICK m : m \in Drawn
      BY <2>2
    <3> QED BY <1>0, <1>1, <3>1, NicknameMoves
  <2> QED BY <2>1, <2>2
<1>2. ASSUME NEW r \in Reservations, NEW m \in Nicknames, Takes(r, m)
      PROVE  NicknameInv'
  BY <1>2, NicknameMoves
<1>3. ASSUME NEW r \in Reservations, NEW t \in Agents, commit(r, t)
      PROVE  NicknameInv'
  <2> DEFINE key == MetadataKey(t, reservation[r].path)
  <2>1. /\ DOMAIN agent_tree' = Keys
        /\ \A k \in Keys : agent_tree'[k] # None =>
             \/ k # key /\ agent_tree'[k] = agent_tree[k]
             \/ k = key /\ agent_tree'[k].agent_nickname = reservation[r].nickname
    BY <1>3 DEF commit, register_spawned_thread
  <2>2. \A q \in Reservations :
          reservation'[q].nickname = (IF q = r THEN None ELSE reservation[q].nickname)
    BY <1>3 DEF commit, NoReservation, TypeOK
  <2>3. /\ used_agent_nicknames \subseteq used_agent_nicknames'
        /\ nickname_reset_count' = nickname_reset_count
    BY <1>3 DEF commit, register_spawned_thread
  <2> HIDE DEF key
  <2>4. HandsOver(r, key)
    BY <1>0, <2>1, <2>2, <2>3 DEF HandsOver, AgentHas, SpawnHas
  <2>5. CASE Drawn = {}
    BY <2>5 DEF NicknameInv, HeldAreUsed, OneHolder, Drawn
  <2>6. CASE Drawn # {}
    <3>1. PICK m : m \in Drawn
      BY <2>6
    <3> QED BY <1>0, <2>4, <3>1, NicknameMoves
  <2> QED BY <2>5, <2>6
<1>4. ASSUME NEW r \in Reservations, NEW p \in Paths, reserve_agent_path(r, p)
      PROVE  Fewer
  <2>1. \A k \in Keys : agent_tree'[k] = agent_tree[k] \/ agent_tree'[k].agent_nickname = None
    BY <1>4 DEF reserve_agent_path, TypeOK
  <2>2. \A q \in Reservations : reservation'[q].nickname = reservation[q].nickname
    BY <1>4 DEF reserve_agent_path, TypeOK
  <2>3. nicknameVars' = nicknameVars
    BY <1>4 DEF reserve_agent_path, nicknameVars
  <2> QED BY <1>0, <2>1, <2>2, <2>3 DEF Fewer, AgentHas, SpawnHas
<1>5. ASSUME NEW r \in Reservations, NEW n \in Nicknames,
             reservation' = [reservation EXCEPT ![r].nickname = n], agent_tree' = agent_tree
      PROVE  \A d \in Drawn : \A x : /\ AgentHas(x, d)' => AgentHas(x, d)
                                     /\ SpawnHas(x, d)' => SpawnHas(x, d) \/ (x = r /\ d = n)
  BY <1>5 DEF AgentHas, SpawnHas, TypeOK
<1>6. ASSUME NEW r \in Reservations, NEW n \in Preferred, reserve_preferred_nickname(r, n)
      PROVE  n \in Nicknames /\ Takes(r, n)
  <2>1. n \in Nicknames /\ n \notin Drawn
    BY RegistryAssumption DEF Drawn
  <2>2. /\ reservation' = [reservation EXCEPT ![r].nickname = n] /\ agent_tree' = agent_tree
        /\ used_agent_nicknames' = used_agent_nicknames \cup {n}
        /\ nickname_reset_count' = nickname_reset_count
    BY <1>6 DEF reserve_preferred_nickname, TakeNickname
  <2> QED BY <1>5, <2>1, <2>2 DEF Takes
<1>7. ASSUME NEW r \in Reservations, NEW pool \in Pools, draw_nickname(r, pool)
      PROVE  \E n \in Nicknames : Takes(r, n)
  <2>1. PICK n \in AvailableNames(pool) : TakeNickname(r, n, used_agent_nicknames)
    BY <1>7 DEF draw_nickname
  <2>2. n \in Nicknames /\ n \notin used_agent_nicknames /\ n[2] = nickname_reset_count
    BY RegistryAssumption DEF AvailableNames, Nicknames, TypeOK
  <2>3. /\ reservation' = [reservation EXCEPT ![r].nickname = n] /\ agent_tree' = agent_tree
        /\ used_agent_nicknames' = used_agent_nicknames \cup {n}
        /\ nickname_reset_count' = nickname_reset_count
    BY <1>7, <2>1 DEF draw_nickname, TakeNickname
  <2>4. Takes(r, n)
    BY <1>5, <2>2, <2>3 DEF Takes
  <2> QED BY <2>2, <2>4
<1>8. ASSUME NEW r \in Reservations, NEW pool \in Pools, reset_nickname_pool(r, pool)
      PROVE  \E n \in Nicknames : Takes(r, n)
  <2>1. PICK name \in pool : TakeNickname(r, <<name, nickname_reset_count + 1>>, {})
    BY <1>8 DEF reset_nickname_pool
  <2>2. PICK n : n = <<name, nickname_reset_count + 1>>
    OBVIOUS
  <2>3. name \in Names /\ nickname_reset_count + 1 \in 0 .. MaxResets
    BY <1>8, RegistryAssumption DEF reset_nickname_pool, TypeOK
  <2>4. n \in Nicknames /\ n[2] = nickname_reset_count + 1
    BY <2>2, <2>3 DEF Nicknames
  <2>5. /\ reservation' = [reservation EXCEPT ![r].nickname = n] /\ agent_tree' = agent_tree
        /\ n \in used_agent_nicknames'
        /\ nickname_reset_count' = nickname_reset_count + 1
    BY <1>8, <2>1, <2>2 DEF reset_nickname_pool, TakeNickname
  <2>6. Takes(r, n)
    BY <1>5, <2>4, <2>5 DEF Takes
  <2> QED BY <2>4, <2>6
<1>9. ASSUME NEW r \in Reservations,
             \/ \E limit \in Limits : reserve_spawn_slot(r, limit)
             \/ drop_reservation(r) \/ drop_decrement(r)
      PROVE  Fewer
  <2>1. \A k \in Keys : agent_tree'[k] = agent_tree[k] \/ agent_tree'[k] = None
    BY <1>9 DEF reserve_spawn_slot, drop_reservation, drop_decrement, TypeOK
  <2>2. \A q \in Reservations :
          reservation'[q].nickname = reservation[q].nickname \/ reservation'[q].nickname = None
    BY <1>9 DEF reserve_spawn_slot, drop_reservation, drop_decrement, TypeOK, NoReservation
  <2>3. nicknameVars' = nicknameVars
    BY <1>9 DEF reserve_spawn_slot, drop_reservation, drop_decrement, nicknameVars
  <2> QED BY <1>0, <2>1, <2>2, <2>3 DEF Fewer, AgentHas, SpawnHas
<1>10. ASSUME \/ \E c \in Releasers : ReleaserStep(c)
              \/ \E t \in Roots : register_root_thread(t)
       PROVE  Fewer
  <2>1. \A k \in Keys : \/ agent_tree'[k] = agent_tree[k] \/ agent_tree'[k] = None
                        \/ agent_tree'[k].agent_nickname = None
    BY <1>10 DEF ReleaserStep, release_spawned_thread, release_decrement, register_root_thread,
                 TypeOK
  <2>2. reservation' = reservation /\ nicknameVars' = nicknameVars
    BY <1>10 DEF ReleaserStep, release_spawned_thread, release_decrement, register_root_thread,
                 nicknameVars
  <2> QED BY <1>0, <2>1, <2>2 DEF Fewer, AgentHas, SpawnHas
<1> QED BY <1>1, <1>2, <1>3, <1>4, <1>6, <1>7, <1>8, <1>9, <1>10 DEF Next, ReservationStep

\* A nickname drawn from the pool belongs to one agent or spawn in progress, however
\* often the pool is reset and whichever nicknames resumed agents ask for.
THEOREM DrawnNicknames == Spec => []DrawnNicknamesUnique
<1>1. Init => NicknameInv
  <2> SUFFICES ASSUME Init PROVE NicknameInv
    OBVIOUS
  <2>1. \A n \in Drawn : \A x : ~ AgentHas(x, n) /\ ~ SpawnHas(x, n)
    BY NoneFacts DEF Init, AgentHas, SpawnHas, Drawn, NoReservation
  <2> QED BY <2>1 DEF NicknameInv, HeldAreUsed, OneHolder
<1>2. IInv /\ NicknameInv /\ [Next]_vars => NicknameInv'
  <2>1. IInv /\ NicknameInv /\ Next => NicknameInv'
    BY NicknameStep DEF IInv
  <2>2. NicknameInv /\ UNCHANGED vars => NicknameInv'
    BY DEF vars, NicknameInv, HeldAreUsed, OneHolder, AgentHas, SpawnHas, Drawn
  <2> QED BY <2>1, <2>2
<1>3. IInv /\ NicknameInv => DrawnNicknamesUnique
  <2> SUFFICES ASSUME IInv, NicknameInv, NEW g \in DOMAIN HeldNicknames,
                      NEW h \in DOMAIN HeldNicknames,
                      g # h, HeldNicknames[g] = HeldNicknames[h]
               PROVE  HeldNicknames[g] \in Preferred \cup {None}
    BY DEF DrawnNicknamesUnique
  <2>0. PICK n : n = HeldNicknames[g]
    OBVIOUS
  <2>1. ASSUME NEW x \in DOMAIN HeldNicknames, HeldNicknames[x] = n
        PROVE  /\ n \in Nicknames \cup {None}
               /\ \/ \E k \in Keys : x = <<"agent", k>> /\ AgentHas(k, n)
                  \/ \E r \in Reservations : x = <<"reservation", r>> /\ SpawnHas(r, n)
    <3>1. CASE \E k \in Keys : agent_tree[k] # None /\ x = <<"agent", k>>
      <4>1. PICK k \in Keys : agent_tree[k] # None /\ x = <<"agent", k>>
        BY <3>1
      <4>2. n = agent_tree[k].agent_nickname
        BY <2>1, <4>1 DEF HeldNicknames
      <4> QED BY <4>1, <4>2, NoneFacts DEF AgentHas, IInv, TypeOK, Metadata
    <3>2. CASE \E r \in Reservations : x = <<"reservation", r>>
      <4>1. PICK r \in Reservations : x = <<"reservation", r>>
        BY <3>2
      <4>2. n = reservation[r].nickname
        BY <2>1, <4>1 DEF HeldNicknames
      <4> QED BY <4>1, <4>2 DEF SpawnHas, IInv, TypeOK
    <3> QED BY <3>1, <3>2 DEF HeldNicknames
  <2>2. CASE n \in Drawn
    BY <2>0, <2>1, <2>2 DEF NicknameInv, OneHolder
  <2>3. CASE n \notin Drawn
    BY <2>0, <2>1, <2>3 DEF Drawn
  <2> QED BY <2>2, <2>3
<1> QED BY <1>1, <1>2, <1>3, InductiveInvariant, PTL DEF Spec
=============================================================================
