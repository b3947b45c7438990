--------------------------- MODULE AgentRegistry ---------------------------
(***************************************************************************)
(* The registry of sub-agents shared by every agent of one user session    *)
(* (codex-rs/core/src/agent/registry.rs): which agent owns which path, how *)
(* many spawn slots are taken, which nicknames are used up.                *)
(*                                                                         *)
(* The registry is called from many tokio tasks.  Its maps sit behind one  *)
(* mutex, the slot counter is an atomic outside it, so every operation     *)
(* that touches both is two steps here: the locked part and the decrement. *)
(* Callers are arbitrary: any reservation may be committed for any thread, *)
(* dropped at any point, and any thread may be released at any time.       *)
(***************************************************************************)
EXTENDS Naturals, FiniteSets

CONSTANTS
    Agents,         \* thread ids of sub-agents
    Roots,          \* thread ids of sessions without a parent
    Paths,          \* agent paths a sub-agent may be given
    RootPath,       \* AgentPath::ROOT
    Reservations,   \* SpawnReservation values alive at the same time
    Releasers,      \* concurrent callers of release_spawned_thread
    Limits,         \* max_threads arguments: numbers, or None for no limit
    Names,          \* candidate nicknames, over all roles
    Pools,          \* candidate lists of the roles, as sets of names
    Preferred,      \* nicknames that resumed or restored agents ask for
    None,           \* Option::None
    MaxCount,       \* bound: unlimited reservations stop at this count
    MaxResets       \* bound: the nickname pool is reset at most so often

Threads   == Agents \cup Roots
Nicknames == Names \X (0..MaxResets)

\* agent_tree is keyed by the path, or by "thread:<id>" for a pathless agent.
PathKey(p)   == <<"path", p>>
ThreadKey(t) == <<"thread", t>>
Keys == {PathKey(p) : p \in Paths \cup {RootPath}} \cup {ThreadKey(t) : t \in Threads}

Metadata == [agent_id: Threads \cup {None},
             agent_path: Paths \cup {RootPath, None},
             agent_nickname: Nicknames \cup {None}]

ASSUME RegistryAssumption ==
    /\ IsFiniteSet(Agents) /\ IsFiniteSet(Reservations) /\ IsFiniteSet(Releasers)
    /\ Agents \cap Roots = {}
    /\ RootPath \notin Paths
    /\ Limits \subseteq Nat \cup {None}
    /\ None \notin Nat
    /\ Pools \subseteq SUBSET Names
    /\ Preferred \subseteq Nicknames
    /\ MaxCount \in Nat /\ MaxResets \in Nat
    /\ None \notin Threads \cup Paths \cup {RootPath} \cup Nicknames
    /\ None \notin Keys /\ None \notin Metadata

VARIABLES
    agent_tree,             \* Keys -> metadata, None where the map has no entry
    thread_paths,           \* Threads -> key, None where the map has no entry
    used_agent_nicknames,
    nickname_reset_count,
    total_count,            \* the atomic spawn-slot counter
    reservation,            \* the SpawnReservation values
    releasing               \* releasers between the unlock and their fetch_sub

vars == <<agent_tree, thread_paths, used_agent_nicknames, nickname_reset_count,
          total_count, reservation, releasing>>
nicknameVars == <<used_agent_nicknames, nickname_reset_count>>

\* "active": the struct's flag; "dropping": Drop ran its path part, not yet fetch_sub.
NoReservation == [stage |-> "idle", path |-> None, nickname |-> None]

Init ==
    /\ agent_tree = [k \in Keys |-> None]
    /\ thread_paths = [t \in Threads |-> None]
    /\ used_agent_nicknames = {}
    /\ nickname_reset_count = 0
    /\ total_count = 0
    /\ reservation = [r \in Reservations |-> NoReservation]
    /\ releasing = {}

-----------------------------------------------------------------------------
\* Reservations

\* Mutant: the limit test is off by one.
SlotAvailable_off_by_one(limit) ==
    IF limit = None THEN total_count < MaxCount ELSE total_count <= limit

\* The compare-exchange loop of try_increment_spawned, or the bare fetch_add.
SlotAvailable(limit) ==
    IF limit = None THEN total_count < MaxCount ELSE total_count < limit

reserve_spawn_slot(r, limit) ==
    /\ reservation[r].stage = "idle"
    /\ SlotAvailable(limit)
    /\ total_count' = total_count + 1
    /\ reservation' = [reservation EXCEPT ![r] = [NoReservation EXCEPT !.stage = "active"]]
    /\ UNCHANGED <<agent_tree, thread_paths, nicknameVars, releasing>>

\* Mutant: the path is checked but no placeholder keeps it.
reserve_agent_path_no_placeholder(r, p) ==
    /\ reservation[r].stage = "active"
    /\ reservation[r].path = None /\ reservation[r].nickname = None
    /\ agent_tree[PathKey(p)] = None
    /\ reservation' = [reservation EXCEPT ![r].path = p]
    /\ UNCHANGED <<agent_tree, thread_paths, nicknameVars, total_count, releasing>>

\* A placeholder entry without an agent id keeps the path; an occupied path is an
\* error, on which every caller drops the reservation.
reserve_agent_path(r, p) ==
    /\ reservation[r].stage = "active"
    /\ reservation[r].path = None /\ reservation[r].nickname = None
    /\ agent_tree[PathKey(p)] = None
    /\ agent_tree' = [agent_tree EXCEPT ![PathKey(p)] =
                        [agent_id |-> None, agent_path |-> p, agent_nickname |-> None]]
    /\ reservation' = [reservation EXCEPT ![r].path = p]
    /\ UNCHANGED <<thread_paths, nicknameVars, total_count, releasing>>

\* format_agent_nickname gives every reset of the pool its own ordinal suffix.
AvailableNames(pool) ==
    {<<name, nickname_reset_count>> : name \in pool} \ used_agent_nicknames

TakeNickname(r, nickname, used) ==
    /\ used_agent_nicknames' = used \cup {nickname}
    /\ reservation' = [reservation EXCEPT ![r].nickname = nickname]

reserve_preferred_nickname(r, nickname) ==
    /\ reservation[r].stage = "active" /\ reservation[r].nickname = None
    /\ TakeNickname(r, nickname, used_agent_nicknames)
    /\ UNCHANGED <<agent_tree, thread_paths, nickname_reset_count, total_count, releasing>>

draw_nickname(r, pool) ==
    /\ reservation[r].stage = "active" /\ reservation[r].nickname = None
    /\ \E nickname \in AvailableNames(pool) : TakeNickname(r, nickname, used_agent_nicknames)
    /\ UNCHANGED <<agent_tree, thread_paths, nickname_reset_count, total_count, releasing>>

\* Mutant: the pool is cleared but the ordinal does not advance.
reset_nickname_pool_same_ordinal(r, pool) ==
    /\ reservation[r].stage = "active" /\ reservation[r].nickname = None
    /\ pool # {} /\ AvailableNames(pool) = {}
    /\ \E name \in pool : TakeNickname(r, <<name, nickname_reset_count>>, {})
    /\ UNCHANGED <<agent_tree, thread_paths, nickname_reset_count, total_count, releasing>>

reset_nickname_pool(r, pool) ==
    /\ reservation[r].stage = "active" /\ reservation[r].nickname = None
    /\ pool # {} /\ AvailableNames(pool) = {}
    /\ nickname_reset_count < MaxResets
    /\ nickname_reset_count' = nickname_reset_count + 1
    /\ \E name \in pool : TakeNickname(r, <<name, nickname_reset_count + 1>>, {})
    /\ UNCHANGED <<agent_tree, thread_paths, total_count, releasing>>

MetadataKey(t, p) == IF p = None THEN ThreadKey(t) ELSE PathKey(p)

\* Mutant: the thread's previous entry stays in agent_tree.
register_spawned_thread_keep_previous(t, p, nickname) ==
    LET key == MetadataKey(t, p) IN
    /\ thread_paths' = [thread_paths EXCEPT ![t] = key]
    /\ agent_tree' = [agent_tree EXCEPT ![key] =
          [agent_id |-> t, agent_path |-> p, agent_nickname |-> nickname]]
    /\ used_agent_nicknames' = used_agent_nicknames \cup ({nickname} \ {None})

\* register_spawned_thread: the thread leaves the key it had, the key drops the
\* thread it had.
register_spawned_thread(t, p, nickname) ==
    LET key == MetadataKey(t, p) IN
    /\ thread_paths' = [u \in Threads |->
          IF u = t THEN key
          ELSE IF agent_tree[key] # None /\ agent_tree[key].agent_id = u THEN None
          ELSE thread_paths[u]]
    /\ agent_tree' = [k \in Keys |->
          IF k = key THEN [agent_id |-> t, agent_path |-> p, agent_nickname |-> nickname]
          ELSE IF k = thread_paths[t] THEN None
          ELSE agent_tree[k]]
    /\ used_agent_nicknames' = used_agent_nicknames \cup ({nickname} \ {None})

\* Mutant: commit forgets "active = false", so Drop runs for it as well.
commit_still_active(r, t) ==
    /\ reservation[r].stage = "active"
    /\ register_spawned_thread(t, reservation[r].path, reservation[r].nickname)
    /\ reservation' = [reservation EXCEPT ![r] = [NoReservation EXCEPT !.stage = "active"]]
    /\ UNCHANGED <<nickname_reset_count, total_count, releasing>>

\* The metadata committed is what was reserved, now with the thread's id.
commit(r, t) ==
    /\ reservation[r].stage = "active"
    /\ register_spawned_thread(t, reservation[r].path, reservation[r].nickname)
    /\ reservation' = [reservation EXCEPT ![r] = NoReservation]
    /\ UNCHANGED <<nickname_reset_count, total_count, releasing>>

\* Mutant: the placeholder of a failed spawn is left behind.
drop_reservation_keep_path(r) ==
    /\ reservation[r].stage = "active"
    /\ reservation' = [reservation EXCEPT ![r] = [NoReservation EXCEPT !.stage = "dropping"]]
    /\ UNCHANGED <<agent_tree, thread_paths, nicknameVars, total_count, releasing>>

\* Drop of an uncommitted reservation: first the path, unless an agent holds it...
drop_reservation(r) ==
    LET key == PathKey(reservation[r].path) IN
    /\ reservation[r].stage = "active"
    /\ agent_tree' = IF /\ reservation[r].path # None
                        /\ agent_tree[key] # None
                        /\ agent_tree[key].agent_id = None
                     THEN [agent_tree EXCEPT ![key] = None]
                     ELSE agent_tree
    /\ reservation' = [reservation EXCEPT ![r] = [NoReservation EXCEPT !.stage = "dropping"]]
    /\ UNCHANGED <<thread_paths, nicknameVars, total_count, releasing>>

\* ... then the slot.
drop_decrement(r) ==
    /\ reservation[r].stage = "dropping"
    /\ total_count' = total_count - 1
    /\ reservation' = [reservation EXCEPT ![r] = NoReservation]
    /\ UNCHANGED <<agent_tree, thread_paths, nicknameVars, releasing>>

-----------------------------------------------------------------------------
\* Registered threads

\* An existing root entry is kept and its own thread indexed again.
register_root_thread(t) ==
    LET key == PathKey(RootPath)
        root == IF agent_tree[key] = None
                THEN [agent_id |-> t, agent_path |-> RootPath, agent_nickname |-> None]
                ELSE agent_tree[key]
    IN
    /\ agent_tree' = [agent_tree EXCEPT ![key] = root]
    /\ thread_paths' = IF root.agent_id = None THEN thread_paths
                       ELSE [thread_paths EXCEPT ![root.agent_id] = key]
    /\ UNCHANGED <<nicknameVars, total_count, reservation, releasing>>

\* Mutant: releasing the root, which never took a slot, gives one back.
release_spawned_thread_counts_root(c, t) ==
    /\ c \notin releasing
    /\ thread_paths[t] # None
    /\ agent_tree' = [agent_tree EXCEPT ![thread_paths[t]] = None]
    /\ thread_paths' = [thread_paths EXCEPT ![t] = None]
    /\ releasing' = releasing \cup {c}
    /\ UNCHANGED <<nicknameVars, total_count, reservation>>

\* The locked part of release_spawned_thread.  Only an entry that is not the root
\* gives its slot back.
release_spawned_thread(c, t) ==
    LET key == thread_paths[t]
        counted == /\ key # None /\ agent_tree[key] # None
                   /\ agent_tree[key].agent_path # RootPath
    IN
    /\ c \notin releasing
    /\ key # None
    /\ thread_paths' = [thread_paths EXCEPT ![t] = None]
    /\ agent_tree' = [agent_tree EXCEPT ![key] = None]
    /\ releasing' = IF counted THEN releasing \cup {c} ELSE releasing
    /\ UNCHANGED <<nicknameVars, total_count, reservation>>

release_decrement(c) ==
    /\ c \in releasing
    /\ total_count' = total_count - 1
    /\ releasing' = releasing \ {c}
    /\ UNCHANGED <<agent_tree, thread_paths, nicknameVars, reservation>>

-----------------------------------------------------------------------------
ReservationStep(r) ==
    \/ \E limit \in Limits : reserve_spawn_slot(r, limit)
    \/ \E p \in Paths : reserve_agent_path(r, p)
    \/ \E nickname \in Preferred : reserve_preferred_nickname(r, nickname)
    \/ \E pool \in Pools : draw_nickname(r, pool)
    \/ \E pool \in Pools : reset_nickname_pool(r, pool)
    \/ \E t \in Agents : commit(r, t)
    \/ drop_reservation(r)
    \/ drop_decrement(r)

ReleaserStep(c) ==
    \/ \E t \in Threads : release_spawned_thread(c, t)
    \/ release_decrement(c)

Next ==
    \/ \E r \in Reservations : ReservationStep(r)
    \/ \E c \in Releasers : ReleaserStep(c)
    \/ \E t \in Roots : register_root_thread(t)

Spec == Init /\ [][Next]_vars

-----------------------------------------------------------------------------
\* Properties

TypeOK ==
    /\ agent_tree \in [Keys -> Metadata \cup {None}]
    /\ thread_paths \in [Threads -> Keys \cup {None}]
    /\ used_agent_nicknames \subseteq Nicknames
    /\ nickname_reset_count \in 0..MaxResets
    /\ total_count \in Nat
    /\ reservation \in [Reservations -> [stage: {"idle", "active", "dropping"},
                                         path: Paths \cup {None},
                                         nickname: Nicknames \cup {None}]]
    /\ releasing \subseteq Releasers

\* The two maps of ActiveAgents are inverse to each other: a thread's key leads to
\* that thread's own metadata, and an entry with an agent id is the one its thread
\* is indexed under.  Lookups by path and by thread id never disagree.
IndexConsistent ==
    /\ \A t \in Threads : thread_paths[t] # None =>
          /\ agent_tree[thread_paths[t]] # None
          /\ agent_tree[thread_paths[t]].agent_id = t
    /\ \A k \in Keys : (agent_tree[k] # None /\ agent_tree[k].agent_id # None) =>
          thread_paths[agent_tree[k].agent_id] = k

ReservationHolds(r, p) == reservation[r].stage = "active" /\ reservation[r].path = p

\* A path without an agent is occupied exactly while one active reservation holds
\* it: neither a concurrent drop, commit or release frees or takes a path that a
\* spawn in progress has reserved, nor does a failed spawn leave its path blocked.
ReservedPathsHeld ==
    \A p \in Paths :
        /\ (agent_tree[PathKey(p)] # None /\ agent_tree[PathKey(p)].agent_id = None)
             <=> \E r \in Reservations : ReservationHolds(r, p)
        /\ \A r, s \in Reservations : ReservationHolds(r, p) /\ ReservationHolds(s, p) => r = s

\* live_agents(): the registered threads other than the root.
LiveAgents ==
    {t \in Threads : \E k \in Keys : /\ agent_tree[k] # None
                                     /\ agent_tree[k].agent_id = t
                                     /\ agent_tree[k].agent_path # RootPath}

HeldReservations == {r \in Reservations : reservation[r].stage # "idle"}

\* The counter never falls behind: every live agent, every reservation not yet
\* dropped and every release that has still to decrement owns a slot of its own.
\* So fetch_sub cannot wrap around below zero.
SlotsAccounted ==
    Cardinality(LiveAgents) + Cardinality(HeldReservations) + Cardinality(releasing)
        <= total_count

\* "it limits: Total number of sub-agents": when every spawn is bounded, no
\* interleaving of spawns, resumes, drops and releases leaves more live agents
\* than the largest limit asked for.
LimitRespected ==
    \A m \in Nat \cap Limits :
        (\A l \in Limits : l # None /\ l <= m) => Cardinality(LiveAgents) <= m

\* A nickname drawn from the pool (not asked for by a resumed agent) belongs to one
\* agent or spawn in progress only, across pool resets: an old generation's names
\* are told apart by their ordinal.
HeldNicknames ==
    [h \in {<<"agent", k>> : k \in {k \in Keys : agent_tree[k] # None}}
           \cup {<<"reservation", r>> : r \in Reservations} |->
        IF h[1] = "agent" THEN agent_tree[h[2]].agent_nickname
        ELSE reservation[h[2]].nickname]

DrawnNicknamesUnique ==
    \A g, h \in DOMAIN HeldNicknames :
        (g # h /\ HeldNicknames[g] = HeldNicknames[h]) =>
            HeldNicknames[g] \in Preferred \cup {None}

OwnerOf(p) == IF agent_tree[PathKey(p)] = None THEN None ELSE agent_tree[PathKey(p)].agent_id

\* reserve_agent_path refuses an occupied path, so a path never passes from one live
\* agent to another in one step: its owner must have left the registry first.
PathNeverReassigned ==
    [][\A p \in Paths : OwnerOf(p) # None => OwnerOf(p)' \in {OwnerOf(p), None}]_vars
=============================================================================
