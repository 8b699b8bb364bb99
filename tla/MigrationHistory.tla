-------------------------- MODULE MigrationHistory --------------------------
(* The migrations of this release, what each needs of the schema and adds to   *)
(* it, and the two runners that apply them: kikan's, which records in          *)
(* kikan_migrations, and SeaORM's, which records in seaql_migrations. One      *)
(* database is followed from what an earlier release left to a boot that       *)
(* serves, with crashes between migrations.                                    *)
(*                                                                             *)
(* `at` is the timestamp a migration's name starts with (month, day, counter): *)
(* names are compared by it. `creates` are the tables of a CREATE TABLE, which *)
(* fails when one exists, `ensures` those of CREATE TABLE IF NOT EXISTS,       *)
(* `needs` the tables altered, indexed, guarded or referred to.                *)
EXTENDS Naturals, FiniteSets, FiniteSetsExt

VARIABLES
  role,      \* "meta" or "profile": which of the two databases this is
  origin,    \* the history it had before this release: "fresh", "kikan", "seaql"
  tables,    \* tables of the database
  rows,      \* kikan_migrations: <<graft, name>>
  seaql,     \* seaql_migrations: names
  pass,      \* the pass in progress
  plan,      \* migrations the pass has still to apply
  again      \* a migration of an earlier release was executed a second time

vars == <<role, origin, tables, rows, seaql, pass, plan, again>>

Engine == "kikan::engine"
Shop == "mokumo"

Platform(name, at, target, deps, creates, needs) ==
  [name |-> name, at |-> at, graft |-> Engine, target |-> target, deps |-> deps,
   creates |-> creates, ensures |-> {}, needs |-> needs]

CreateMetaProfiles ==
  Platform("create_meta_profiles", 42500, "Meta", {}, {"profiles"}, {})

PartitionLegacyHistory ==
  Platform("partition_legacy_history", 42501, "Meta", {}, {}, {})

CreateMetaActivityLog ==
  [Platform("create_meta_activity_log", 42503, "Meta", {}, {}, {}) EXCEPT
     !.ensures = {"activity_log"}]

CreateLegacyUpgradeLocks ==
  Platform("create_legacy_upgrade_locks", 42700, "Meta", {}, {"legacy_upgrade_locks"}, {})

UsersAndRoles ==
  Platform("users_and_roles", 32700, "Meta", {}, {"roles", "users"}, {})

ShopSettings ==
  Platform("shop_settings", 41100, "PerProfile", {"users_and_roles"}, {"shop_settings"}, {})

\* Mutant of ProfileUserRoles: only one half of the key is declared.
ProfileUserRolesUndeclared ==
  Platform("profile_user_roles", 42400, "Meta", {"users_and_roles"},
           {"profile_user_roles"}, {"profiles", "users"})

(* profile_id refers to profiles, user_id to users.                            *)
ProfileUserRoles ==
  Platform("profile_user_roles", 42400, "Meta", {"create_meta_profiles", "users_and_roles"},
           {"profile_user_roles"}, {"profiles", "users"})

(* Triggers and an index on users.                                             *)
PreventLastAdminDeactivation ==
  Platform("prevent_last_admin_deactivation", 42401, "Meta",
           {"users_and_roles", "profile_user_roles"}, {}, {"users"})

ActiveIntegrations ==
  Platform("active_integrations", 42402, "Meta", {}, {"active_integrations"}, {})

IntegrationEventLog ==
  Platform("integration_event_log", 42403, "Meta", {"active_integrations"},
           {"integration_event_log"}, {"active_integrations"})

PlatformMigrations ==
  {CreateMetaProfiles, PartitionLegacyHistory, CreateMetaActivityLog, CreateLegacyUpgradeLocks,
   UsersAndRoles, ShopSettings, ProfileUserRoles, PreventLastAdminDeactivation,
   ActiveIntegrations, IntegrationEventLog}

(* The shop's list; each depends on the one before it, login_lockout on the    *)
(* platform's users table as well.                                             *)
OfShop(name, at, deps, creates, ensures, needs) ==
  [name |-> name, at |-> at, graft |-> Shop, target |-> "PerProfile", deps |-> deps,
   creates |-> creates, ensures |-> ensures, needs |-> needs]

InitMigration == OfShop("init", 32100, {}, {}, {}, {})
Settings == OfShop("settings", 32200, {"init"}, {}, {"settings"}, {})
NumberSequences == OfShop("number_sequences", 32400, {"settings"}, {}, {"number_sequences"}, {})
CustomersAndActivity ==
  OfShop("customers_and_activity", 32401, {"number_sequences"}, {"customers"}, {"activity_log"}, {})
CustomersDeletedAtIndex ==
  OfShop("customers_deleted_at_index", 32600, {"customers_and_activity"}, {}, {}, {"customers"})
SetPragmas == OfShop("set_pragmas", 40400, {"customers_deleted_at_index"}, {}, {}, {})
LoginLockout == OfShop("login_lockout", 41600, {"set_pragmas", "users_and_roles"}, {}, {}, {"users"})
ActivityLogCompositeIndex ==
  OfShop("activity_log_composite_index", 41800, {"login_lockout"}, {}, {}, {"activity_log"})

ShopMigrations ==
  {InitMigration, Settings, NumberSequences, CustomersAndActivity, CustomersDeletedAtIndex,
   SetPragmas, LoginLockout, ActivityLogCompositeIndex}

AllMigrations == PlatformMigrations \cup ShopMigrations

Key(m) == <<m.graft, m.name>>

--------------------------------------------------------------------------------
(* Histories of earlier releases. "kikan": a meta.db whose platform migrations *)
(* carry the graft id they had before; "seaql": a profile database from before *)
(* kikan's runner, with the platform's first tables recorded by SeaORM.        *)
Relabelled ==
  {UsersAndRoles, ProfileUserRoles, PreventLastAdminDeactivation, ActiveIntegrations,
   IntegrationEventLog}

PreStage3 ==
  {InitMigration, Settings, NumberSequences, CustomersAndActivity, CustomersDeletedAtIndex,
   UsersAndRoles, SetPragmas, ShopSettings}

TablesOf(M) == UNION {m.creates \cup m.ensures : m \in M}

Init ==
  /\ \/ role \in {"meta", "profile"} /\ origin = "fresh" /\ tables = {} /\ rows = {} /\ seaql = {}
     \/ /\ role = "meta" /\ origin = "kikan" /\ seaql = {}
        /\ tables = TablesOf(Relabelled) /\ rows = {<<"kikan", m.name>> : m \in Relabelled}
     \/ /\ role = "profile" /\ origin = "seaql" /\ rows = {}
        /\ tables = TablesOf(PreStage3) /\ seaql = {m.name : m \in PreStage3}
  /\ pass = "down" /\ plan = {} /\ again = FALSE

History == <<role, origin, tables, rows, seaql>>

\* Mutant of FirstPass: the shop's migrations before the platform's.
ShopFirst == IF role = "meta" THEN "meta" ELSE "seaorm"

(* Which passes a boot makes over a database, in order, and what each is       *)
(* given: the whole platform set, SeaORM's list, the whole set filtered by     *)
(* target.                                                                     *)
FirstPass == IF role = "meta" THEN "meta" ELSE "platform"

Considered(p) ==
  CASE p = "platform" -> PlatformMigrations
    [] p = "seaorm"   -> ShopMigrations
    [] p = "meta"     -> {m \in AllMigrations : m.target = "Meta"}
    [] p = "profile"  -> {m \in AllMigrations : m.target = "PerProfile"}

After(p) ==
  CASE p = "platform" -> "seaorm"
    [] p = "seaorm"   -> "profile"
    [] p \in {"meta", "profile"} -> "serving"

\* Mutant of Backfilled: the rows of the other runner are left out.
NotBackfilled(p) == rows

Backfilled(p) == IF p = "profile" THEN rows \cup {<<Shop, n>> : n \in seaql} ELSE rows

(* bootstrap_tables, backfill_seaql_if_present, query_applied and the filter:  *)
(* what a pass will apply is settled before the first migration of it runs.    *)
Begin(p) ==
  /\ pass' = p
  /\ rows' = Backfilled(p)
  /\ plan' = IF p = "seaorm" THEN {m \in ShopMigrations : m.name \notin seaql}
             ELSE {m \in Considered(p) : Key(m) \notin Backfilled(p)}
  /\ UNCHANGED <<role, origin, tables, seaql, again>>

StartUp == pass = "down" /\ Begin(FirstPass)

Running == pass \in {"platform", "seaorm", "meta", "profile"}

NextPass ==
  /\ Running /\ plan = {}
  /\ IF After(pass) = "serving"
       THEN pass' = "serving" /\ UNCHANGED <<History, plan, again>>
       ELSE Begin(After(pass))

(* dag::resolve: of the migrations whose dependencies come before, the one     *)
(* with the least target, graft and name. Targets compare Meta < PerProfile,   *)
(* grafts kikan::engine < mokumo. SeaORM goes by its list, which is by name.   *)
Rank(m) == (IF m.target = "Meta" THEN 0 ELSE 200000) + (IF m.graft = Engine THEN 0 ELSE 100000) + m.at

Pending(m) == {d \in plan : d.name \in m.deps}

Turn ==
  IF pass = "seaorm" THEN CHOOSE m \in plan : \A n \in plan : m.at <= n.at
  ELSE LET ready == {m \in plan : Pending(m) = {}}
       IN CHOOSE m \in ready : \A n \in ready : Rank(m) <= Rank(n)

Applies(m) ==
  /\ m.creates \cap tables = {}
  /\ m.needs \subseteq tables \cup m.creates

(* The UPDATE of m_0002: rows of five platform migrations move to the engine's *)
(* graft id.                                                                   *)
Relabel(R) ==
  (R \ {<<"kikan", m.name>> : m \in Relabelled})
    \cup {Key(m) : m \in {n \in Relabelled : <<"kikan", n.name>> \in R}}

Recorded(m) ==
  IF m = PartitionLegacyHistory THEN Relabel(rows) \cup {Key(m)} ELSE rows \cup {Key(m)}

(* What an earlier run of either runner, under either graft id, has done.      *)
KnownDone(m) == m.name \in seaql \/ \E g \in {"kikan", Engine, Shop} : <<g, m.name>> \in rows

(* apply_single, or one turn of Migrator::up: the migration and its row in one *)
(* transaction.                                                                *)
Apply(m) ==
  /\ Running /\ m \in plan /\ m = Turn
  /\ Applies(m)
  /\ tables' = tables \cup m.creates \cup m.ensures
  /\ IF pass = "seaorm" THEN seaql' = seaql \cup {m.name} /\ UNCHANGED rows
     ELSE rows' = Recorded(m) /\ UNCHANGED seaql
  /\ plan' = plan \ {m}
  /\ again' = (again \/ KnownDone(m))
  /\ UNCHANGED <<role, origin, pass>>

(* A statement of it fails: rolled back, and the boot is over.                 *)
Fail(m) ==
  /\ Running /\ m \in plan /\ m = Turn
  /\ ~ Applies(m)
  /\ pass' = "failed" /\ plan' = {}
  /\ again' = (again \/ KnownDone(m))
  /\ UNCHANGED <<role, origin, tables, rows, seaql>>

Crash ==
  /\ pass # "down"
  /\ pass' = "down" /\ plan' = {} /\ again' = FALSE
  /\ UNCHANGED History

Next ==
  \/ StartUp \/ NextPass \/ Crash
  \/ \E m \in AllMigrations : Apply(m) \/ Fail(m)

Spec == Init /\ [][Next]_vars

--------------------------------------------------------------------------------
TypeOK ==
  /\ tables \subseteq TablesOf(AllMigrations)
  /\ rows \subseteq {"kikan", Engine, Shop} \X {m.name : m \in AllMigrations}
  /\ seaql \subseteq {m.name : m \in AllMigrations}
  /\ plan \subseteq AllMigrations
  /\ pass \in {"down", "platform", "seaorm", "meta", "profile", "serving", "failed"}

(* The declared dependencies and the order of the passes are enough: on a      *)
(* database this release has created, no migration meets a table that is       *)
(* missing or already there, whichever boots were cut short, and a server      *)
(* works on the complete schema of its database.                               *)
SchemaThere ==
  origin = "fresh" =>
    /\ pass # "failed" /\ ~ again
    /\ pass = "serving" =>
         tables = TablesOf(IF role = "meta" THEN {m \in AllMigrations : m.target = "Meta"}
                           ELSE AllMigrations)

(* m_0002_partition_legacy_history.rs:4-8: rows of the former graft id are     *)
(* relabelled "so the runner does not try to re-apply them".                   *)
NotReapplied == origin = "kikan" => ~ again

================================================================================
