---------------------------- MODULE SchemaUpgrade ----------------------------
(***************************************************************************)
(* What MigrationRunner::migrate promises to those who deploy: a migration *)
(* is executed and recorded in one step, on top of all those before it; a  *)
(* server runs when the schema has each migration of its release; and it   *)
(* fails to start for two reasons only, a crash or a migration of its      *)
(* release that was recorded with another content.  There are no locks,    *)
(* transactions or loops: several servers may start at once.               *)
(***************************************************************************)
EXTENDS Integers

CONSTANTS
  Servers, Contents,
  Releases        \* contents by version

VARIABLES
  files,          \* the migrations that each server will find
  release,        \* those it has found when it started
  schema,         \* the migrations executed: their version, content and checksum
  status,         \* of each server
  changed,        \* versions whose file was replaced
  crashes
vars == <<files, release, schema, status, changed, crashes>>

Init ==
  /\ files \in [Servers -> Releases]
  /\ release = [s \in Servers |-> <<>>]
  /\ schema = {}
  /\ status = [s \in Servers |-> "down"]
  /\ changed = {} /\ crashes = 0

\* The schema has this migration of the server's release, or all before it.
Has(s, v) == \E e \in schema : e.version = v /\ e.checksum = release[s][v]
HasAllBefore(s, v) == \A w \in DOMAIN release[s] : w < v => Has(s, w)

\* The next migration of a release is the last one of the schema.  What is executed
\* is read again, so that it may differ from its checksum if the file was replaced.
Executes(s) ==
  \E v \in DOMAIN release[s], sql \in Contents :
    /\ HasAllBefore(s, v) /\ \A e \in schema : e.version < v
    /\ v \notin changed => sql = release[s][v]
    /\ schema' = schema \cup {[version |-> v, executed |-> sql, checksum |-> release[s][v]]}

Becomes(s, outcome) ==
  /\ status[s] = "starting"
  /\ status' = [status EXCEPT ![s] = outcome]

Start(s) ==
  /\ status[s] \in {"down", "failed"}
  /\ status' = [status EXCEPT ![s] = "starting"]
  /\ release' = [release EXCEPT ![s] = files[s]]
  /\ UNCHANGED <<files, schema, changed, crashes>>

Migrate(s) ==
  /\ status[s] = "starting" /\ Executes(s)
  /\ UNCHANGED <<files, release, status, changed, crashes>>

Run(s) ==
  /\ \A v \in DOMAIN release[s] : Has(s, v)
  /\ Becomes(s, "running")
  /\ UNCHANGED <<files, release, schema, changed, crashes>>

\* A migration that is recorded was changed since, or belongs to another release.
Refuse(s) ==
  /\ \E v \in DOMAIN release[s] :
       /\ HasAllBefore(s, v)
       /\ \E e \in schema : e.version = v /\ e.checksum # release[s][v]
  /\ Becomes(s, "failed")
  /\ UNCHANGED <<files, release, schema, changed, crashes>>

\* The server may not know that its last migration was committed.
Crash(s) ==
  /\ crashes' = crashes + 1
  /\ Executes(s) \/ UNCHANGED schema
  /\ Becomes(s, "failed")
  /\ UNCHANGED <<files, release, changed>>

Replace(s) ==
  /\ \E v \in DOMAIN files[s], content \in Contents :
       /\ files' = [files EXCEPT ![s][v] = content]
       /\ changed' = changed \cup {v}
  /\ UNCHANGED <<release, schema, status, crashes>>

Next ==
  \E s \in Servers : Start(s) \/ Migrate(s) \/ Run(s) \/ Refuse(s) \/ Crash(s) \/ Replace(s)

Spec == Init /\ [][Next]_vars
=============================================================================
