---------------------------- MODULE CasebookReader -----------------------------
(* build_casebook, file by file, while other things happen to the directories: *)
(* analyses publish, a run is copied or restored under another name or day,    *)
(* and single files are written again.  A digest is modelled by what it is a   *)
(* digest of, so that two are equal exactly when their payloads are.           *)
EXTENDS EvidenceChecks

CONSTANTS
  Name,       \* names of run directories, here numbers in their order
  Day,        \* names of day directories, here their numbers
  V2Run,      \* runs of the present strategy: [name, day, manifest]
  V1Run,      \* runs the former strategy has left, without a claim
  Configs,    \* payloads a config-snapshot.json can have: name to what it says
  Decisions,  \* payloads a decision.json can have: name to what it says
  MaxDamage,  \* bound: files written again and directories copied
  HourSize, DaySize,
  Timeframes1,  \* time frames of the gates of the former strategy
  Timeframes2,  \* time frames of the gates of the present one
  Missing       \* no such file or directory

ASSUME NameAssumption == Name \subseteq Int /\ Day \subseteq Int
ASSUME RunAssumption == \A r \in V1Run \cup V2Run : r.name \in Name /\ r.day \in Day
\* _publish writes a run's name into its manifest, and a boundary is claimed once.
ASSUME PublishedAssumption ==
  /\ \A r \in V2Run : r.manifest.run = r.name
  /\ \A q, r \in V2Run : q.manifest.boundary = r.manifest.boundary => q = r
ASSUME SizeAssumption == MaxDamage \in Nat /\ HourSize \in Nat \ {0} /\ DaySize \in Nat \ {0}

Path == Day \X Name
PathOf(r) == <<r.day, r.name>>

\* The second half of _eligible_cases: the configuration is the manifest's, and
\* for each symbol the indicators are valid and the decision is the one they lead to.
ContentFits(m, configFile, decisionFile) ==
  LET present == m.schema = "2"
      snapshot == Configs[configFile]
      report == Decisions[decisionFile]
      timeframes == IF present THEN Timeframes2 ELSE Timeframes1
      limit == IF present THEN m.boundary ELSE m.cutoff
      Body(s) == report.symbols[s]
  IN /\ snapshot.declared = m.config_hash
     /\ present => snapshot.content = m.config_hash
     /\ snapshot.symbols = DOMAIN report.symbols
     /\ \A s \in DOMAIN report.symbols :
          /\ ValidIndicators(Body(s).indicators, timeframes, limit)
          /\ Body(s).config_hash = m.config_hash
          /\ Body(s).decision = ExpectedDecision(Body(s).indicators)
     /\ report.status = AggregateStatus({Body(s).decision.status : s \in DOMAIN report.symbols})

\* What the analyses of either strategy write: a directory of its own for each
\* run, under the day of its cutoff, with files that fit its manifest.  A run of
\* the present strategy is of the last hour that is complete at its cutoff.
ASSUME WrittenAssumption ==
  /\ \A q, r \in V1Run \cup V2Run : PathOf(q) = PathOf(r) => q = r
  /\ \A r \in V1Run \cup V2Run : LET m == r.manifest IN
       /\ Missing \notin {m.files.config, m.files.decision}
       /\ m.schema # "none" =>
            /\ m.run = r.name /\ m.cutoff \in Nat /\ m.cutoff \div DaySize = r.day
            /\ ContentFits(m, m.files.config, m.files.decision)
  /\ \A r \in V1Run : r.manifest.schema = "none" \/ (r.manifest.schema = "1" /\ r.manifest.boundary < 0)
  /\ \A r \in V2Run : LET m == r.manifest IN
       /\ m.schema = "2" /\ m.boundary \in Nat /\ (m.boundary + 1) % HourSize = 0
       /\ m.boundary <= m.cutoff /\ m.cutoff < m.boundary + HourSize

FilesOf(r) == [manifest |-> r.manifest, config |-> r.manifest.files.config,
               decision |-> r.manifest.files.decision, extra |-> FALSE]

VARIABLES
  dirs,     \* path to its files; "extra" when the directory holds anything else
  claims,   \* rows of analysis_claims that are PUBLISHED
  damage,   \* number of files written again and directories copied
  pc,       \* where build_casebook is
  discovered,  \* the run directories that were opened
  todo,     \* those not read yet
  run,      \* the one being read
  manifest, config, decision,  \* what has been read of it
  cases,    \* rows of the casebook, one record for each run
  excluded  \* exclusions

diskVars == <<dirs, claims, damage>>
readVars == <<run, manifest, config, decision>>
resultVars == <<cases, excluded>>
vars == <<diskVars, pc, discovered, todo, readVars, resultVars>>

\* Variant: the hour that ends with the cutoff does not count as complete.
BoundaryOf_Incomplete(cutoff) == (cutoff \div HourSize) * HourSize - 1

BoundaryOf(cutoff) == ((cutoff + 1) \div HourSize) * HourSize - 1

\* What publish_analysis_claim records of a run.
ClaimOf(m, day) == [run |-> m.run, boundary |-> m.boundary, day |-> day, manifest |-> m]

--------------------------------------------------------------------------------
(* The directories *)

\* _publish renames a finished directory into place ...
PublishDirectory(r) ==
  /\ r \in V2Run
  /\ dirs[PathOf(r)] = Missing
  /\ dirs' = [dirs EXCEPT ![PathOf(r)] = FilesOf(r)]
  /\ UNCHANGED <<claims, damage>>

\* ... and publish_analysis_claim commits to its manifest.
PublishClaim(r) ==
  /\ r \in V2Run
  /\ dirs[PathOf(r)] # Missing
  /\ ClaimOf(r.manifest, r.day) \notin claims
  /\ claims' = claims \cup {ClaimOf(r.manifest, r.day)}
  /\ UNCHANGED <<dirs, damage>>

\* What a manifest can be written again as: one entry differs, or its digests
\* are brought up to date with the files beside it.
Rewritten(files) ==
  LET m == files.manifest
  IN {[m EXCEPT !.schema = s] : s \in {"none", "1", "2", "3"}}
       \cup {[m EXCEPT !.run = n] : n \in Name}
       \cup {[m EXCEPT !.boundary = m.boundary + HourSize]}
       \cup {[m EXCEPT !.files = [config |-> files.config, decision |-> files.decision]]}

Damage ==
  /\ damage < MaxDamage
  /\ damage' = damage + 1
  /\ UNCHANGED claims

RewriteFile(path) ==
  /\ dirs[path] # Missing
  /\ Damage
  /\ \/ \E m \in Rewritten(dirs[path]) : dirs' = [dirs EXCEPT ![path].manifest = m]
     \/ \E c \in DOMAIN Configs \cup {Missing} : dirs' = [dirs EXCEPT ![path].config = c]
     \/ \E d \in DOMAIN Decisions \cup {Missing} : dirs' = [dirs EXCEPT ![path].decision = d]
     \/ dirs' = [dirs EXCEPT ![path].extra = TRUE]

\* A run directory is copied, or restored from a copy, to another place.
CopyDirectory(from, to) ==
  /\ dirs[from] # Missing /\ dirs[to] = Missing
  /\ Damage
  /\ dirs' = [dirs EXCEPT ![to] = dirs[from]]

Environment ==
  /\ \/ \E r \in V2Run : PublishDirectory(r) \/ PublishClaim(r)
     \/ \E path \in Path : RewriteFile(path) \/ \E to \in Path : CopyDirectory(path, to)
  /\ UNCHANGED <<pc, discovered, todo, readVars, resultVars>>

--------------------------------------------------------------------------------
(* The reader *)

GoTo(label) == pc' = label

\* _open_runs: the directories are opened before the first is read, and stay
\* open whatever is renamed later.
OpenRuns ==
  /\ pc = "idle"
  /\ discovered' = {path \in Path : dirs[path] # Missing}
  /\ todo' = discovered'
  /\ GoTo("next")
  /\ UNCHANGED <<diskVars, readVars, resultVars>>

Precedes(p, q) == p[1] < q[1] \/ (p[1] = q[1] /\ p[2] < q[2])

\* The next one in the order of the names of days and runs.
ReadManifest(path) ==
  /\ pc = "next" /\ path \in todo
  /\ \A other \in todo : ~Precedes(other, path)
  /\ run' = path
  /\ manifest' = dirs[path].manifest
  /\ todo' = todo \ {path}
  /\ GoTo("entries")
  /\ UNCHANGED <<diskVars, discovered, config, decision, resultVars>>

\* _verify_hashes begins with the names of the entries ...
CheckEntries ==
  /\ pc = "entries"
  /\ GoTo(IF dirs[run].extra \/ Missing \in {dirs[run].config, dirs[run].decision}
          THEN "raised" ELSE "config")
  /\ UNCHANGED <<diskVars, discovered, todo, readVars, resultVars>>

\* ... and reads each file once, keeping what it has hashed.
ReadConfig ==
  /\ pc = "config"
  /\ config' = dirs[run].config
  /\ GoTo(IF config' = manifest.files.config THEN "decision" ELSE "raised")
  /\ UNCHANGED <<diskVars, discovered, todo, run, manifest, decision, resultVars>>

ReadDecision ==
  /\ pc = "decision"
  /\ decision' = dirs[run].decision
  /\ GoTo(IF decision' # manifest.files.decision THEN "raised"
          ELSE IF manifest.schema = "none" THEN "legacy"
          ELSE "claim")
  /\ UNCHANGED <<diskVars, discovered, todo, run, manifest, config, resultVars>>

\* A run without a schema version is excluded by name.
Exclude ==
  /\ pc = "legacy"
  /\ excluded' = excluded \cup {run}
  /\ GoTo("next")
  /\ UNCHANGED <<diskVars, discovered, todo, readVars, cases>>

\* Variant: the claim of the boundary is enough, whichever its manifest.
ClaimMatches_AnyManifest == \E c \in claims : c.run = manifest.run /\ c.day = run[1]

\* _validate_v2_claim: the published claim names this day and this manifest.
ClaimMatches == ClaimOf(manifest, run[1]) \in claims

\* _strategy_contract: the keys of the manifest are those of its schema, and only
\* the present one has a boundary.
StrategyContract ==
  \/ manifest.schema = "1" /\ manifest.boundary < 0
  \/ manifest.schema = "2" /\ manifest.boundary >= 0

\* Variant: a run without its claim is passed over.
CheckClaim_Skips ==
  /\ pc = "claim"
  /\ GoTo(IF StrategyContract /\ (manifest.schema = "2" => ClaimMatches) THEN "check" ELSE "next")
  /\ UNCHANGED <<diskVars, discovered, todo, readVars, resultVars>>

\* The contract, and for the present strategy the claim.
CheckClaim ==
  /\ pc = "claim"
  /\ GoTo(IF StrategyContract /\ (manifest.schema = "2" => ClaimMatches) THEN "check" ELSE "raised")
  /\ UNCHANGED <<diskVars, discovered, todo, readVars, resultVars>>

\* Variant: the directory's name does not have to be the run's.
PlaceMatches_AnyName ==
  /\ manifest.schema = "2" => manifest.boundary = BoundaryOf(manifest.cutoff)
  /\ manifest.cutoff \div DaySize = run[1]

\* The first half of _eligible_cases: the run is where its manifest says.
PlaceMatches ==
  /\ manifest.schema = "2" => manifest.boundary = BoundaryOf(manifest.cutoff)
  /\ manifest.run = run[2]
  /\ manifest.cutoff \div DaySize = run[1]

CheckRun ==
  /\ pc = "check"
  /\ IF PlaceMatches /\ ContentFits(manifest, config, decision)
     THEN /\ cases' = cases \cup {[path |-> run, manifest |-> manifest, decision |-> decision]}
          /\ GoTo("next")
     ELSE GoTo("raised") /\ UNCHANGED cases
  /\ UNCHANGED <<diskVars, discovered, todo, readVars, excluded>>

Finish ==
  /\ pc = "next" /\ todo = {}
  /\ GoTo("done")
  /\ UNCHANGED <<diskVars, discovered, todo, readVars, resultVars>>

Reader ==
  \/ OpenRuns \/ CheckEntries \/ ReadConfig \/ ReadDecision \/ Exclude \/ CheckClaim \/ CheckRun
  \/ Finish
  \/ \E path \in Path : ReadManifest(path)

Init ==
  /\ \E before \in SUBSET V2Run :
       /\ dirs = [path \in Path |->
                    LET here == {r \in V1Run \cup before : PathOf(r) = path}
                    IN IF here = {} THEN Missing ELSE FilesOf(CHOOSE r \in here : TRUE)]
       /\ claims = {ClaimOf(r.manifest, r.day) : r \in before}
  /\ damage = 0
  /\ pc = "idle"
  /\ discovered = {} /\ todo = {}
  /\ run = Missing /\ manifest = Missing /\ config = Missing /\ decision = Missing
  /\ cases = {} /\ excluded = {}

Next == Environment \/ Reader

Spec == Init /\ [][Next]_vars

--------------------------------------------------------------------------------
(* Properties *)

\* A row of the present strategy shows what the claim of its boundary committed
\* to, byte for byte, although manifest, files and claim are read one after the
\* other and may be written again in between, with digests brought up to date.
AcceptedIsCommitted ==
  \A c \in cases : c.manifest.schema = "2" =>
    \E r \in V2Run :
      /\ PathOf(r) = c.path
      /\ c.manifest = r.manifest
      /\ c.decision = r.manifest.files.decision

\* A run is counted once: its copies under other names or days do not enter, and
\* the present strategy has no two runs of one boundary.
EachRunOnce ==
  \A c, d \in cases :
    /\ c.manifest = d.manifest => c = d
    /\ c.manifest.schema = "2" /\ d.manifest.schema = "2"
         /\ c.manifest.boundary = d.manifest.boundary => c = d

\* A casebook accounts for every directory it has discovered: each is a case or
\* excluded by name, and a run that is neither stops the build.
NothingIsLeftOut ==
  pc = "done" => /\ {c.path : c \in cases} \cup excluded = discovered
                 /\ {c.path : c \in cases} \cap excluded = {}

\* Nothing but damage or an analysis that has not published its claim yet stops
\* a build: what the analyses of either strategy write is accepted.
OnlyDamageIsRefused ==
  [][pc # "raised" /\ pc' = "raised" /\ damage = 0 =>
       pc = "claim" /\ ClaimOf(manifest, run[1]) \notin claims]_vars
================================================================================
