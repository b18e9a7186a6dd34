------------------------------ MODULE Datasets ------------------------------
(***************************************************************************)
(* The caches of frozen datasets and evaluator resources (dataset.py,      *)
(* evaluator.py, readiness.py), as the commands that share one work tree   *)
(* use them: `dataset --execute` and `evaluator --execute` download what a *)
(* manifest freezes, a smoke run checks the cases again and reads them, a  *)
(* publication run asks for readiness first.  A command is the list of its *)
(* steps over artifacts; commands interleave between steps, fail or die.   *)
(* What a server sends for an artifact is what the manifest froze or not.  *)
(***************************************************************************)
EXTENDS Integers, Sequences, Functions

CONSTANTS
  Shells,         \* commands that run at the same time
  CaseFile,       \* the artifact with the cases of the benchmark
  Resources,      \* the sequence of resource archives
  RecordsMatch,   \* CaseFile, as frozen, has the count and the ids of the manifest
  Verified,       \* implementation, comparability and revisions permit to publish
  MaxDeaths, MaxCommands  \* bounds

Artifacts == {CaseFile} \cup Range(Resources)

ASSUME DatasetsAssumption ==
  /\ Resources \in Seq(Range(Resources))
  /\ RecordsMatch \in BOOLEAN /\ Verified \in BOOLEAN

VARIABLES
  cached,     \* the bytes under each artifact's path
  unpacked,   \* the bytes under nltk_data of each archive
  shell,      \* the steps each command has yet to do
  used,       \* history: the bytes the runs have read their cases from
  tainted,    \* history: artifacts that a download altered after another command
              \* had checked them ("raced"), or that a command that died altered
              \* or unpacked by half ("left")
  runs, deaths

datasetVars == <<cached, unpacked, shell, used, tainted, runs, deaths>>

DatasetsInit ==
  /\ cached = [a \in Artifacts |-> "absent"]
  /\ unpacked = [a \in Range(Resources) |-> "absent"]
  /\ shell = [p \in Shells |-> <<>>]
  /\ used = {} /\ tainted = {}
  /\ runs = 0 /\ deaths = 0

Step(do, a) == [do |-> do, of |-> a]
Each(do)    == [i \in 1 .. Len(Resources) |-> Step(do, Resources[i])]

\* What each command does, in order: benchmark_readiness precedes a publication
\* run, and enumerate_cases checks the cases again before it reads them.
Readiness == <<Step("check", CaseFile), Step("present", CaseFile)>> \o Each("check") \o Each("unpacked")
Smoke     == <<Step("check", CaseFile), Step("read", CaseFile)>> \o Each("unpacked")
Program   == [dataset     |-> <<Step("get", CaseFile), Step("present", CaseFile)>>,
              evaluator   |-> Each("get") \o Each("unpack"),
              smoke       |-> Smoke,
              publication |-> Readiness \o Smoke]

Give(p, command) ==
  /\ shell[p] = <<>> /\ runs < MaxCommands
  /\ command = "publication" => Verified
  /\ runs' = runs + 1
  /\ shell' = [shell EXCEPT ![p] = Program[command]]
  /\ UNCHANGED <<cached, unpacked, used, tainted, deaths>>

Now(p, do, a) == shell[p] /= <<>> /\ Head(shell[p]) = Step(do, a)
Turn(p, do)  == shell' = [shell EXCEPT ![p][1].do = do]
Proceed(p)    == shell' = [shell EXCEPT ![p] = Tail(@)]
Refuse(p)     == shell' = [shell EXCEPT ![p] = <<>>]

\* Has another command checked the artifact and not used it yet?
Relied(p, a) ==
  \E q \in Shells \ {p} : \E i \in 1 .. Len(shell[q]) :
    /\ shell[q][i].of = a /\ shell[q][i].do \in {"read", "unpack"}
    /\ \A j \in 1 .. i : shell[q][j].of = a =>
                          shell[q][j].do \notin {"check", "get", "download"}

-----------------------------------------------------------------------------
\* Mutant: an artifact that is there is taken.
SoundIfPresent(a) == TRUE

\* An artifact that is there must have the frozen hash.
Sound(a) == cached[a] /= "altered"

\* plan takes an artifact that is absent, with size 0.
Check(p, a) ==
  /\ Now(p, "check", a)
  /\ IF Sound(a) THEN Proceed(p) ELSE Refuse(p)
  /\ UNCHANGED <<cached, unpacked, used, tainted, runs, deaths>>

\* materialize downloads it.
Get(p, a) ==
  /\ Now(p, "get", a)
  /\ IF cached[a] = "absent" THEN Turn(p, "download")
     ELSE IF Sound(a) THEN Proceed(p) ELSE Refuse(p)
  /\ UNCHANGED <<cached, unpacked, used, tainted, runs, deaths>>

\* _download: the temporary file takes its place before its hash is compared.
Download(p, a, bytes) ==
  /\ Now(p, "download", a)
  /\ cached' = [cached EXCEPT ![a] = bytes]
  /\ tainted' = IF bytes = "altered" /\ Relied(p, a)
                THEN tainted \cup {Step("raced", a)} ELSE tainted
  /\ Turn(p, bytes)
  /\ UNCHANGED <<unpacked, used, runs, deaths>>

\* The hash of what was downloaded: a wrong file is unlinked, be it this one or
\* one that has replaced it.
Compare(p, a) ==
  /\ \/ Now(p, "frozen", a) /\ Proceed(p) /\ UNCHANGED cached
     \/ Now(p, "altered", a) /\ Refuse(p) /\ cached' = [cached EXCEPT ![a] = "absent"]
  /\ UNCHANGED <<unpacked, used, tainted, runs, deaths>>

\* _verify_records, where the cases must be there, and readiness: altered ones may
\* have the frozen count and ids.
Present(p, a) ==
  /\ Now(p, "present", a)
  /\ \/ cached[a] = "frozen" /\ RecordsMatch /\ Proceed(p)
     \/ cached[a] = "altered" /\ (Proceed(p) \/ Refuse(p))
     \/ (cached[a] = "absent" \/ ~RecordsMatch) /\ Refuse(p)
  /\ UNCHANGED <<cached, unpacked, used, tainted, runs, deaths>>

\* enumerate_cases reads the path it has had checked.
Read(p, a) ==
  /\ Now(p, "read", a)
  /\ IF cached[a] = "absent" THEN Refuse(p) /\ UNCHANGED used
     ELSE Proceed(p) /\ used' = used \cup {cached[a]}
  /\ UNCHANGED <<cached, unpacked, tainted, runs, deaths>>

\* _extract_zip writes the members over what is there; altered bytes need not be
\* an archive at all.
Unpack(p, a) ==
  /\ Now(p, "unpack", a)
  /\ \/ cached[a] \in {"absent", "altered"} /\ Refuse(p) /\ UNCHANGED unpacked
     \/ /\ cached[a] /= "absent"
        /\ Turn(p, IF cached[a] = "frozen" THEN "write_frozen" ELSE "write_altered")
        /\ unpacked' = [unpacked EXCEPT ![a] = "partial"]
  /\ UNCHANGED <<cached, used, tainted, runs, deaths>>

Writes(p, a) == Now(p, "write_frozen", a) \/ Now(p, "write_altered", a)

Written(p, a) ==
  /\ Writes(p, a)
  /\ unpacked' = [unpacked EXCEPT ![a] =
       IF \E q \in Shells \ {p} : Writes(q, a) THEN "partial"
       ELSE IF Now(p, "write_frozen", a) THEN "frozen" ELSE "altered"]
  /\ Proceed(p)
  /\ UNCHANGED <<cached, used, tainted, runs, deaths>>

\* The evaluator and readiness look whether the resources are there.
Unpacked(p, a) ==
  /\ Now(p, "unpacked", a)
  /\ IF unpacked[a] = "absent" THEN Refuse(p) ELSE Proceed(p)
  /\ UNCHANGED <<cached, unpacked, used, tainted, runs, deaths>>

\* A command fails (the server answers with an error, the artifact is too large)
\* or dies.
Die(p) ==
  /\ shell[p] /= <<>> /\ deaths < MaxDeaths
  /\ deaths' = deaths + 1
  /\ tainted' = tainted \cup {Step("left", a) : a \in
       {a \in Artifacts : Now(p, "altered", a) \/ Writes(p, a)}}
  /\ Refuse(p)
  /\ UNCHANGED <<cached, unpacked, used, runs>>

DatasetsNext ==
  \E p \in Shells :
    \/ \E command \in DOMAIN Program : Give(p, command)
    \/ Die(p)
    \/ \E a \in Artifacts :
         \/ Check(p, a) \/ Get(p, a) \/ Compare(p, a) \/ Present(p, a) \/ Read(p, a)
         \/ Unpack(p, a) \/ Written(p, a) \/ Unpacked(p, a)
         \/ \E bytes \in {"frozen", "altered"} : Download(p, a, bytes)

DatasetsSpec == DatasetsInit /\ [][DatasetsNext]_datasetVars

-----------------------------------------------------------------------------
\* Bytes that are not the frozen ones are in the cache only while the command
\* that downloaded them compares their hash, or after it died there; a run reads
\* its cases from them, or finds them unpacked, only if a download put them there
\* between its own check and its use; a half-unpacked archive is being written or
\* its writer died (dataset.py:54-113, evaluator.py:24-57).
CachesAreHonest ==
  /\ \A a \in Artifacts :
       cached[a] = "altered" => \/ \E p \in Shells : Now(p, "altered", a)
                                \/ Step("left", a) \in tainted
  /\ "altered" \in used => Step("raced", CaseFile) \in tainted
  /\ \A a \in Range(Resources) :
       /\ unpacked[a] = "altered" => Step("raced", a) \in tainted
       /\ unpacked[a] = "partial" => \/ \E p \in Shells : Writes(p, a)
                                     \/ Step("left", a) \in tainted
=============================================================================
