------------------------------ MODULE Sampling ------------------------------
(***************************************************************************)
(* scripts/freeze_inspect_samples.py: calibration and main sets of official*)
(* sample ids, stratified and disjoint, drawn from what no earlier run has *)
(* used.  The history grows while the script runs; the three files of a    *)
(* suite are written one after the other; the script may die, and be given *)
(* again with --force.  The seed stands for any draw.                      *)
(***************************************************************************)
EXTENDS Integers, Sequences, FiniteSets, FiniteSetsExt, Functions

CONSTANTS
  PackRows,     \* suite -> the rows of its pack: case, official id, stratum label
  SuiteList,    \* the suites, in the order they are frozen
  Translated,   \* suites whose pack case ids are not the official ids
  LabelRank,    \* the labels, to their place in sorted order
  Sizes,        \* the <<calibration, main>> one may ask for
  NoLabel, NoFile,
  MaxSamplings, MaxUses  \* bounds

Sampled == Range(SuiteList)

ASSUME SamplingAssumption ==
  /\ SuiteList \in Seq(Sampled)
  /\ \A s \in Sampled : IsFiniteSet(PackRows[s])
  /\ \A s \in Sampled : \A r \in PackRows[s] :
       /\ r.label = NoLabel \/ r.label \in DOMAIN LabelRank
       /\ s \notin Translated => r.official = r.case
  /\ "uniform" \in DOMAIN LabelRank
  /\ \A k \in DOMAIN LabelRank : LabelRank[k] \in Nat
  /\ \A j, k \in DOMAIN LabelRank : LabelRank[j] = LabelRank[k] => j = k
  /\ Sizes \subseteq Nat \X Nat

VARIABLES
  consoleUsed, \* suite -> case ids of the episodes in the console's database
  logged,      \* suite -> official ids in the Inspect logs
  source,      \* suite -> where the official ids and labels come from: "frozen" are
               \* the pack's own rows, or a source file with the hash and the
               \* number of rows that the pack's manifest names
  files,       \* suite -> what each of its three files holds
  freezer,     \* the script: the suites to do, what it excludes, its draw
  torn,        \* history: suites whose files are of more than one draw
  samplings, uses

samplingVars == <<consoleUsed, logged, source, files, freezer, torn, samplings, uses>>

Unfrozen == [json |-> NoFile, calibration |-> NoFile, main |-> NoFile]

NoFreezer == [at |-> "none", todo |-> <<>>]

SamplingInit ==
  /\ consoleUsed = [s \in Sampled |-> {}] /\ logged = consoleUsed
  /\ source \in [Sampled -> {"frozen", "unsound"}]
  /\ files = [s \in Sampled |-> Unfrozen]
  /\ freezer = NoFreezer /\ torn = {}
  /\ samplings = 0 /\ uses = 0

Officials(rs) == {r.official : r \in rs}

\* The history in official ids: Inspect logs hold them, a console case id is one
\* or stands for one.  Logs that cannot be read are no part of it.
UsedSoFar(s, unread) ==
  Officials({r \in PackRows[s] : r.case \in consoleUsed[s]}) \cup (logged[s] \ unread)

-----------------------------------------------------------------------------
(* Apportionment *)

\* Largest remainders, ties by label.
Apportion(population, total) ==
  LET labels == DOMAIN population
      grand  == SumFunctionOnSet(population, labels)
      base   == [k \in labels |-> (population[k] * total) \div grand]
      rest   == [k \in labels |-> (population[k] * total) % grand]
      before(k) == {j \in labels : \/ rest[j] > rest[k]
                                   \/ rest[j] = rest[k] /\ LabelRank[j] < LabelRank[k]}
      extra  == total - SumFunctionOnSet(base, labels)
  IN IF grand = 0 \/ total = 0 THEN [k \in labels |-> 0]
     ELSE [k \in labels |-> base[k] + IF Cardinality(before(k)) < extra THEN 1 ELSE 0]

\* One stratum for each label, or a single one when a row has none.
Strata(kept) ==
  IF \E r \in kept : r.label = NoLabel THEN [l \in {"uniform"} |-> kept]
  ELSE [l \in {r.label : r \in kept} |-> {r \in kept : r.label = l}]

PopulationOf(strata) == [l \in DOMAIN strata |-> Cardinality(strata[l])]

\* Calibration first, main from what it leaves.
Draws(strata, sizes, calibration, main) ==
  LET population == PopulationOf(strata)
      first  == Apportion(population, sizes[1])
      remain == [l \in DOMAIN strata |-> population[l] - first[l]]
      second == Apportion(remain, sizes[2])
  IN /\ calibration \cap main = {}
     /\ \A l \in DOMAIN strata :
          /\ Cardinality(calibration \cap strata[l]) = first[l]
          /\ Cardinality(main \cap strata[l]) = second[l]

-----------------------------------------------------------------------------
(* The script *)

\* load_console_excluded, load_inspect_log_excluded: logs that cannot be dumped
\* are passed over.  Without --force no output may exist.
Sample(todo, sizes, force, unread) ==
  /\ freezer.at = "none" /\ samplings < MaxSamplings
  /\ force \/ \A s \in Range(todo) : files[s] = Unfrozen
  /\ samplings' = samplings + 1
  /\ freezer' = [at |-> "load", todo |-> todo, sizes |-> sizes,
                 console |-> consoleUsed,
                 logs |-> [s \in Sampled |-> logged[s] \ unread],
                 knew |-> [s \in Sampled |-> UsedSoFar(s, unread)]]
  /\ UNCHANGED <<consoleUsed, logged, source, files, torn, uses>>

\* Mutant: console case ids taken for official ones.
ExcludedAsTheyAre(s) == freezer.console[s] \cup freezer.logs[s]

\* resolve_excluded_ids
Excluded(s) ==
  (IF s \in Translated
   THEN Officials({r \in PackRows[s] : r.case \in freezer.console[s]})
   ELSE freezer.console[s]) \cup freezer.logs[s]

\* The suite loaders do not guess an id mapping.
Recoverable(s) == source[s] = "frozen"

\* SuiteUnavailable: on with the next suite.
Skip ==
  /\ freezer.at = "load" /\ ~Recoverable(Head(freezer.todo))
  /\ freezer' = IF Len(freezer.todo) = 1 THEN NoFreezer
                ELSE [freezer EXCEPT !.todo = Tail(@)]
  /\ UNCHANGED <<consoleUsed, logged, source, files, torn, samplings, uses>>

\* freeze_suite: duplicate ids and too small a population are refused.
Draw ==
  /\ freezer.at = "load" /\ Recoverable(Head(freezer.todo))
  /\ LET s    == Head(freezer.todo)
         kept == {r \in PackRows[s] : r.official \notin Excluded(s)}
         size == freezer.sizes
     IN /\ Cardinality(Officials(kept)) = Cardinality(kept)
        /\ size[1] + size[2] <= Cardinality(kept)
        /\ \E c \in kSubset(size[1], kept) : \E m \in kSubset(size[2], kept) :
             /\ Draws(Strata(kept), size, c, m)
             /\ freezer' = [at |-> "json", todo |-> freezer.todo, sizes |-> size,
                            console |-> freezer.console, logs |-> freezer.logs,
                            knew |-> freezer.knew,
                            calibration |-> Officials(c), main |-> Officials(m)]
  /\ UNCHANGED <<consoleUsed, logged, source, files, torn, samplings, uses>>

\* The three writes of a suite, in their order.
WriteFile(file, next) ==
  LET s == Head(freezer.todo) IN
  /\ freezer.at = file
  /\ files' = [files EXCEPT ![s][file] =
       IF file = "json" THEN [calibration |-> freezer.calibration, main |-> freezer.main]
       ELSE freezer[file]]
  /\ freezer' = IF next /= "load" THEN [freezer EXCEPT !.at = next]
                ELSE IF Len(freezer.todo) = 1 THEN NoFreezer
                ELSE [freezer EXCEPT !.at = next, !.todo = Tail(@)]
  /\ torn' = IF next = "load" THEN torn \ {s} ELSE torn \cup {s}
  /\ UNCHANGED <<consoleUsed, logged, source, samplings, uses>>

\* The draw is refused, a write fails, the script is killed.
Stop ==
  /\ freezer.at /= "none"
  /\ freezer' = NoFreezer
  /\ UNCHANGED <<consoleUsed, logged, source, files, torn, samplings, uses>>

\* A console run or an Inspect evaluation uses a case.
Use(s, r) ==
  /\ uses < MaxUses /\ uses' = uses + 1
  /\ \/ /\ r.case \notin consoleUsed[s] /\ UNCHANGED logged
        /\ consoleUsed' = [consoleUsed EXCEPT ![s] = @ \cup {r.case}]
     \/ /\ r.official \notin logged[s] /\ UNCHANGED consoleUsed
        /\ logged' = [logged EXCEPT ![s] = @ \cup {r.official}]
  /\ UNCHANGED <<source, files, freezer, torn, samplings>>

SamplingNext ==
  \/ \E n \in 1 .. Len(SuiteList), sizes \in Sizes, force \in BOOLEAN :
       \E unread \in SUBSET UNION {logged[s] : s \in Sampled} :
         Sample(SubSeq(SuiteList, n, Len(SuiteList)), sizes, force, unread)
  \/ Skip \/ Draw \/ Stop
  \/ WriteFile("json", "calibration") \/ WriteFile("calibration", "main")
  \/ WriteFile("main", "load")
  \/ \E s \in Sampled : \E r \in PackRows[s] : Use(s, r)

SamplingSpec == SamplingInit /\ [][SamplingNext]_samplingVars

-----------------------------------------------------------------------------
\* A draw has the sizes asked for, in each stratum within one of its share, and
\* no id that history the script could read has used, whichever id space it was
\* in; the files of a suite agree and are disjoint but where a script that
\* replaces them is at work or died there (freeze_inspect_samples.py:62-169,
\* 399-421, 533-537).
SamplesAreSound ==
  /\ freezer.at \notin {"none", "load"} =>
       LET s     == Head(freezer.todo)
           kept  == {r \in PackRows[s] : r.official \notin freezer.knew[s]}
           strata == Strata(kept)
       IN /\ freezer.calibration \cap freezer.main = {}
          /\ Cardinality(freezer.calibration) = freezer.sizes[1]
          /\ Cardinality(freezer.main) = freezer.sizes[2]
          /\ (freezer.calibration \cup freezer.main) \subseteq Officials(kept)
          /\ \A l \in DOMAIN strata :
               LET n == Cardinality(Officials(strata[l]) \cap freezer.calibration)
                         * Cardinality(kept)
               IN \A d \in {n - freezer.sizes[1] * Cardinality(strata[l])} :
                    -Cardinality(kept) < d /\ d < Cardinality(kept)
  /\ \A s \in Sampled \ torn : files[s] /= Unfrozen =>
       /\ files[s].json = [calibration |-> files[s].calibration, main |-> files[s].main]
       /\ files[s].calibration \cap files[s].main = {}
=============================================================================
