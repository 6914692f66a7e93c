---------------------------- MODULE FlowBackfill ----------------------------
(***************************************************************************)
(* The files of the general flow study: a csv the user downloaded is       *)
(* parsed, read again and compared with what was parsed, and then kept as  *)
(* three files named by its checksum, raw, normalized and lineage.  Each   *)
(* is created exclusively and written afterwards, without a temporary      *)
(* name: a process may die in between, another may find the file half      *)
(* written, and the user may replace the csv at any time.                  *)
(*                                                                         *)
(* A csv stands for its checksum.  The encoding and the duplicate flag of  *)
(* the result decide nothing and are left out.                             *)
(***************************************************************************)
EXTENDS Integers, FiniteSets, Sequences

CONSTANTS
    Loaders,       \* processes that run the study
    FlowDatasets,  \* investor scopes, and "short" for MDCSTAT300
    FlowCsvs,      \* bound: contents of a csv
    MaxDownloads,  \* bound: csv files the user downloads
    SymbolOf,      \* the symbol of each dataset that is about one
    NoCell,        \* a cell, date or column that is not there or not readable
    NoFile, Half   \* a path without a file; a file created but not yet written

ASSUME FlowFileAssumption == DOMAIN SymbolOf \subseteq FlowDatasets /\ MaxDownloads \in Nat

VARIABLES
    csvFile,       \* csvFile[ds]: the csv on the user's disk
    downloads,
    artifacts,     \* artifacts[<<layer, ds, csv>>]: NoFile, Half, or its content
    loader         \* loader[p]: where process p is

flowFileVars == <<csvFile, downloads, artifacts, loader>>

Layers == <<"raw", "normalized", "lineage">>
LayerSet == {Layers[i] : i \in DOMAIN Layers}

IdleLoader == [phase |-> "off", dataset |-> NoFile, csv |-> NoFile, bytes |-> NoFile,
               layer |-> 1]

FlowFileInit ==
    /\ csvFile = [ds \in FlowDatasets |-> NoFile]
    /\ downloads = 0
    /\ artifacts = [x \in LayerSet \X FlowDatasets \X FlowCsvs |-> NoFile]
    /\ loader = [p \in Loaders |-> IdleLoader]

-----------------------------------------------------------------------------

\* A row of another symbol is not read, nor one whose symbol is blank, which is
\* padded to six zeros before it is compared.
RowRead(csv, ds, row) ==
    /\ row.date # NoCell
    /\ csv.symbols /\ ds \in DOMAIN SymbolOf => row.symbol = SymbolOf[ds]

\* The investor csv: one record of each date and investor column with a value.
InvestorRows(csv, ds) ==
    {x \in (DOMAIN csv.rows) \X csv.columns :
        RowRead(csv, ds, csv.rows[x[1]]) /\ csv.rows[x[1]].cells[x[2]] # NoCell}

InvestorRecords(csv, ds) ==
    {[date |-> csv.rows[x[1]].date, investor |-> x[2], value |-> csv.rows[x[1]].cells[x[2]]] :
        x \in InvestorRows(csv, ds)}

\* load_krx_investor_net_buy_csv raises without investor columns, for a date
\* and investor met twice, and without any record.
InvestorGood(csv, ds) ==
    LET used == InvestorRows(csv, ds)
    IN  /\ used # {}
        /\ \A x, y \in used :
            csv.rows[x[1]].date = csv.rows[y[1]].date /\ x[2] = y[2] => x = y

\* The short sale csv: a record of each date with a volume or a balance; the
\* columns may each be missing but not be met twice.
ShortColumns(csv, name) == {c \in csv.columns : csv.short[c] = name}

ShortCell(csv, row, name) ==
    IF ShortColumns(csv, name) = {} THEN NoCell
    ELSE row.cells[CHOOSE c \in ShortColumns(csv, name) : TRUE]

ShortRows(csv, ds) ==
    {i \in DOMAIN csv.rows :
        /\ RowRead(csv, ds, csv.rows[i])
        /\ \E name \in {"volume", "balance"} : ShortCell(csv, csv.rows[i], name) # NoCell}

ShortRecords(csv, ds) ==
    {[date |-> csv.rows[i].date, volume |-> ShortCell(csv, csv.rows[i], "volume"),
      balance |-> ShortCell(csv, csv.rows[i], "balance")] : i \in ShortRows(csv, ds)}

\* load_krx_mdcstat300_short_sale_csv
ShortGood(csv, ds) ==
    LET used == ShortRows(csv, ds)
    IN  /\ \A name \in {"volume", "balance"} : Cardinality(ShortColumns(csv, name)) <= 1
        /\ used # {}
        /\ \A i, k \in used : csv.rows[i].date = csv.rows[k].date => i = k

\* A csv without headers or a date column is refused before its rows are read.
CsvParses(csv, ds) ==
    csv.dated /\ (IF ds = "short" THEN ShortGood(csv, ds) ELSE InvestorGood(csv, ds))

RecordsOf(csv, ds) == IF ds = "short" THEN ShortRecords(csv, ds) ELSE InvestorRecords(csv, ds)

\* What each file holds: the bytes, the records parsed from them, and the
\* checksums of both with the number of records.
ContentOf(layer, csv, ds, bytes) ==
    CASE layer = "raw" -> bytes
      [] layer = "normalized" -> RecordsOf(csv, ds)
      [] OTHER -> [raw |-> csv, normalized |-> RecordsOf(csv, ds),
                   count |-> Cardinality(RecordsOf(csv, ds))]

\* A path without a file and a half written file differ from every content.
ASSUME ContentAssumption ==
    \A layer \in LayerSet, ds \in FlowDatasets, csv \in FlowCsvs :
        ContentOf(layer, csv, ds, csv) \notin {NoFile, Half}

-----------------------------------------------------------------------------

\* The user downloads a csv, or replaces it by a newer one.
ReplaceCsv(ds) ==
    /\ downloads < MaxDownloads /\ downloads' = downloads + 1
    /\ \E csv \in FlowCsvs \ {csvFile[ds]} : csvFile' = [csvFile EXCEPT ![ds] = csv]
    /\ UNCHANGED <<artifacts, loader>>

LoadCsv(p, ds) ==
    /\ loader[p].phase = "off" /\ csvFile[ds] # NoFile
    /\ loader' = [loader EXCEPT ![p] =
            [IdleLoader EXCEPT !.phase = IF CsvParses(csvFile[ds], ds) THEN "reread" ELSE "failed",
                               !.dataset = ds, !.csv = csvFile[ds]]]
    /\ UNCHANGED <<csvFile, downloads, artifacts>>

\* Mutant: the second read is not compared with the first.
UnchangedAlways(p) == TRUE

UnchangedSince(p) == csvFile[loader[p].dataset] = loader[p].csv

\* _persist_append_only reads the file again; the bytes it then writes are those.
Reread(p) ==
    /\ loader[p].phase = "reread"
    /\ loader' = IF UnchangedSince(p)
                 THEN [loader EXCEPT ![p].phase = "create",
                                     ![p].bytes = csvFile[loader[p].dataset]]
                 ELSE [loader EXCEPT ![p].phase = "failed"]
    /\ UNCHANGED <<csvFile, downloads, artifacts>>

Path(p) == <<Layers[loader[p].layer], loader[p].dataset, loader[p].csv>>

Content(p) ==
    ContentOf(Layers[loader[p].layer], loader[p].csv, loader[p].dataset, loader[p].bytes)

Onwards(p) ==
    loader' = IF loader[p].layer < Len(Layers)
              THEN [loader EXCEPT ![p].layer = @ + 1, ![p].phase = "create"]
              ELSE [loader EXCEPT ![p].phase = "done"]

\* _write_once: the exclusive create succeeds, or what is there is compared.
CreateOrCompare(p) ==
    /\ loader[p].phase = "create"
    /\ \/ /\ artifacts[Path(p)] = NoFile
          /\ artifacts' = [artifacts EXCEPT ![Path(p)] = Half]
          /\ loader' = [loader EXCEPT ![p].phase = "write"]
       \/ /\ artifacts[Path(p)] = Content(p)
          /\ Onwards(p) /\ UNCHANGED artifacts
       \/ /\ artifacts[Path(p)] \notin {NoFile, Content(p)}
          /\ loader' = [loader EXCEPT ![p].phase = "conflict"]
          /\ UNCHANGED artifacts
    /\ UNCHANGED <<csvFile, downloads>>

WriteContent(p) ==
    /\ loader[p].phase = "write"
    /\ artifacts' = [artifacts EXCEPT ![Path(p)] = Content(p)]
    /\ Onwards(p)
    /\ UNCHANGED <<csvFile, downloads>>

\* The process dies, or its command is given again after it ended.
RestartLoader(p) ==
    /\ loader[p].phase # "off"
    /\ loader' = [loader EXCEPT ![p] = IdleLoader]
    /\ UNCHANGED <<csvFile, downloads, artifacts>>

FlowFileNext ==
    \/ \E ds \in FlowDatasets : ReplaceCsv(ds)
    \/ \E p \in Loaders :
        \/ \E ds \in FlowDatasets : LoadCsv(p, ds)
        \/ Reread(p) \/ CreateOrCompare(p) \/ WriteContent(p) \/ RestartLoader(p)

FlowFileSpec == FlowFileInit /\ [][FlowFileNext]_flowFileVars

-----------------------------------------------------------------------------

\* A lineage file that can be read vouches for the other two: the raw file is
\* complete and is the csv of its name, the normalized file is complete and
\* holds the records of that csv, also after crashes, other runs on the same
\* csv, and a csv replaced between its two reads.
LineageVouches ==
    \A ds \in FlowDatasets, csv \in FlowCsvs :
        artifacts[<<"lineage", ds, csv>>] \notin {NoFile, Half} =>
            /\ artifacts[<<"raw", ds, csv>>] = csv
            /\ artifacts[<<"normalized", ds, csv>>] = RecordsOf(csv, ds)

=============================================================================
