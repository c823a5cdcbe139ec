---------------------------- MODULE UploadIntake ----------------------------
(***************************************************************************)
(* How a file comes in: ingest_upload of POST /orgs/{id}/uploads and of    *)
(* the MCP tools, and POST /upload of the selfhost mode.  A temporary file *)
(* beside the final one, the checks of upload_guard and xlsx_import, the   *)
(* rename, the column mapper and, but for POST /upload, the row with the   *)
(* usage in one commit.  Requests go side by side: they meet in uploads/   *)
(* and its quota.  Bytes are counted in whole units.                       *)
(***************************************************************************)
EXTENDS FiniteSets, Naturals

CONSTANTS
    Posts,       \* requests that upload a file
    PostedFiles, \* [route, kind, bytes, out, text]; out: bytes as CSV
    Quota,       \* DAAS_UPLOAD_QUOTA_BYTES; 0, no quota, is left out
    MaxBytes,    \* MAX_UPLOAD_BYTES
    MaxSide,     \* bound: requests side by side
    MaxCrashes   \* bound: stops of the process

ASSUME IntakeAssumption ==
    /\ IsFiniteSet(Posts) /\ PostedFiles # {}
    /\ {MaxBytes, MaxCrashes} \subseteq Nat /\ {Quota, MaxSide} \subseteq Nat \ {0}
    /\ \A f \in PostedFiles : {f.bytes, f.out} \subseteq Nat \ {0}

VARIABLES
    post,     \* where a request stands
    body,     \* its file
    room,     \* quota_remaining as it was read
    tmp,      \* bytes of <id>.tmp; 0: no such file
    final,    \* bytes of the file under its final name; 0: none
    listed,   \* requests whose uploads row is committed
    charged,  \* UsageCounter.upload_bytes
    reader,   \* a thread has not given up the temporary file yet
    aged,     \* the temporary file is older than STALE_TMP_AGE_SEC
    crashes

diskVars == <<tmp, final, reader, aged>>
intakeVars == <<post, body, room, listed, charged, crashes, diskVars>>

\* swept: as receiving, but another request has removed its temporary file.
Moving == {"receiving", "swept", "received", "converted", "moved", "mapped", "committed"}
UnderWay == {u \in Posts : post[u] \in Moving}

IntakeInit ==
    /\ post = [u \in Posts |-> "new"]
    /\ body = [u \in Posts |-> CHOOSE f \in PostedFiles : TRUE]
    /\ room = [u \in Posts |-> 0] /\ tmp = room /\ final = room
    /\ listed = {} /\ reader = {} /\ aged = {}
    /\ charged = 0 /\ crashes = 0

IntakeTypeOK ==
    /\ post \in [Posts -> Moving \cup {"new", "answered", "refused", "cut"}]
    /\ body \in [Posts -> PostedFiles]
    /\ {room, tmp, final} \subseteq [Posts -> Nat]
    /\ {listed, reader, aged} \subseteq SUBSET Posts
    /\ {charged, crashes} \subseteq Nat

-----------------------------------------------------------------------------
\* The units of bytes of files, each with its request: their number is the
\* sum of the sizes.
Units(sizes, whose) == UNION {{u} \X (1 .. sizes[u]) : u \in whose}
Total(sizes, whose) == Cardinality(Units(sizes, whose))

\* dir_usage_bytes: the final and the temporary files, whosever they are.
BytesHeld(t) == Total(t, Posts) + Total(final, Posts)

StepOf(u, from, to) == post[u] = from /\ post' = [post EXCEPT ![u] = to]

\* cleanup_stale_tmp: it goes by the age alone, also for a request that is
\* under way; a file that is open may stay (Windows).
Sweep(open) ==
    /\ tmp' = [v \in Posts |-> IF v \in aged \ open THEN 0 ELSE tmp[v]]
    /\ aged' = open

\* The sweep, the quota that is left.  Who is receiving does not notice yet.
Arrive(u, f) ==
    /\ Cardinality(UnderWay) < MaxSide
    /\ post[u] = "new"
    /\ \E open \in SUBSET (aged \cap (reader \cup UnderWay)) :
         /\ Sweep(open)
         /\ post' = [v \in Posts |->
                       IF v = u THEN "receiving"
                       ELSE IF v \in aged \ open /\ post[v] = "receiving" THEN "swept"
                       ELSE post[v]]
    /\ body' = [body EXCEPT ![u] = f]
    /\ LET held == BytesHeld(tmp') IN
         room' = [room EXCEPT ![u] = IF held < Quota THEN Quota - held ELSE 0]
    /\ UNCHANGED <<final, listed, charged, reader, crashes>>

\* A slip of Fits: the chunk is compared, not the total.
ChunkFits(u) == room[u] >= 1

\* What is received so far and one more chunk.
Fits(u) == tmp[u] + 1 <= room[u]

\* _stream_to_temp: a chunk; other requests go on between two of them.
Receive(u) ==
    /\ post[u] = "receiving" /\ tmp[u] < body[u].bytes
    /\ Fits(u) /\ tmp[u] < MaxBytes
    /\ tmp' = [tmp EXCEPT ![u] = @ + 1]
    /\ aged' = aged \ {u}
    /\ UNCHANGED <<post, body, room, final, listed, charged, reader, crashes>>

\* A slip of Discard: what was moved already is forgotten.
DiscardTmp(u) == final' = final

\* remove_quietly(final_path).
Discard(u) == final' = [final EXCEPT ![u] = 0]

\* Every way out with an error: the final file goes, then, in `finally`, the
\* temporary one; a file that a thread still holds may stay (Windows).
Refuse(u) ==
    /\ post' = [post EXCEPT ![u] = "refused"]
    /\ Discard(u)
    /\ \E left \in {0} \cup (IF u \in reader' THEN {tmp[u], body[u].out} ELSE {}) :
         /\ tmp' = [tmp EXCEPT ![u] = left]
         /\ aged' = IF left = tmp[u] THEN aged ELSE aged \ {u}
    /\ UNCHANGED <<body, room, listed, charged, crashes>>

\* A name or a path that is not allowed.
NameRefused(u) ==
    /\ post[u] = "receiving" /\ tmp[u] = 0
    /\ UNCHANGED reader
    /\ Refuse(u)

TooMuch(u) ==
    /\ post[u] = "receiving" /\ tmp[u] < body[u].bytes
    /\ ~Fits(u) \/ tmp[u] = MaxBytes
    /\ UNCHANGED reader
    /\ Refuse(u)

\* The chunks go to the file that was open; read_bytes then finds none.
SweptRefused(u) ==
    /\ post[u] = "swept"
    /\ UNCHANGED reader
    /\ Refuse(u)

-----------------------------------------------------------------------------
\* What decode_strict and read_client_csv decode a text as: the first of the
\* encodings that takes it.  `cut`: the 64 KiB of _sniff_separator end inside
\* a character of the UTF-8 text.
FirstOf(utf8, cp1250) == IF utf8 THEN "utf-8" ELSE IF cp1250 THEN "cp1250" ELSE "none"
CheckedAs(t) == FirstOf(t.utf8, t.cp1250)

\* A slip of ReadAs: CP1250 is tried first.
ReadAsCp1250(t) == IF t.cp1250 THEN "cp1250" ELSE FirstOf(t.utf8 /\ ~t.cut, FALSE)

ReadAs(t) == FirstOf(t.utf8 /\ ~t.cut, t.cp1250)

\* POST /upload awaits nothing between the checks and its answer.
AfterMove(f) == IF f.route = "legacy" THEN "answered" ELSE "moved"

\* validate_csv_bytes, _validate_package, policy; then os.replace, and of
\* POST /upload the mapper too.
CheckAndMove(u) ==
    LET f == body[u] IN
        \/ Refuse(u)   \* a check, or the rename while a thread holds the file
        \/ /\ CheckedAs(f.text) # "none"
           /\ f.route = "legacy" => ReadAs(f.text) # "none"
           /\ post' = [post EXCEPT ![u] = AfterMove(f)]
           /\ tmp' = [tmp EXCEPT ![u] = 0]
           /\ final' = [final EXCEPT ![u] = f.out]
           /\ aged' = aged \ {u}
           /\ UNCHANGED <<body, room, listed, charged, crashes>>

\* The end of the stream; of a CSV file or a package all checks follow at once.
Received(u) ==
    /\ post[u] = "receiving" /\ tmp[u] = body[u].bytes
    /\ UNCHANGED reader
    /\ IF body[u].kind # "xlsx" THEN CheckAndMove(u)
       ELSE /\ StepOf(u, "receiving", "received")
            /\ UNCHANGED <<body, room, tmp, final, listed, charged, aged, crashes>>

\* xlsx_to_csv_bytes in its thread: converted, if only from a file that it had
\* open before the sweep; refused, or out of time, when the thread may hold the
\* file beyond the grace.
Convert(u) ==
    /\ post[u] = "received"
    /\ \/ /\ StepOf(u, "received", "converted")
          /\ UNCHANGED <<body, room, listed, charged, diskVars, crashes>>
       \/ reader' \in {reader, reader \cup {u}} /\ Refuse(u)

\* formula_warning in its thread, which may run out of time too; then
\* write_bytes over the temporary file, or in its place, and the checks.
ScanFormulas(u) ==
    /\ post[u] = "converted"
    /\ reader' \in {reader, reader \cup {u}}
    /\ CheckAndMove(u)

\* The thread sees `cancel`.
ReaderEnds(u) ==
    /\ u \in reader
    /\ reader' = reader \ {u}
    /\ UNCHANGED <<post, body, room, tmp, final, listed, charged, aged, crashes>>

\* read_client_csv and map_dataframe in a thread; not of a package.
MapColumns(u) ==
    /\ StepOf(u, "moved", "mapped")
    /\ body[u].kind = "package" \/ ReadAs(body[u].text) # "none"
    /\ UNCHANGED <<body, room, listed, charged, diskVars, crashes>>

\* The row, add_usage and the audit event in one commit.
CommitUpload(u) ==
    /\ StepOf(u, "mapped", "committed")
    /\ listed' = listed \cup {u}
    /\ charged' = charged + body[u].bytes
    /\ UNCHANGED <<body, room, diskVars, crashes>>

\* The mapper raises, a statement before the commit fails, or the refresh
\* after it.
StoringFails(u) ==
    /\ post[u] \in {"moved", "mapped", "committed"}
    /\ UNCHANGED reader
    /\ Refuse(u)

AnswerPost(u) ==
    /\ StepOf(u, "committed", "answered")
    /\ UNCHANGED <<body, room, listed, charged, diskVars, crashes>>

\* Fifteen minutes pass: for what no request writes to any more, and for
\* requests under way that wrote nothing for as long.
TmpAges ==
    /\ \E stalled \in SUBSET UnderWay :
         aged' = {u \in (Posts \ UnderWay) \cup aged \cup stalled : tmp[u] > 0}
    /\ aged' # aged
    /\ UNCHANGED <<post, body, room, tmp, final, listed, charged, reader, crashes>>

\* The process stops and starts again; the selfhost mode sweeps all of its
\* temporary files as it starts.
StopIntake ==
    /\ crashes < MaxCrashes /\ crashes' = crashes + 1
    /\ post' = [u \in Posts |-> IF u \in UnderWay THEN "cut" ELSE post[u]]
    /\ reader' = {}
    /\ tmp' \in {tmp, [u \in Posts |-> 0]}
    /\ aged' = {u \in aged : tmp'[u] > 0}
    /\ UNCHANGED <<body, room, final, listed, charged>>

IntakeNext ==
    \/ TmpAges
    \/ StopIntake
    \/ \E u \in Posts :
         \/ (\E f \in PostedFiles : Arrive(u, f)) \/ NameRefused(u) \/ Receive(u) \/ TooMuch(u)
         \/ SweptRefused(u) \/ Received(u) \/ Convert(u)
         \/ ScanFormulas(u) \/ ReaderEnds(u) \/ MapColumns(u) \/ CommitUpload(u)
         \/ StoringFails(u) \/ AnswerPost(u)

IntakeSpec == IntakeInit /\ [][IntakeNext]_intakeVars

-----------------------------------------------------------------------------
\* A file that is kept was mapped in the encoding in which it was checked,
\* unless the sniffed sample ends inside a character.
ReadAsChecked ==
    \A u \in Posts :
        /\ post[u] \in {"mapped", "committed", "answered"} /\ body[u].kind # "package"
        /\ ~body[u].text.cut
        => ReadAs(body[u].text) = CheckedAs(body[u].text)

\* The bytes of each request.
Sent == [u \in Posts |-> body[u].bytes]

\* A refused upload leaves no file under its final name, an answered one has
\* its file and no temporary one beside it, whatever failed on the way; the
\* bytes charged are those of the rows; a kept file was read as it was checked.
NothingHalfStored ==
    /\ \A u \in Posts :
         /\ post[u] = "refused" => final[u] = 0
         /\ post[u] = "answered" => final[u] = body[u].out /\ tmp[u] = 0
         /\ u \in listed /\ post[u] # "refused" => final[u] > 0
    /\ charged = Total(Sent, listed)
    /\ ReadAsChecked

\* What a request holds of the disk, but for what its file grows in conversion.
Held ==
    [u \in Posts |-> IF final[u] + tmp[u] < Sent[u] THEN final[u] + tmp[u] ELSE Sent[u]]

\* Each request reads the quota once: requests side by side pass it by their
\* own files at most, and a workbook by what it grows in conversion.
QuotaExcessBounded == Total(Held, Posts) <= Quota + (MaxSide - 1) * MaxBytes
=============================================================================
