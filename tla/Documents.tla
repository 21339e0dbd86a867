------------------------------ MODULE Documents -----------------------------
(***************************************************************************)
(* Documents of Vendra: a file on disk and a row in the database for each, *)
(* numbered within the history of a supplier's document, and signatures.   *)
(* A history is a supplier, a document type and a name; the ones in        *)
(* Homeless have no supplier.  The id of the supplier may be spelled in    *)
(* more than one way (validUUID accepts both cases): the rows know no      *)
(* spelling, the lock does.  One statement per step; any of them may       *)
(* fail, and the outcome of a commit may stay unknown.                     *)
(***************************************************************************)
EXTENDS Naturals, FiniteSetsExt

CONSTANTS Histories, Homeless,
          Spellings,      \* ways to write the id of one supplier
          Uploads,        \* rows of documents and their files (bound)
          DocRequests,    \* uploads in flight at once (bound)
          Signers, SignatureTypes,
          Absent

ASSUME DocumentsAssumption ==
    /\ Homeless \subseteq Histories /\ Absent \notin Histories \cup Uploads \cup DocRequests
    /\ IsFiniteSet(Uploads)

VARIABLES document,     \* documents; ghost: the spelling each was uploaded with
          disk,         \* files under the storage path
          signature,    \* document_signatures: document, signer and type
          doclock,      \* pg_advisory_xact_lock of each key
          dreq,         \* handlers in flight
          unknown       \* ghost: uploads whose commit was reported as failed and was not

docVars == <<document, disk, signature, doclock, dreq, unknown>>

NoDocument == [history |-> Absent, spelling |-> Absent, version |-> 0, status |-> "active"]
NoUpload == [pc |-> "idle", doc |-> Absent, history |-> Absent, spelling |-> Absent, version |-> 0]

\* Without a supplier there is no id to spell.
Spelled(h) == IF h \in Homeless THEN {Absent} ELSE Spellings

\* versionKey: the id as it was sent, and the type and the name.
LockKeys == UNION {{h} \X Spelled(h) : h \in Histories}

Onto(r, fields) == dreq' = [dreq EXCEPT ![r] = fields]
Ends(r) == Onto(r, NoUpload)

Used(d) == document[d] # NoDocument \/ d \in disk \/ \E r \in DocRequests : dreq[r].doc = d

\* documentLive: only such a document can be signed.
DocumentLive(d) == document[d].history # Absent /\ document[d].status \in {"active", "approved"}

-----------------------------------------------------------------------------
\* uploadDocument writes the file first; one that breaks off or is empty is removed.
WriteFile(r, d, h, spelling, whole) ==
    /\ dreq[r].pc = "idle"
    /\ ~Used(d)
    /\ IF whole THEN /\ disk' = disk \cup {d}
                     /\ Onto(r, [NoUpload EXCEPT !.pc = "checked", !.doc = d, !.history = h, !.spelling = spelling])
                ELSE UNCHANGED <<disk, dreq>>
    /\ UNCHANGED <<document, signature, doclock, unknown>>

\* A document type that is too long is refused only now, and the file stays.
RefuseType(r) ==
    /\ dreq[r].pc = "checked"
    /\ Ends(r)
    /\ UNCHANGED <<document, disk, signature, doclock, unknown>>

\* Mutant: uploads of one history do not wait for each other.
Lockable_Always(key) == TRUE

Lockable(key) == doclock[key] = Absent

LockHistory(r) ==
    LET q == dreq[r] IN
    /\ q.pc = "checked"
    /\ Lockable(<<q.history, q.spelling>>)
    /\ doclock' = [doclock EXCEPT ![<<q.history, q.spelling>>] = r]
    /\ Onto(r, [q EXCEPT !.pc = "insert"])
    /\ UNCHANGED <<document, disk, signature, unknown>>

\* max(version)+1 over the rows of the supplier, however its id was spelled (::uuid); NULL
\* is the supplier of no row.
NextVersion(h) ==
    IF h \in Homeless THEN 1
    ELSE 1 + Max({0} \cup {document[d].version : d \in {x \in Uploads : document[x].history = h}})

InsertDocument(r) ==
    LET q == dreq[r] IN
    /\ q.pc = "insert"
    /\ Onto(r, [q EXCEPT !.pc = "commit", !.version = NextVersion(q.history)])
    /\ UNCHANGED <<document, disk, signature, doclock, unknown>>

Unlocked(r) == [key \in LockKeys |-> IF doclock[key] = r THEN Absent ELSE doclock[key]]

\* The row becomes visible; when the answer to the commit is lost, the handler takes it
\* for a failure and removes the file.
CommitDocument(r, answered) ==
    LET q == dreq[r] IN
    /\ q.pc = "commit"
    /\ document' = [document EXCEPT ![q.doc] = [history |-> q.history, spelling |-> q.spelling,
                                                version |-> q.version, status |-> "active"]]
    /\ disk' = IF answered THEN disk ELSE disk \ {q.doc}
    /\ unknown' = IF answered THEN unknown ELSE unknown \cup {q.doc}
    /\ doclock' = Unlocked(r)
    /\ Ends(r)
    /\ UNCHANGED signature

\* Mutant: every file of the history goes with the upload that failed.
Removed_History(r) ==
    disk \ ({dreq[r].doc} \cup {d \in Uploads : document[d].history = dreq[r].history})

\* The file of the upload that failed.
Removed(r) == disk \ {dreq[r].doc}

\* A statement fails: the transaction is rolled back and the file removed.
UploadFails(r) ==
    /\ dreq[r].pc \in {"checked", "insert", "commit"}
    /\ disk' = Removed(r)
    /\ doclock' = Unlocked(r)
    /\ Ends(r)
    /\ UNCHANGED <<document, signature, unknown>>

\* The replica dies: the file stays.
UploadDies(r) ==
    /\ dreq[r].pc \in {"checked", "insert", "commit"}
    /\ doclock' = Unlocked(r)
    /\ Ends(r)
    /\ UNCHANGED <<document, disk, signature, unknown>>

-----------------------------------------------------------------------------
\* signDocument reads the checksum of a document that is live ...
SignRead(r, d) ==
    /\ dreq[r].pc = "idle"
    /\ DocumentLive(d)
    /\ Onto(r, [NoUpload EXCEPT !.pc = "sign", !.doc = d])
    /\ UNCHANGED <<document, disk, signature, doclock, unknown>>

\* ... and stores the signature, with the approval, in one transaction.
SignCommit(r, u, type) ==
    LET q == dreq[r] IN
    /\ q.pc = "sign"
    /\ signature' = signature \cup {<<q.doc, u, type>>}
    /\ document' = IF type = "approval" THEN [document EXCEPT ![q.doc].status = "approved"] ELSE document
    /\ Ends(r)
    /\ UNCHANGED <<disk, doclock, unknown>>

SignFails(r) ==
    /\ dreq[r].pc = "sign"
    /\ Ends(r)
    /\ UNCHANGED <<document, disk, signature, doclock, unknown>>

DocumentsInit ==
    /\ document = [d \in Uploads |-> NoDocument]
    /\ disk = {}
    /\ signature = {}
    /\ doclock = [key \in LockKeys |-> Absent]
    /\ dreq = [r \in DocRequests |-> NoUpload]
    /\ unknown = {}

DocumentsStep(r) ==
    \/ \E d \in Uploads, h \in Histories, whole \in BOOLEAN :
           \E spelling \in Spelled(h) : WriteFile(r, d, h, spelling, whole)
    \/ RefuseType(r) \/ LockHistory(r) \/ InsertDocument(r)
    \/ \E answered \in BOOLEAN : CommitDocument(r, answered)
    \/ UploadFails(r) \/ UploadDies(r) \/ SignFails(r)
    \/ \E d \in Uploads : SignRead(r, d)
    \/ \E u \in Signers, type \in SignatureTypes : SignCommit(r, u, type)

DocumentsNext == \E r \in DocRequests : DocumentsStep(r)

DocumentsSpec == DocumentsInit /\ [][DocumentsNext]_docVars

-----------------------------------------------------------------------------
\* However many uploads of one document race, fail and die, its versions are 1, 2, 3 and so
\* on without a gap, and uploads that spell the id of the supplier alike never get the same
\* one (uploadDocument: "two concurrent uploads can evaluate against the same snapshot and
\* both claim").
VersionsInOrder ==
    \A h \in Histories \ Homeless :
        LET rows == {d \in Uploads : document[d].history = h}
            versions == {document[d].version : d \in rows}
        IN /\ versions = 1 .. Max({0} \cup versions)
           /\ \A d, e \in rows : d # e /\ document[d].version = document[e].version
                                => document[d].spelling # document[e].spelling

\* A document that is listed can be opened: its file is there, unless the answer to its
\* commit was lost (uploadDocument, serveDocument).
FilesThere == \A d \in Uploads : document[d].history # Absent => d \in disk \/ d \in unknown
=============================================================================
