--------------------------- MODULE PersonnelRecords ---------------------------
(***************************************************************************)
(* The name of a person comes from four sides: the imports of the master     *)
(* data of HR, the reconciliation of fields that a source system owns, the   *)
(* changes people ask for, and the reviews of these.  The import also sets   *)
(* where people belong, and gives those without an appointment one.          *)
(*                                                                          *)
(* The name stands for the two fields that are kept with the person too.     *)
(***************************************************************************)
EXTENDS EmploymentRecords

CONSTANTS
  Name,
  Wish,       \* the changes people ask for: a person and a name
  Row,        \* the batches of master data: people with a unit, a name and employment
  Source,     \* source systems
  Owner,      \* those whose ownership profile claims the name
  Delivery,   \* what sources deliver: source, record, person, revision, expected, value
  Before,     \* what may have been delivered before: sets of deliveries
  Change,     \* requests for a change
  FirstHome,  \* the units of the people there are at first
  FirstName,  \* their names
  Importing   \* the lock of imports

\* validateHrImportRows: nobody is in a batch twice.
Valid(rows) ==
  \A q, r \in rows : /\ q.person \in Person /\ q.unit \in Unit /\ q.name \in Name
                     /\ q.start \in 0 .. Never /\ q.end \in 0 .. Never
                     /\ q.person = r.person => q = r
ASSUME RowsAreValid == \A rows \in Row : Valid(rows)
ASSUME DeliveriesAreRevisions ==
  \A d \in Delivery :
    /\ d.source \in Source /\ d.person \in Person /\ d.value \in Name
    /\ d.revision \in Nat \ {0} /\ d.expected \in Nat
ASSUME BeforeAreDeliveries ==
  Before \subseteq SUBSET {d \in Delivery : d.source \in Owner}
ASSUME PeopleAreKnown ==
  /\ FirstHome \in [Person -> Unit \cup {None}] /\ FirstName \in [Person -> Name \cup {None}]
  /\ \A w \in Wish : w.person \in Person /\ w.value \in Name
ASSUME SourcesAreNoKeys ==
  /\ Source \cap (Person \cup Period \cup {Population, Importing}) = {}
  /\ Importing \notin Person \cup Period \cup {Population}

VARIABLES
  home,      \* persons.organizationUnitId, or None where there is no person
  name,      \* persons.firstName and lastName
  field,     \* the personnel_field of the name
  change,    \* the profile_change_requests
  outbox,    \* the status of the personnel_change_outbox of each request
  external   \* external_hr_records: the delivery each record of a source is at

personnel == <<home, name, field, change, outbox, external>>

-----------------------------------------------------------------------------
NoField == [value |-> None, revision |-> 0, owner |-> None]
NoChange == [status |-> "NONE", person |-> None, value |-> None, expected |-> 0,
             owner |-> None]
Pending == {"PENDING_APPROVAL", "PENDING_SYNC"}
ReviewOutcome == {"PENDING_SYNC", "APPLIED", "REJECTED", "CONFLICT"}

People == {x \in Person : home[x] # None}
PendingOf(x) == {c \in Change : change[c].person = x /\ change[c].status \in Pending}

\* The field of a person takes a value; an owner is set only when it is created.
Sets(f, v, owner) ==
  [value |-> v, revision |-> f.revision + 1,
   owner |-> IF f.revision = 0 THEN owner ELSE f.owner]

PersonnelTypeOK ==
  /\ home \in [Person -> Unit \cup {None}]
  /\ name \in [Person -> Name \cup {None}]
  /\ field \in [Person -> [value : Name \cup {None}, revision : 0 .. MaxWrites + 1,
                           owner : Source \cup {None}]]
  /\ change \in [Change -> [status : Pending \cup ReviewOutcome \cup {"NONE"},
                            person : Person \cup {None}, value : Name \cup {None},
                            expected : 0 .. MaxWrites + 1, owner : Source \cup {None}]]
  /\ outbox \in [Change -> {"NONE", "PENDING_SYNC", "APPLIED", "CONFLICT"}]
  /\ external \subseteq Delivery

PersonnelInit ==
  /\ home = FirstHome
  /\ external \in Before
  /\ field = [x \in Person |->
       IF \E d \in external : d.person = x
       THEN LET d == CHOOSE d \in external : d.person = x IN
            [value |-> d.value, revision |-> 1, owner |-> d.source]
       ELSE NoField]
  /\ name = [x \in Person |-> IF field[x].revision > 0 THEN field[x].value ELSE FirstName[x]]
  /\ change = [c \in Change |-> NoChange]
  /\ outbox = [c \in Change |-> "NONE"]

-----------------------------------------------------------------------------
(* Changes people ask for.                                                  *)

\* Somebody sees their field and asks for a change of it.
AskChange(s, x, v) ==
  /\ tx[s].op = "NONE" /\ x \in People /\ written < MaxWrites
  /\ Enters(s, "ASK", [person |-> x, value |-> v, expected |-> field[x].revision], {})
  /\ UNCHANGED personnel

CheckChange(s) ==
  LET x == tx[s].job.person IN
  /\ tx[s].op = "ASK" /\ field[x].revision = tx[s].job.expected /\ PendingOf(x) = {}
  /\ Enters(s, "ASK_CHECKED", tx[s].job, {x})
  /\ UNCHANGED personnel

WriteChange(s) ==
  LET job == tx[s].job IN
  /\ tx[s].op = "ASK_CHECKED" /\ Commits(s)
  /\ \E c \in Change :
       /\ change[c].status = "NONE"
       /\ change' = [change EXCEPT ![c] =
            [status |-> "PENDING_APPROVAL", person |-> job.person, value |-> job.value,
             expected |-> job.expected, owner |-> field[job.person].owner]]
  /\ UNCHANGED <<records, home, name, field, outbox, external>>

\* profileReviewStatus
ReviewStatus(decision, c) ==
  LET f == field[change[c].person] IN
  CASE decision = "REJECT" -> "REJECTED"
    [] decision = "APPROVE" /\ (f.revision # change[c].expected \/ f.owner # change[c].owner) ->
         "CONFLICT"
    [] OTHER -> IF change[c].owner = None THEN "APPLIED" ELSE "PENDING_SYNC"

\* Mutant: the person is not locked.
CheckReview_Unfenced(s, c, decision) ==
  /\ tx[s].op = "NONE" /\ change[c].status = "PENDING_APPROVAL"
  /\ Enters(s, "REVIEW", [change |-> c, status |-> ReviewStatus(decision, c)],
            {})
  /\ UNCHANGED personnel

CheckReview(s, c, decision) ==
  /\ tx[s].op = "NONE" /\ change[c].status = "PENDING_APPROVAL"
  /\ Enters(s, "REVIEW", [change |-> c, status |-> ReviewStatus(decision, c)],
            {change[c].person})
  /\ UNCHANGED personnel

WriteReview(s) ==
  LET c == tx[s].job.change
      status == tx[s].job.status
      x == change[c].person IN
  /\ tx[s].op = "REVIEW" /\ Commits(s)
  /\ change' = [change EXCEPT ![c].status = status]
  /\ field' = IF status = "APPLIED"
              THEN [field EXCEPT ![x] = Sets(field[x], change[c].value, None)] ELSE field
  /\ name' = IF status = "APPLIED" THEN [name EXCEPT ![x] = change[c].value] ELSE name
  /\ outbox' = IF status = "PENDING_SYNC" THEN [outbox EXCEPT ![c] = "PENDING_SYNC"] ELSE outbox
  /\ UNCHANGED <<records, home, external>>

-----------------------------------------------------------------------------
(* Reconciliation with source systems.  Deliveries are lost, repeated and    *)
(* overtake each other.                                                     *)

RecordOf(d) == {e \in external : e.source = d.source /\ e.record = d.record}
Binding(d) == {e \in external : e.source = d.source /\ e.person = d.person}
Revision(d) == IF RecordOf(d) = {} THEN 0 ELSE (CHOOSE e \in RecordOf(d) : TRUE).revision

\* Mutant: the profile of the source decides alone.
Owns_ByProfile(src, x) == src \in Owner

\* sourceOwnsField
Owns(src, x) == src \in Owner /\ (field[x].revision = 0 \/ field[x].owner = src)

\* A delivery of the revision the record has is answered without a change.
CheckDelivery(s, d) ==
  /\ tx[s].op = "NONE" /\ d.person \in People
  /\ RecordOf(d) = Binding(d) /\ Revision(d) # d.revision /\ Revision(d) = d.expected
  /\ Enters(s, "RECONCILE", d, {d.source, d.person})
  /\ UNCHANGED personnel

\* A field the source does not own is left alone; the revision moves on.
WriteDelivery(s) ==
  LET d == tx[s].job
      x == d.person
      owns == Owns(d.source, x)
      synced == {c \in PendingOf(x) : change[c].status = "PENDING_SYNC"
                                        /\ change[c].owner = d.source}
      Settled(c) == IF change[c].value = d.value THEN "APPLIED" ELSE "CONFLICT" IN
  /\ tx[s].op = "RECONCILE" /\ Commits(s)
  /\ external' = (external \ RecordOf(d)) \cup {d}
  /\ field' = IF owns THEN [field EXCEPT ![x] = Sets(field[x], d.value, d.source)] ELSE field
  /\ name' = IF owns THEN [name EXCEPT ![x] = d.value] ELSE name
  /\ change' = [c \in Change |-> IF owns /\ c \in synced
                                 THEN [change[c] EXCEPT !.status = Settled(c)] ELSE change[c]]
  /\ outbox' = [c \in Change |-> IF owns /\ c \in synced THEN Settled(c) ELSE outbox[c]]
  /\ UNCHANGED <<records, home>>

-----------------------------------------------------------------------------
(* The import of master data.                                               *)

Appointed(x) == \E t \in terms : t.person = x

\* Everybody of the batch without an appointment gets one, unless a locked period
\* would count them; a current term of a legacy appointment must say what the row
\* says.  Which term is the current one, the clock decides.
NewPeople(rows) == {r \in rows : ~ Appointed(r.person)}
WouldCount(r) == {p \in Period : Scope[p] \in {r.unit, Everyone} /\ Employs(r, p)}
LegacyTerm(a, r) == [appointment |-> a, person |-> r.person, start |-> r.start, end |-> r.end,
                     unit |-> r.unit, from |-> 0, to |-> Never, legacy |-> TRUE]
Agrees(r) ==
  {t \in terms : t.person = r.person /\ t.legacy} # {} =>
    \E t \in terms : t.person = r.person /\ t.legacy /\ t.unit = r.unit

\* Mutant: closing is not fenced.
CheckImport_Unfenced(s, rows) ==
  /\ tx[s].op = "NONE"
  /\ \A r \in NewPeople(rows) : WouldCount(r) \cap locked = {}
  /\ \A r \in rows : Agrees(r)
  /\ Enters(s, "IMPORT", rows,
            {Importing} \cup {r.person : r \in {q \in rows : q.person \in People}})
  /\ UNCHANGED personnel

CheckImport(s, rows) ==
  /\ tx[s].op = "NONE"
  /\ \A r \in NewPeople(rows) : WouldCount(r) \cap locked = {}
  /\ \A r \in rows : Agrees(r)
  /\ Enters(s, "IMPORT", rows,
            {Importing, Population} \cup {r.person : r \in {q \in rows : q.person \in People}})
  /\ UNCHANGED personnel

\* The name of somebody with a field is the field's.
WriteImport(s) ==
  LET rows == tx[s].job
      RowOf(x) == {r \in rows : r.person = x} IN
  /\ tx[s].op = "IMPORT" /\ Commits(s)
  /\ home' = [x \in Person |-> IF RowOf(x) = {} THEN home[x]
                               ELSE (CHOOSE r \in RowOf(x) : TRUE).unit]
  /\ name' = [x \in Person |-> IF RowOf(x) = {} \/ field[x].revision > 0 THEN name[x]
                               ELSE (CHOOSE r \in RowOf(x) : TRUE).name]
  /\ \E f \in [NewPeople(rows) -> Appointment] :
       /\ \A q, r \in NewPeople(rows) : TermsOf(f[r]) = {} /\ (q # r => f[q] # f[r])
       /\ terms' = terms \cup {LegacyTerm(f[r], r) : r \in NewPeople(rows)}
  /\ UNCHANGED <<booking, approved, locked, field, change, outbox, external>>
=============================================================================
