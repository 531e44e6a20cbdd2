------------------------------ MODULE Academics ------------------------------
(***************************************************************************)
(* AcademicsService: the academic years, terms and classes of a school,    *)
(* its guardians, its students and their enrolments.                       *)
(*                                                                         *)
(* An operation writes in one transaction, and what it checks before that  *)
(* (that a class, term, year or student exists, who is primary guardian)   *)
(* nothing in the API takes back, so each is one step.  A refused request  *)
(* changes nothing and is no step.  A class is named by its name, a term   *)
(* by its year and name, a student by the admission number.  Names,        *)
(* e-mails and relationships are left out.                                 *)
(***************************************************************************)
EXTENDS FiniteSets

CONSTANTS
    YearName, TermName, ClassName,
    Admission,
    Guardian, Phone,
    Registration,       \* bodies of POST /students
    Change,             \* bodies of PATCH /students/:studentId, with None for what is left out
    Placement,          \* bodies of POST /enrolments
    Seed,               \* what prisma/seed.ts has put there: a year, a term, classes
    None

StudentStatus == {"ACTIVE", "INACTIVE", "GRADUATED", "TRANSFERRED"}
TermId == YearName \X TermName
Pupil == [status : StudentStatus, guardian : Guardian]
CreateGuardianDto == [id : Guardian, phone : Phone]
CreateClassDto == [name : ClassName]
SaveStudentDto ==
    [admission : Admission, status : StudentStatus, phone : Phone, term : TermId, class : ClassName]
UpdateStudentDto ==
    [admission : Admission, status : StudentStatus \cup {None}, phone : Phone \cup {None},
     term : TermId \cup {None}, class : ClassName \cup {None}]
CreateEnrolmentDto == [admission : Admission, term : TermId, class : ClassName]

ASSUME SeedAssumption ==
    /\ Seed \in [term : TermId, classes : SUBSET ClassName]
    /\ Registration \subseteq SaveStudentDto
    /\ Change \subseteq UpdateStudentDto
    /\ Placement \subseteq CreateEnrolmentDto

VARIABLES
    year,           \* names of the academic years
    term,           \* terms, each of a year
    class,          \* names of the classes
    guardian,       \* Guardian -> phone, or None while not inserted
    student,        \* Admission -> status and primary guardian, or None
    enrolment       \* Admission -> TermId -> class, or None

academics == <<year, term, class, guardian, student, enrolment>>

AcademicsTypeOK ==
    /\ year \subseteq YearName
    /\ term \subseteq year \X TermName
    /\ class \subseteq ClassName
    /\ guardian \in [Guardian -> Phone \cup {None}]
    /\ student \in [Admission -> Pupil \cup {None}]
    /\ enrolment \in [Admission -> [TermId -> class \cup {None}]]

AcademicsInit ==
    /\ year = {Seed.term[1]}
    /\ term = {Seed.term}
    /\ class = Seed.classes
    /\ guardian = [g \in Guardian |-> None]
    /\ student = [a \in Admission |-> None]
    /\ enrolment = [a \in Admission |-> [t \in TermId |-> None]]

Admitted == {a \in Admission : student[a] # None}
Reached(phone) == {g \in Guardian : guardian[g] = phone}
Enrol(a, t, c) == enrolment' = [enrolment EXCEPT ![a][t] = c]

CreateAcademicYear(y) ==
    /\ y \notin year
    /\ year' = year \cup {y}
    /\ UNCHANGED <<term, class, guardian, student, enrolment>>

CreateTerm(t) ==
    /\ t[1] \in year /\ t \notin term
    /\ term' = term \cup {t}
    /\ UNCHANGED <<year, class, guardian, student, enrolment>>

CreateClass(dto) ==
    /\ dto.name \notin class
    /\ class' = class \cup {dto.name}
    /\ UNCHANGED <<year, term, guardian, student, enrolment>>

CreateGuardian(dto) ==
    /\ guardian[dto.id] = None /\ Reached(dto.phone) = {}
    /\ guardian' = [guardian EXCEPT ![dto.id] = dto.phone]
    /\ UNCHANGED <<year, term, class, student, enrolment>>

(* The guardian is found by phone or inserted with it, with the student,   *)
(* the link and the enrolment in one transaction.  An admission number     *)
(* that is taken rolls it back.                                            *)
CreateStudent(dto, g) ==
    /\ dto.class \in class /\ dto.term \in term
    /\ student[dto.admission] = None
    /\ Reached(dto.phone) \subseteq {g}
    /\ guardian[g] \in {None, dto.phone}
    /\ guardian' = [guardian EXCEPT ![g] = dto.phone]
    /\ student' = [student EXCEPT ![dto.admission] = [status |-> dto.status, guardian |-> g]]
    /\ Enrol(dto.admission, dto.term, dto.class)
    /\ UNCHANGED <<year, term, class>>

(* Any part may be left out.  A phone that another guardian has fails the  *)
(* whole request.                                                          *)
UpdateStudent(dto) ==
    LET a == dto.admission
        g == student[a].guardian
    IN  /\ a \in Admitted
        /\ student' = IF dto.status = None THEN student
                      ELSE [student EXCEPT ![a].status = dto.status]
        /\ \/ dto.phone = None /\ UNCHANGED guardian
           \/ /\ dto.phone # None /\ Reached(dto.phone) \subseteq {g}
              /\ guardian' = [guardian EXCEPT ![g] = dto.phone]
        /\ \/ dto.term = None /\ dto.class = None /\ UNCHANGED enrolment
           \/ dto.term \in term /\ dto.class \in class /\ Enrol(a, dto.term, dto.class)
        /\ UNCHANGED <<year, term, class>>

CreateEnrolment(dto) ==
    /\ dto.class \in class /\ dto.term \in term /\ dto.admission \in Admitted
    /\ Enrol(dto.admission, dto.term, dto.class)
    /\ UNCHANGED <<year, term, class, guardian, student>>

AcademicsNext ==
    \/ \E y \in YearName : CreateAcademicYear(y)
    \/ \E t \in TermId : CreateTerm(t)
    \/ \E dto \in CreateClassDto : CreateClass(dto)
    \/ \E dto \in CreateGuardianDto : CreateGuardian(dto)
    \/ \E dto \in Registration, g \in Guardian : CreateStudent(dto, g)
    \/ \E dto \in Change : UpdateStudent(dto)
    \/ \E dto \in Placement : CreateEnrolment(dto)
=============================================================================
