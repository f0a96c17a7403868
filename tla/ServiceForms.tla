----------------------------- MODULE ServiceForms -----------------------------
(***************************************************************************)
(* The services of the catalog with their request forms, and the answers   *)
(* requests are submitted with (ServiceRequests has what happens to a      *)
(* request after that).                                                    *)
(*                                                                         *)
(* form-engine.ts says which forms are well made and which answers a form  *)
(* accepts.  A call reads the service with its form, then writes: answers  *)
(* are judged by the form that was read, a form's next version is the one  *)
(* that was read plus one, and a service is deleted if it had no requests  *)
(* when they were counted.                                                 *)
(*                                                                         *)
(* Abstractions: an answer is nothing, one value, or an array (an empty    *)
(* text, like an empty array, is an answer and counts as empty).  What     *)
(* the fields of a type other than the option types accept is a set of     *)
(* values.  Templates, which no call ever creates, are left out.           *)
(***************************************************************************)
EXTENDS Naturals, Sequences

CONSTANTS
  Services, NoService,   \* identities of services
  Submissions, NoSubmission,  \* identities of requests
  FormKeys, NoKey,       \* keys of fields; a field without visibleWhen
  AnswerValues,
  DraftForms,            \* forms administrators write: sequences of fields
  Replies,               \* answers people give
  FormCalls,             \* API requests in progress
  MaxFormVersion         \* bound: versions of a form

OptionTypes == {"SELECT", "MULTI_SELECT"}     \* RADIO is SELECT with another look
Operators   == {"EQ", "NEQ", "CONTAINS", "GTE", "LTE"}

\* accepts: the options, or the values the field's other limits let through;
\* options: whether the field defines a list of them.
Field == [key : FormKeys, type : OptionTypes \cup {"TEXT"}, options : BOOLEAN,
          accepts : SUBSET AnswerValues, required : BOOLEAN,
          rule : [key : FormKeys \cup {NoKey}, op : Operators, value : AnswerValues]]

Answer == [many : BOOLEAN, values : SUBSET AnswerValues]

Blank == [many |-> FALSE, values |-> {}]

ASSUME FormConstants ==
  /\ NoService \notin Services /\ NoSubmission \notin Submissions /\ NoKey \notin FormKeys
  /\ DraftForms \subseteq Seq(Field)
  /\ DraftForms # {}
  /\ Replies \subseteq [FormKeys -> Answer]
  /\ Replies # {}
  /\ MaxFormVersion \in Nat

VARIABLES
  catalog,       \* services with their forms
  submission,    \* requests
  formCall,      \* API requests in progress
  issued,        \* history: <<service, version, form>> that have been
  crossed,       \* history: services whose form two requests replaced at a time
  outrun         \* history: services deleted while a request was being submitted

formVars == <<catalog, submission, formCall, issued, crossed, outrun>>

Service == [state : {"NONE", "DRAFT", "PUBLISHED", "RETIRED"}, deleted : BOOLEAN,
            version : Nat, form : DraftForms]

Submission == [service : Services \cup {NoService}, version : Nat,
               answers : Replies \cup {[k \in FormKeys |-> Blank]}, edited : BOOLEAN]

FormCall == [op         : {"none", "replace", "delete", "submit", "answer"},
             pc         : {"idle", "checked", "read"},
             service    : Services \cup {NoService},
             seen       : Service,
             submission : Submissions \cup {NoSubmission}]

AnyForm == CHOOSE f \in DraftForms : TRUE

NoServiceYet == [state |-> "NONE", deleted |-> FALSE, version |-> 0, form |-> AnyForm]

NoAnswers == [k \in FormKeys |-> Blank]

NotSubmitted == [service |-> NoService, version |-> 0, answers |-> NoAnswers, edited |-> FALSE]

NoFormCall == [op |-> "none", pc |-> "idle", service |-> NoService, seen |-> NoServiceYet,
               submission |-> NoSubmission]

FormInit ==
  /\ catalog = [s \in Services |-> NoServiceYet]
  /\ submission = [r \in Submissions |-> NotSubmitted]
  /\ formCall = [c \in FormCalls |-> NoFormCall]
  /\ issued = {}
  /\ crossed = {}
  /\ outrun = {}

-----------------------------------------------------------------------------
(* form-engine.ts                                                          *)

FieldsOf(form) == {form[i] : i \in DOMAIN form}

KeysIn(form) == {f.key : f \in FieldsOf(form)}

\* validateFormSchema reports no error.
WellFormed(form) ==
  /\ form # <<>>
  /\ \A i, j \in DOMAIN form : form[i].key = form[j].key => i = j
  /\ \A f \in FieldsOf(form) :
       /\ f.type \in OptionTypes => f.options /\ f.accepts # {}
       /\ f.type \notin OptionTypes => ~f.options
       /\ f.rule.key # NoKey => /\ f.rule.key \in KeysIn(form) \ {f.key}
                                /\ f.rule.op \in {"EQ", "NEQ", "CONTAINS"}

\* evaluateVisibilityRule, for the operators a form can have: without an answer
\* no rule holds, and an array equals no value.
EvaluateVisibilityRule(rule, answers) ==
  LET actual == answers[rule.key]
      equal  == ~actual.many /\ actual.values = {rule.value} IN
  /\ actual # Blank
  /\ CASE rule.op = "EQ"       -> equal
       [] rule.op = "NEQ"      -> ~equal
       [] rule.op = "CONTAINS" -> rule.value \in actual.values
       [] OTHER                -> FALSE

IsFieldVisible(field, answers) ==
  field.rule.key = NoKey \/ EvaluateVisibilityRule(field.rule, answers)

\* validateFieldValue: an array with one option passes for the option itself.
ValidFieldValue(field, answer) ==
  CASE field.type = "SELECT"       -> \E v \in field.accepts : answer.values = {v}
    [] field.type = "MULTI_SELECT" -> answer.many /\ answer.values \subseteq field.accepts
    [] OTHER                       -> answer.values \subseteq field.accepts

\* validateAnswers: hidden fields are not looked at, whatever their answers.
ValidAnswers(form, answers) ==
  /\ \A k \in FormKeys : answers[k] # Blank => k \in KeysIn(form)
  /\ \A f \in FieldsOf(form) :
       IsFieldVisible(f, answers) =>
         IF answers[f.key].values = {} THEN ~f.required ELSE ValidFieldValue(f, answers[f.key])

\* sanitizeAnswers: what the form does not ask is dropped, so no answer is
\* refused for being unknown.
Sanitized(form, answers) ==
  [k \in FormKeys |-> IF k \in KeysIn(form) THEN answers[k] ELSE Blank]

-----------------------------------------------------------------------------
(* Services                                                                *)

FindService(s) == catalog[s].state # "NONE" /\ ~catalog[s].deleted      \* findById

StartsCall(c, call) == formCall[c].pc = "idle" /\ formCall' = [formCall EXCEPT ![c] = call]

InCall(c, op, pc) == formCall[c].op = op /\ formCall[c].pc = pc

EndsCall(c) == formCall' = [formCall EXCEPT ![c] = NoFormCall]

\* createService: the service and its form in one transaction.  (Slugs: the
\* look finds live services only, the unique index deleted ones too.)
CreateService(s, form) ==
  /\ catalog[s].state = "NONE"
  /\ WellFormed(form)
  /\ catalog' = [catalog EXCEPT ![s] = [state |-> "DRAFT", deleted |-> FALSE,
                                        version |-> 1, form |-> form]]
  /\ issued' = issued \cup {<<s, 1, form>>}
  /\ UNCHANGED <<submission, formCall, crossed, outrun>>

\* publishService: what is found in the one state goes to the other, by id.  A
\* service always has a form, and a retired one can be published again.
PublishService(s, state) ==
  /\ FindService(s)
  /\ state \in {"PUBLISHED", "RETIRED"} \ {catalog[s].state}
  /\ catalog' = [catalog EXCEPT ![s].state = state]
  /\ UNCHANGED <<submission, formCall, issued, crossed, outrun>>

\* replaceForm: the service is not retired and the form is well made ...
ReplaceCheck(c, s, form) ==
  /\ FindService(s)
  /\ catalog[s].state # "RETIRED"
  /\ WellFormed(form)
  /\ StartsCall(c, [NoFormCall EXCEPT !.op = "replace", !.pc = "checked", !.service = s,
                                      !.seen.form = form])
  /\ UNCHANGED <<catalog, submission, issued, crossed, outrun>>

\* ... its transaction reads the form there is, deleted service or not ...
ReplaceRead(c) ==
  LET s == formCall[c].service IN
  /\ InCall(c, "replace", "checked")
  /\ catalog[s].version < MaxFormVersion
  /\ formCall' = [formCall EXCEPT ![c].pc = "read", ![c].seen.version = catalog[s].version]
  /\ UNCHANGED <<catalog, submission, issued, crossed, outrun>>

\* Mutant: a new form keeps the version.
MutantReplaceWrite(c) ==
  LET q == formCall[c]
      s == q.service IN
  /\ InCall(c, "replace", "read")
  /\ catalog' = [catalog EXCEPT ![s].form = q.seen.form, ![s].version = q.seen.version]
  /\ issued' = issued \cup {<<s, q.seen.version, q.seen.form>>}
  /\ crossed' = IF catalog[s].version = q.seen.version THEN crossed ELSE crossed \cup {s}
  /\ EndsCall(c)
  /\ UNCHANGED <<submission, outrun>>

\* ... and writes the new one by id with the next version.
ReplaceWrite(c) ==
  LET q == formCall[c]
      s == q.service IN
  /\ InCall(c, "replace", "read")
  /\ catalog' = [catalog EXCEPT ![s].form = q.seen.form, ![s].version = q.seen.version + 1]
  /\ issued' = issued \cup {<<s, q.seen.version + 1, q.seen.form>>}
  /\ crossed' = IF catalog[s].version = q.seen.version THEN crossed ELSE crossed \cup {s}
  /\ EndsCall(c)
  /\ UNCHANGED <<submission, outrun>>

RequestsOf(s) == {r \in Submissions : submission[r].service = s}

\* deleteService: the service is there and has no request ...
DeleteCount(c, s) ==
  /\ FindService(s)
  /\ RequestsOf(s) = {}
  /\ StartsCall(c, [NoFormCall EXCEPT !.op = "delete", !.pc = "checked", !.service = s])
  /\ UNCHANGED <<catalog, submission, issued, crossed, outrun>>

\* ... it is deleted softly, if it still is there.  Submissions under way go on.
DeleteSoftly(c) ==
  LET s == formCall[c].service IN
  /\ InCall(c, "delete", "checked")
  /\ catalog' = IF FindService(s)
                THEN [catalog EXCEPT ![s].deleted = TRUE, ![s].state = "RETIRED"] ELSE catalog
  /\ EndsCall(c)
  /\ UNCHANGED <<submission, issued, crossed, outrun>>

-----------------------------------------------------------------------------
(* Requests                                                                *)

\* submit reads a published service; the answers are judged by its form.
SubmitAnswers(c, s) ==
  /\ FindService(s)
  /\ catalog[s].state = "PUBLISHED"
  /\ StartsCall(c, [NoFormCall EXCEPT !.op = "submit", !.pc = "read", !.service = s,
                                      !.seen = catalog[s]])
  /\ UNCHANGED <<catalog, submission, issued, crossed, outrun>>

\* The request is created with the answers and the version of the form read.
CreateSubmission(c, r, reply) ==
  LET q == formCall[c]
      answers == Sanitized(q.seen.form, reply) IN
  /\ InCall(c, "submit", "read")
  /\ submission[r] = NotSubmitted
  /\ ValidAnswers(q.seen.form, answers)
  /\ submission' = [submission EXCEPT ![r] = [service |-> q.service, version |-> q.seen.version,
                                              answers |-> answers, edited |-> FALSE]]
  /\ outrun' = IF \/ catalog[q.service].deleted
                  \/ \E d \in FormCalls : /\ InCall(d, "delete", "checked")
                                          /\ formCall[d].service = q.service
               THEN outrun \cup {q.service} ELSE outrun
  /\ EndsCall(c)
  /\ UNCHANGED <<catalog, issued, crossed>>

\* updateAnswers reads the service, which must not be deleted.
ReviseAnswers(c, r) ==
  /\ submission[r].service # NoService
  /\ FindService(submission[r].service)
  /\ StartsCall(c, [NoFormCall EXCEPT !.op = "answer", !.pc = "read", !.submission = r,
                                      !.seen = catalog[submission[r].service]])
  /\ UNCHANGED <<catalog, submission, issued, crossed, outrun>>

\* The new answers are judged by the form read; submittedFormVersion stays.
WriteAnswers(c, reply) ==
  LET q == formCall[c]
      answers == Sanitized(q.seen.form, reply) IN
  /\ InCall(c, "answer", "read")
  /\ ValidAnswers(q.seen.form, answers)
  /\ submission' = [submission EXCEPT ![q.submission].answers = answers,
                                      ![q.submission].edited = TRUE]
  /\ EndsCall(c)
  /\ UNCHANGED <<catalog, issued, crossed, outrun>>

\* The answers are refused.
RefuseAnswers(c) ==
  /\ formCall[c].op \in {"submit", "answer"}
  /\ EndsCall(c)
  /\ UNCHANGED <<catalog, submission, issued, crossed, outrun>>

-----------------------------------------------------------------------------
FormNext ==
  \/ \E s \in Services :
       \/ \E form \in DraftForms : CreateService(s, form)
       \/ \E state \in {"PUBLISHED", "RETIRED"} : PublishService(s, state)
  \/ \E c \in FormCalls :
       \/ \E s \in Services :
            \/ \E form \in DraftForms : ReplaceCheck(c, s, form)
            \/ DeleteCount(c, s)
            \/ SubmitAnswers(c, s)
       \/ ReplaceRead(c) \/ ReplaceWrite(c)
       \/ DeleteSoftly(c)
       \/ \E reply \in Replies :
            \/ \E r \in Submissions : CreateSubmission(c, r, reply)
            \/ WriteAnswers(c, reply)
       \/ \E r \in Submissions : ReviseAnswers(c, r)
       \/ RefuseAnswers(c)

FormSpec == FormInit /\ [][FormNext]_formVars

FormTypeOK ==
  /\ catalog \in [Services -> Service]
  /\ \A r \in Submissions :
       /\ submission[r].service \in Services \cup {NoService}
       /\ submission[r].version \in Nat
       /\ submission[r].answers \in [FormKeys -> Answer]
  /\ formCall \in [FormCalls -> FormCall]
  /\ issued \subseteq Services \X Nat \X DraftForms
  /\ crossed \subseteq Services
  /\ outrun \subseteq Services

-----------------------------------------------------------------------------
\* Every form of the catalog can be answered, however its rules refer to each
\* other: what validateFormSchema lets through is not a dead end (a field whose
\* own limits contradict each other, which it does not look at, aside).
FormsAreAnswerable ==
  \A s \in Services :
    LET form == catalog[s].form IN
    /\ FindService(s)
    /\ \A f \in FieldsOf(form) : f.accepts # {}
    => \E answers \in [FormKeys -> Answer] : ValidAnswers(form, answers)

\* A version of a form is one form, unless two requests replaced it at a time.
VersionTellsForm ==
  \A x, y \in issued : x[1] = y[1] /\ x[2] = y[2] /\ x[1] \notin crossed => x[3] = y[3]

\* The answers of a request are valid in the form of the version it records; once
\* they have been edited, in that of some later version, which no row records.
AnswersFitForm ==
  \A r \in Submissions :
    LET q == submission[r] IN
    q.service # NoService =>
      \E x \in issued :
        /\ x[1] = q.service
        /\ IF q.edited THEN x[2] >= q.version \/ q.service \in crossed ELSE x[2] = q.version
        /\ ValidAnswers(x[3], q.answers)

\* "Cannot delete a service with submitted requests", unless the request was
\* being submitted while the service was being deleted.
RequestsKeepServices ==
  \A s \in Services : RequestsOf(s) # {} /\ catalog[s].deleted => s \in outrun

\* Forms and what was answered (CatalogServicesService, CatalogRequestsService).
FormsSound ==
  FormsAreAnswerable /\ VersionTellsForm /\ AnswersFitForm /\ RequestsKeepServices
=============================================================================
