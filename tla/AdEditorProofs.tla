--------------------------- MODULE AdEditorProofs ---------------------------
(***************************************************************************)
(* Theorems about AdEditor, for any keys, ads, edits and failures.         *)
(***************************************************************************)
EXTENDS AdEditor, FiniteSetTheorems, TLAPS

LEMMA Constants ==
  /\ Legacy \subseteq Keys /\ Stored \subseteq Keys /\ None \notin Ads /\ None # Old
  /\ None \notin Object /\ None \notin Answers /\ None \notin Request
  /\ MaxImages \in Nat /\ MaxEdits \in Nat /\ MaxFailures \in Nat
BY AdEditorAssumption

(* The images of a page are counted. *)
LEMMA Counted ==
  ASSUME NEW S \in SUBSET Keys
  PROVE  Cardinality(S) \in Nat /\ free(S) \in 0 .. MaxImages
<1>1. IsFiniteSet(S)
  BY AdEditorAssumption, FS_Subset
<1>2. Cardinality(S) \in Nat
  BY <1>1, FS_CardinalityType
<1> QED BY <1>2, Constants DEF free

-----------------------------------------------------------------------------
(* Requests.                                                               *)

\* A request in flight with what the page had when it left.
Sent(cmd, images, m, p, f, t) ==
  [req |-> [cmd |-> cmd, images |-> images, marks |-> m, post |-> p, field |-> f, text |-> t],
   answer |-> None]

LEMMA SentIs ==
  ASSUME NEW cmd \in Commands, NEW S \in SUBSET Keys, NEW m \in SUBSET Keys, NEW p \in Ads \cup {None},
         NEW f \in Ads \cup {None}, NEW t \in Nat
  PROVE  LET s == Sent(cmd, S, m, p, f, t) IN
         /\ s \in Request /\ s # None /\ s.answer = None
         /\ s.req.images = S /\ s.req.marks = m /\ s.req.post = p /\ s.req.field = f
<1> DEFINE q == [cmd |-> cmd, images |-> S, marks |-> m, post |-> p, field |-> f, text |-> t]
<1>1. q \in Save /\ q.images = S /\ q.marks = m /\ q.post = p /\ q.field = f
  BY DEF Save
<1> HIDE DEF q
<1>2. [req |-> q, answer |-> None] \in Request
  BY <1>1 DEF Request
<1> QED BY <1>1, <1>2, Constants DEF Sent, q

LEMMA AutosaveIs == Autosave \in Commands
<1>1. Autosave \in [kind : {"auto", "save"}, key : {None}]
  BY DEF Autosave
<1> QED BY <1>1 DEF Commands, Plain

LEMMA SerialisedIs == \A cmd : Serialised(cmd) = Sent(cmd, strip, marks, post, field, text)
BY DEF Serialised, Sent

LEMMA RequestIs ==
  ASSUME NEW s \in Request
  PROVE  /\ s # None /\ s.req \in Save /\ s.answer \in Answers \cup {None}
         /\ \A a \in Answers : LET x == [s EXCEPT !.answer = a] IN
              x \in Request /\ x.req = s.req /\ x.answer = a /\ a # None
<1>1. s # None /\ \A a \in Answers : a # None
  BY Constants
<1> QED BY <1>1 DEF Request

(* A new request leaves with the page as it is after the step. *)
NewRequest == \E cmd \in Commands : saving' = Sent(cmd, strip', marks', post', field', text')

LEMMA NextSaveIs ==
  ASSUME toSave \in Commands \cup {None}, NextSave
  PROVE  (saving' = None \/ NewRequest) /\ toSave' = None
BY DEF NextSave, NewRequest, Sent

LEMMA TriggerIs ==
  ASSUME toSave \in Commands \cup {None}, NEW cmd \in Commands, Trigger(cmd), UNCHANGED <<strip, marks, post, field, text>>
  PROVE  (saving' = saving \/ NewRequest) /\ toSave' \in Commands \cup {None}
<1>1. Serialised(cmd) = Sent(cmd, strip', marks', post', field', text')
  BY SerialisedIs
<1> QED BY <1>1 DEF Trigger, NewRequest

-----------------------------------------------------------------------------
(* Saves.                                                                  *)

LEMMA SaveIs ==
  ASSUME NEW q \in Save
  PROVE  /\ q.images \in SUBSET Keys /\ q.marks \in SUBSET Keys /\ q.text \in Nat
         /\ q.post \in Ads \cup {None} /\ q.field \in Ads \cup {None}
         /\ image_list(q) \in SUBSET Keys /\ Removed(q) \in SUBSET Keys /\ Target(q) \in Ads \cup {None}
         /\ Removed(q) \subseteq image_list(q)
BY DEF Save, image_list, Removed, Target

LEMMA AnswerIs ==
  ASSUME NEW q \in Save, NEW ad \in Ads
  PROVE  LET r == Answer(q, ad) IN
         /\ r \in Answers
         /\ r.gone \subseteq q.marks \cup r.mark
         /\ r.leave => q.post # None
         /\ q.post = None /\ ~Inaccessible(q) => r.ad = IF own_image_keys(image_list(q)) THEN ad ELSE Target(q)
<1>0. /\ q.images \in SUBSET Keys /\ q.marks \in SUBSET Keys /\ Removed(q) \in SUBSET Keys
      /\ Target(q) \in Ads \cup {None}
  BY SaveIs
<1>1. CASE Inaccessible(q)
  <2>1. PICK b \in BOOLEAN : b = (q.post # None)
    OBVIOUS
  <2>2. Answer(q, ad) = [ok |-> FALSE, ad |-> None, gone |-> {}, mark |-> {}, leave |-> b]
    <3>1. Answer(q, ad) = [Refusal EXCEPT !.leave = b]
      BY <1>1, <2>1, Zenon DEF Answer
    <3> QED BY <3>1 DEF Refusal
  <2>3. b \in BOOLEAN /\ (b => q.post # None)
    BY <2>1, Zenon
  <2>4. Answer(q, ad) \in Answers /\ Answer(q, ad).gone = {} /\ Answer(q, ad).leave = b
    BY <2>2, <2>3 DEF Answers
  <2> QED BY <1>1, <2>3, <2>4, Zenon
<1>2. CASE ~Inaccessible(q) /\ ~own_image_keys(image_list(q))
  <2>1. Answer(q, ad) = [ok |-> FALSE, ad |-> Target(q), gone |-> {}, mark |-> {}, leave |-> FALSE]
    BY <1>2 DEF Answer, Refusal
  <2> QED BY <1>0, <1>2, <2>1 DEF Answers
<1>3. CASE ~Inaccessible(q) /\ own_image_keys(image_list(q))
  <2>1. Answer(q, ad) = [ok |-> TRUE, ad |-> ad, gone |-> (q.images \cap q.marks) \cup Removed(q),
                         mark |-> Removed(q), leave |-> FALSE]
    BY <1>3 DEF Answer, media_answer
  <2> QED BY <1>0, <1>3, <2>1 DEF Answers
<1> QED BY <1>1, <1>2, <1>3

(* What a save writes: images of its own, to its ad; a new ad only without a target. *)
LEMMA SaveWrites ==
  ASSUME row \in [Ads -> Row \cup {None}], created \in SUBSET Ads,
         NEW q \in Save, NEW ad \in Destination(q), _save_from_editor(q, ad)
  PROVE  /\ ad \in Ads /\ row' \in [Ads -> Row \cup {None}] /\ created' \in SUBSET Ads
         /\ \A a \in Ads : row'[a] = row[a] \/ (a = ad /\ row'[a] \in Row /\ row'[a].images \subseteq image_list(q))
         /\ \/ UNCHANGED dbVars /\ (Inaccessible(q) \/ ~own_image_keys(image_list(q)))
            \/ /\ ~Inaccessible(q) /\ own_image_keys(image_list(q))
               /\ \A a \in Ads \ {ad} : row'[a] = row[a]
               /\ Target(q) # None => ad = Target(q) /\ created' = created
               /\ Target(q) = None => ad \notin created /\ created' = created \cup {ad}
<1>0. /\ q.text \in Nat /\ image_list(q) \in SUBSET Keys /\ Removed(q) \in SUBSET Keys /\ Target(q) \in Ads \cup {None}
  BY SaveIs
<1>1. ad \in Ads /\ (Target(q) # None => ad = Target(q)) /\ (Target(q) = None => ad \notin created)
  BY <1>0 DEF Destination
<1>2. CASE Inaccessible(q) \/ ~own_image_keys(image_list(q))
  <2>1. UNCHANGED dbVars
    BY <1>2 DEF _save_from_editor
  <2> QED BY <1>1, <1>2, <2>1 DEF dbVars
<1>3. CASE ~Inaccessible(q) /\ own_image_keys(image_list(q))
  <2> DEFINE x == [images |-> image_list(q) \ Removed(q), text |-> q.text,
                   published |-> q.cmd.kind = "save" \/ (IF row[ad] = None THEN FALSE ELSE row[ad].published)]
  <2>1. row' = [row EXCEPT ![ad] = x] /\ created' = IF Target(q) = None THEN created \cup {ad} ELSE created
    BY <1>3 DEF _save_from_editor
  <2>2. x \in Row /\ x.images \subseteq image_list(q)
    BY <1>0, <1>1 DEF Row
  <2> HIDE DEF x
  <2>3. row' \in [Ads -> Row \cup {None}] /\ row'[ad] = x /\ \A a \in Ads \ {ad} : row'[a] = row[a]
    BY <1>1, <2>1, <2>2
  <2> QED BY <1>1, <1>3, <2>1, <2>2, <2>3
<1> QED BY <1>2, <1>3

-----------------------------------------------------------------------------
(* The page and its requests keep their shape.                             *)

\* The request in flight carries the address, the hidden field and the tombstones that
\* the page still has: nothing but its answer changes them.
FormInv ==
  saving # None => saving.req.post = post /\ saving.req.field = field /\ saving.req.marks = marks

Shape == TypeOK /\ FormInv

PageType ==
  /\ post \in Ads \cup {None, "closed"} /\ field \in Ads \cup {None}
  /\ strip \in SUBSET Keys /\ marks \in SUBSET Keys /\ text \in Nat /\ typing \in BOOLEAN

\* The steps that leave the address, the field, the tombstones and the request in
\* flight alone, but may send a request when none is.
Beside ==
  /\ UNCHANGED <<post, field, marks>>
  /\ saving' = saving \/ (saving = None /\ NewRequest /\ Open)
  /\ toSave' \in Commands \cup {None}

\* Steps that leave the page and its requests to save alone.
Elsewhere ==
  /\ UNCHANGED <<docVars, saving, toSave>>
  /\ \/ HandleLate \/ StartUpload \/ TooManyParts \/ FinishUpload \/ LoseUpload
     \/ \E k \in Keys : UploadFile(k) \/ _process_key(k)
     \/ \E files \in SUBSET Keys : ChooseFiles(files)
     \/ \E a \in Ads : ads_delete(a)
     \/ \E apply \in BOOLEAN : recompress_attachments(apply)

LEMMA Steps ==
  ASSUME Next
  PROVE  \/ HandleSave \/ SaveAnswered \/ LoseSave \/ DelayIsOver \/ UploadAnswered \/ Type
         \/ \E cmd \in Commands : Press(cmd)
         \/ Elsewhere
<1>1. CASE HandleLate \/ StartUpload \/ TooManyParts \/ FinishUpload \/ LoseUpload
  BY <1>1 DEF Elsewhere, HandleLate, StartUpload, TooManyParts, FinishUpload, LoseUpload, docVars, saveVars
<1>2. ASSUME NEW k \in Keys, UploadFile(k) \/ _process_key(k) PROVE Elsewhere
  BY <1>2 DEF Elsewhere, UploadFile, _process_key, docVars, saveVars
<1>3. ASSUME NEW files \in SUBSET Keys, ChooseFiles(files) PROVE Elsewhere
  BY <1>3 DEF Elsewhere, ChooseFiles, docVars, saveVars
<1>4. ASSUME NEW a \in Ads, ads_delete(a) PROVE Elsewhere
  BY <1>4 DEF Elsewhere, ads_delete, docVars, saveVars
<1>5. ASSUME NEW apply \in BOOLEAN, recompress_attachments(apply) PROVE Elsewhere
  BY <1>5 DEF Elsewhere, recompress_attachments, docVars, saveVars
<1> QED BY <1>1, <1>2, <1>3, <1>4, <1>5 DEF Next, Server, Browser, User, Script

LEMMA UploadSends ==
  ASSUME Shape, UploadAnswered
  PROVE  Beside
<1>1. UNCHANGED <<post, field, marks, text>> /\ Open
  BY DEF UploadAnswered
<1>2. toSave' \in Commands \cup {None}
  BY AutosaveIs DEF UploadAnswered, Shape, TypeOK
<1>3. CASE uploading.attached = {} \/ saving # None
  BY <1>1, <1>2, <1>3 DEF UploadAnswered, Beside
<1>4. CASE ~(uploading.attached = {} \/ saving # None)
  <2>1. saving = None /\ saving' = [Serialised(Autosave) EXCEPT !.req.images = strip']
    BY <1>4 DEF UploadAnswered
  <2>2. saving' = Sent(Autosave, strip', marks, post, field, text)
    BY <2>1, SerialisedIs DEF Sent
  <2> QED BY <1>1, <1>2, <2>1, <2>2, AutosaveIs DEF Beside, NewRequest
<1> QED BY <1>3, <1>4

LEMMA StepsBeside ==
  ASSUME Shape, Next
  PROVE  HandleSave \/ SaveAnswered \/ LoseSave \/ Beside
<1> USE DEF Shape, TypeOK
<1>1. CASE DelayIsOver
  <2>1. UNCHANGED <<post, field, strip, marks, text>> /\ Open /\ Trigger(Autosave)
    BY <1>1 DEF DelayIsOver
  <2>2. saving' = saving \/ (saving = None /\ NewRequest)
    BY <2>1, AutosaveIs, TriggerIs DEF Trigger
  <2> QED BY <2>1, <2>2, AutosaveIs, TriggerIs DEF Beside
<1>2. ASSUME NEW cmd \in Commands, Press(cmd) PROVE Beside
  <2>1. UNCHANGED <<post, field, strip, marks, text>> /\ Open /\ Trigger(cmd)
    BY <1>2 DEF Press, docVars
  <2>2. saving' = saving \/ (saving = None /\ NewRequest)
    BY <2>1, TriggerIs DEF Trigger
  <2> QED BY <2>1, <2>2, TriggerIs DEF Beside
<1>3. CASE UploadAnswered
  BY <1>3, UploadSends
<1>4. CASE Type
  BY <1>4 DEF Type, Beside, saveVars
<1>5. CASE Elsewhere
  BY <1>5 DEF Elsewhere, Beside, docVars
<1> QED BY <1>1, <1>2, <1>3, <1>4, <1>5, Steps

LEMMA SavingIs ==
  ASSUME Shape, saving # None
  PROVE  /\ saving \in Request /\ saving.req \in Save /\ Open /\ post \in Ads \cup {None}
         /\ saving.answer \in Answers \cup {None}
<1>1. saving \in Request
  BY DEF Shape, TypeOK
<1>2. saving.req \in Save /\ saving.answer \in Answers \cup {None}
  BY <1>1, RequestIs
<1>3. post \in Ads \cup {None}
  BY <1>2, SaveIs DEF Shape, FormInv
<1>4. post # "closed"
  BY <1>3, AdEditorAssumption
<1> QED BY <1>1, <1>2, <1>3, <1>4 DEF Open

LEMMA PageTyped ==
  ASSUME Shape, Next
  PROVE  PageType'
<1> USE DEF Shape, TypeOK, PageType
<1>1. CASE SaveAnswered
  <2>1. saving.answer \in Answers
    BY <1>1, SavingIs DEF SaveAnswered
  <2>2. saving.answer.ad \in Ads \cup {None} /\ saving.answer.mark \in SUBSET Keys
    BY <2>1 DEF Answers
  <2> QED BY <1>1, <2>2 DEF SaveAnswered
<1>2. CASE UploadAnswered
  <2>1. uploading # None => uploading.keys \in SUBSET Keys
    BY DEF Upload
  <2> QED BY <1>2, <2>1 DEF UploadAnswered
<1>3. CASE HandleSave \/ LoseSave
  BY <1>3 DEF HandleSave, LoseSave, docVars
<1>4. CASE DelayIsOver \/ Type
  <2>1. UNCHANGED <<post, field, strip, marks>> /\ text' \in {text, text + 1}
    BY <1>4 DEF DelayIsOver, Type
  <2>2. typing' \in BOOLEAN
    BY <1>4, Zenon DEF DelayIsOver, Type
  <2> QED BY <2>1, <2>2
<1>5. ASSUME NEW cmd \in Commands, Press(cmd) PROVE PageType'
  BY <1>5 DEF Press, docVars
<1>6. CASE Elsewhere
  BY <1>6 DEF Elsewhere, docVars
<1> QED BY <1>1, <1>2, <1>3, <1>4, <1>5, <1>6, Steps

LEMMA NewRequestIs ==
  ASSUME PageType', post' # "closed", NewRequest
  PROVE  /\ saving' \in Request /\ saving' # None /\ saving'.answer = None
         /\ saving'.req.images = strip' /\ saving'.req.marks = marks' /\ saving'.req.post = post'
         /\ saving'.req.field = field' /\ FormInv'
<1>1. PICK cmd \in Commands : saving' = Sent(cmd, strip', marks', post', field', text')
  BY DEF NewRequest
<1>2. post' \in Ads \cup {None} /\ field' \in Ads \cup {None} /\ strip' \in SUBSET Keys /\ marks' \in SUBSET Keys /\ text' \in Nat
  BY DEF PageType
<1> QED BY <1>1, <1>2, SentIs DEF FormInv

\* What a step does to the request in flight.
LEMMA HandleSaveIs ==
  ASSUME Shape, HandleSave
  PROVE  /\ saving # None /\ saving.answer = None /\ saving.req \in Save
         /\ saving' \in Request /\ saving' # None /\ saving'.req = saving.req
         /\ \E ad \in Destination(saving.req) :
              /\ ad \in Ads /\ _save_from_editor(saving.req, ad)
              /\ saving'.answer = Answer(saving.req, ad) /\ saving'.answer \in Answers /\ saving'.answer # None
<1>1. PICK ad \in Destination(saving.req) :
        _save_from_editor(saving.req, ad) /\ saving' = [saving EXCEPT !.answer = Answer(saving.req, ad)]
  BY DEF HandleSave
<1>2. saving # None /\ saving.answer = None
  BY DEF HandleSave
<1>3. saving \in Request /\ saving.req \in Save
  BY <1>2, SavingIs
<1>4. ad \in Ads
  BY <1>3, SaveIs DEF Destination
<1>5. Answer(saving.req, ad) \in Answers
  BY <1>3, <1>4, AnswerIs
<1>6. saving' \in Request /\ saving'.req = saving.req /\ saving'.answer = Answer(saving.req, ad) /\ saving'.answer # None
  BY <1>1, <1>3, <1>5, RequestIs
<1> QED BY <1>1, <1>2, <1>3, <1>4, <1>5, <1>6, Constants

LEMMA SaveAnsweredIs ==
  ASSUME Shape, SaveAnswered
  PROVE  /\ saving # None /\ saving.answer # None /\ Open
         /\ saving' = None \/ (NewRequest /\ post' # "closed")
         /\ toSave' = None
         /\ post' = post \/ (saving.answer.leave /\ post' = "closed")
<1>1. saving # None /\ saving.answer # None
  BY DEF SaveAnswered
<1>2. Open
  BY <1>1, SavingIs
<1>3. CASE saving.answer.leave
  BY <1>1, <1>2, <1>3 DEF SaveAnswered
<1>4. CASE ~saving.answer.leave
  <2>1. NextSave /\ post' = post
    BY <1>4 DEF SaveAnswered
  <2> QED BY <1>1, <1>2, <2>1, NextSaveIs DEF Open, Shape, TypeOK
<1> QED BY <1>3, <1>4

LEMMA SavingTyped ==
  ASSUME Shape, Next
  PROVE  saving' \in Request \cup {None} /\ toSave' \in Commands \cup {None} /\ FormInv'
<1>0. PageType'
  BY PageTyped
<1>1. CASE HandleSave
  <2>1. UNCHANGED <<post, field, marks, toSave>>
    BY <1>1 DEF HandleSave, docVars
  <2> QED BY <1>1, <2>1, HandleSaveIs DEF Shape, FormInv, TypeOK
<1>2. CASE SaveAnswered
  BY <1>0, <1>2, SaveAnsweredIs, NewRequestIs DEF FormInv
<1>3. CASE LoseSave
  <2>1. saving # None /\ NextSave /\ post' = post
    BY <1>3 DEF LoseSave, docVars
  <2>2. post' # "closed" /\ toSave \in Commands \cup {None}
    BY <2>1, SavingIs DEF Open, Shape, TypeOK
  <2> QED BY <1>0, <2>1, <2>2, NextSaveIs, NewRequestIs DEF FormInv
<1>4. CASE Beside
  <2>1. CASE saving' = saving
    BY <1>4, <2>1 DEF Beside, Shape, TypeOK, FormInv
  <2>2. CASE NewRequest /\ Open
    BY <1>0, <1>4, <2>2, NewRequestIs DEF Beside, Open
  <2> QED BY <1>4, <2>1, <2>2 DEF Beside
<1> QED BY <1>1, <1>2, <1>3, <1>4, StepsBeside

-----------------------------------------------------------------------------
(* The steps of the table, of an upload, of the store and of the script.   *)

LEMMA RowSteps ==
  ASSUME Next
  PROVE  \/ UNCHANGED dbVars \/ HandleSave \/ HandleLate \/ \E a \in Ads : ads_delete(a)
<1>1. CASE SaveAnswered \/ LoseSave \/ DelayIsOver \/ UploadAnswered \/ Type
  BY <1>1 DEF SaveAnswered, LoseSave, DelayIsOver, UploadAnswered, Type
<1>2. ASSUME NEW cmd \in Commands, Press(cmd) PROVE UNCHANGED dbVars
  BY <1>2 DEF Press
<1>3. CASE StartUpload \/ TooManyParts \/ FinishUpload \/ LoseUpload
  BY <1>3 DEF StartUpload, TooManyParts, FinishUpload, LoseUpload
<1>4. ASSUME NEW k \in Keys, UploadFile(k) \/ _process_key(k) PROVE UNCHANGED dbVars
  BY <1>4 DEF UploadFile, _process_key
<1>5. ASSUME NEW files, ChooseFiles(files) PROVE UNCHANGED dbVars
  BY <1>5 DEF ChooseFiles
<1>6. ASSUME NEW apply, recompress_attachments(apply) PROVE UNCHANGED dbVars
  BY <1>6 DEF recompress_attachments
<1> QED BY <1>1, <1>2, <1>3, <1>4, <1>5, <1>6, Steps DEF Elsewhere

LEMMA LateSteps ==
  ASSUME Next
  PROVE  \/ late' = late
         \/ (LoseSave /\ saving # None /\ late' = late \cup {saving.req})
         \/ (HandleLate /\ \E q \in late : late' = late \ {q})
<1>1. CASE HandleSave \/ SaveAnswered \/ DelayIsOver \/ UploadAnswered \/ Type
  BY <1>1 DEF HandleSave, SaveAnswered, DelayIsOver, UploadAnswered, Type, saveVars
<1>2. ASSUME NEW cmd \in Commands, Press(cmd) PROVE late' = late
  BY <1>2 DEF Press
<1>3. CASE StartUpload \/ TooManyParts \/ FinishUpload \/ LoseUpload
  BY <1>3 DEF StartUpload, TooManyParts, FinishUpload, LoseUpload, saveVars
<1>4. ASSUME NEW k \in Keys, UploadFile(k) \/ _process_key(k) PROVE late' = late
  BY <1>4 DEF UploadFile, _process_key, saveVars
<1>5. ASSUME NEW files, ChooseFiles(files) PROVE late' = late
  BY <1>5 DEF ChooseFiles, saveVars
<1>6. ASSUME NEW apply, recompress_attachments(apply) PROVE late' = late
  BY <1>6 DEF recompress_attachments, saveVars
<1>7. ASSUME NEW a \in Ads, ads_delete(a) PROVE late' = late
  BY <1>7 DEF ads_delete, saveVars
<1>8. CASE LoseSave
  BY <1>8 DEF LoseSave
<1>9. CASE HandleLate
  BY <1>9 DEF HandleLate
<1> QED BY <1>1, <1>2, <1>3, <1>4, <1>5, <1>6, <1>7, <1>8, <1>9, Steps DEF Elsewhere

LEMMA UploadSteps ==
  ASSUME Next
  PROVE  \/ UNCHANGED <<uploadVars, fresh>>
         \/ StartUpload \/ TooManyParts \/ FinishUpload \/ LoseUpload \/ UploadAnswered
         \/ (\E k \in Keys : UploadFile(k)) \/ \E files \in SUBSET Keys : ChooseFiles(files)
<1>1. CASE HandleSave \/ SaveAnswered \/ LoseSave \/ DelayIsOver \/ Type \/ HandleLate
  BY <1>1 DEF HandleSave, SaveAnswered, LoseSave, DelayIsOver, Type, HandleLate, storeVars
<1>2. ASSUME NEW cmd \in Commands, Press(cmd) PROVE UNCHANGED <<uploadVars, fresh>>
  BY <1>2 DEF Press, storeVars
<1>3. ASSUME NEW k \in Keys, _process_key(k) PROVE UNCHANGED <<uploadVars, fresh>>
  BY <1>3 DEF _process_key
<1>4. ASSUME NEW apply, recompress_attachments(apply) PROVE UNCHANGED <<uploadVars, fresh>>
  BY <1>4 DEF recompress_attachments, storeVars
<1>5. ASSUME NEW a \in Ads, ads_delete(a) PROVE UNCHANGED <<uploadVars, fresh>>
  BY <1>5 DEF ads_delete, storeVars
<1> QED BY <1>1, <1>2, <1>3, <1>4, <1>5, Steps DEF Elsewhere

LEMMA StoreSteps ==
  ASSUME Next
  PROVE  \/ UNCHANGED <<object, scan>>
         \/ \E k \in Keys : UploadFile(k) \/ _process_key(k)
         \/ \E apply \in BOOLEAN : recompress_attachments(apply)
<1>1. CASE HandleSave \/ SaveAnswered \/ LoseSave \/ DelayIsOver \/ Type \/ HandleLate \/ UploadAnswered
  BY <1>1 DEF HandleSave, SaveAnswered, LoseSave, DelayIsOver, Type, HandleLate, UploadAnswered, storeVars
<1>2. ASSUME NEW cmd \in Commands, Press(cmd) PROVE UNCHANGED <<object, scan>>
  BY <1>2 DEF Press, storeVars
<1>3. CASE StartUpload \/ TooManyParts \/ FinishUpload \/ LoseUpload
  BY <1>3 DEF StartUpload, TooManyParts, FinishUpload, LoseUpload, storeVars
<1>4. ASSUME NEW files, ChooseFiles(files) PROVE UNCHANGED <<object, scan>>
  BY <1>4 DEF ChooseFiles
<1>5. ASSUME NEW a \in Ads, ads_delete(a) PROVE UNCHANGED <<object, scan>>
  BY <1>5 DEF ads_delete, storeVars
<1> QED BY <1>1, <1>2, <1>3, <1>4, <1>5, Steps DEF Elsewhere

\* Lost requests and failures of the store are counted up to the bound.
LEMMA Counters ==
  ASSUME Shape, Next
  PROVE  edits' \in 0 .. MaxEdits /\ failures' \in 0 .. MaxFailures
         /\ (failures' = 0 => failures = 0 /\ ~LoseSave)
<1> USE Constants DEF Shape, TypeOK
<1>1. CASE HandleSave \/ SaveAnswered \/ DelayIsOver \/ UploadAnswered \/ Type \/ HandleLate
  BY <1>1 DEF HandleSave, SaveAnswered, DelayIsOver, UploadAnswered, Type, HandleLate, LoseSave
<1>2. ASSUME NEW cmd \in Commands, Press(cmd) PROVE edits' \in {edits, edits + 1} /\ edits' <= MaxEdits /\ failures' = failures
  BY <1>2 DEF Press
<1>3. CASE StartUpload \/ TooManyParts \/ FinishUpload
  BY <1>3 DEF StartUpload, TooManyParts, FinishUpload, LoseSave
<1>4. CASE LoseUpload \/ LoseSave
  BY <1>4 DEF LoseUpload, LoseSave
<1>5. ASSUME NEW k \in Keys, UploadFile(k) PROVE edits' = edits /\ failures' \in {failures, failures + 1} /\ failures' <= MaxFailures
  <2>1. edits' = edits
    BY <1>5 DEF UploadFile
  <2>2. failures' = failures \/ (failures < MaxFailures /\ failures' = failures + 1)
    BY <1>5, Zenon DEF UploadFile, store_upload
  <2> QED BY <2>1, <2>2
<1>6. ASSUME NEW k \in Keys, _process_key(k) PROVE edits' = edits /\ failures' \in {failures, failures + 1} /\ failures' <= MaxFailures
  BY <1>6 DEF _process_key
<1>7. ASSUME NEW files, ChooseFiles(files) PROVE UNCHANGED <<edits, failures>>
  BY <1>7 DEF ChooseFiles
<1>8. ASSUME NEW apply, recompress_attachments(apply) PROVE edits' = edits + 1 /\ edits < MaxEdits /\ failures' = failures
  BY <1>8 DEF recompress_attachments
<1>9. ASSUME NEW a \in Ads, ads_delete(a) PROVE edits' = edits + 1 /\ edits < MaxEdits /\ failures' = failures
  BY <1>9 DEF ads_delete
<1>10. LoseSave => failures' = failures + 1
  BY DEF LoseSave
<1> QED BY <1>1, <1>2, <1>3, <1>4, <1>5, <1>6, <1>7, <1>8, <1>9, <1>10, Steps DEF Elsewhere

\* A page of the store: an object once stored stays, and a step writes one key.
LEMMA UploadFileIs ==
  ASSUME Shape, NEW k \in Keys, UploadFile(k)
  PROVE  /\ uploading \in Upload /\ uploading # None /\ k \in uploading.files
         /\ uploading' \in Upload /\ uploading'.files = uploading.files \ {k}
         /\ UNCHANGED <<docVars, saveVars, toUpload, dbVars, fresh, scan>>
         /\ \/ uploading'.keys = uploading.keys /\ object' = object
            \/ uploading'.keys = uploading.keys \cup {k} /\ \E t \in BOOLEAN : object' = [object EXCEPT ![k] = Prepared(t)]
<1>1. uploading # None /\ uploading.step = "storing" /\ k \in uploading.files
      /\ UNCHANGED <<docVars, saveVars, toUpload, dbVars, fresh, scan>>
  BY DEF UploadFile
<1>2. uploading \in Upload
  BY <1>1 DEF Shape, TypeOK
<1>3. CASE Reject(k) /\ UNCHANGED object
  <2>1. uploading' = [uploading EXCEPT !.files = @ \ {k}]
    BY <1>3 DEF Reject
  <2>2. uploading' \in Upload /\ uploading'.files = uploading.files \ {k} /\ uploading'.keys = uploading.keys
    BY <1>2, <2>1 DEF Upload
  <2> QED BY <1>1, <1>2, <1>3, <2>2
<1>4. ASSUME ~(uploading.free <= 0), Attach(k), NEW t \in BOOLEAN, object' = [object EXCEPT ![k] = Prepared(t)]
      PROVE  /\ uploading' \in Upload /\ uploading'.files = uploading.files \ {k}
             /\ uploading'.keys = uploading.keys \cup {k}
  <2>1. uploading' = [uploading EXCEPT !.files = @ \ {k}, !.keys = @ \cup {k}, !.free = @ - 1,
                                       !.attached = @ \cup {k}]
    BY <1>4 DEF Attach
  <2>2. uploading.free \in 0 .. MaxImages
    BY <1>2 DEF Upload
  <2>3. uploading.free - 1 \in 0 .. MaxImages
    BY <1>4, <2>2, Constants
  <2>4. uploading.keys \cup {k} \in SUBSET Keys /\ uploading.attached \cup {k} \in SUBSET Keys
        /\ uploading.files \ {k} \in SUBSET Keys
    BY <1>2 DEF Upload
  <2> QED BY <1>2, <2>1, <2>3, <2>4 DEF Upload
<1>5. \/ Reject(k) /\ UNCHANGED object
      \/ ~(uploading.free <= 0) /\ Attach(k) /\ \E t \in BOOLEAN : object' = [object EXCEPT ![k] = Prepared(t)]
  BY DEF UploadFile, store_upload
<1> QED BY <1>1, <1>2, <1>3, <1>4, <1>5

LEMMA PreparedIs == \A t \in BOOLEAN : Prepared(t) \in Object /\ Prepared(t) # None /\ ~Prepared(t).big
<1> SUFFICES ASSUME NEW t \in BOOLEAN
             PROVE  Prepared(t) \in Object /\ Prepared(t) # None /\ ~Prepared(t).big
  OBVIOUS
<1>1. Prepared(t) = [big |-> FALSE, shrinks |-> FALSE, readable |-> TRUE, thumb |-> t]
  BY DEF Prepared
<1>2. Prepared(t) \in Object
  BY <1>1 DEF Object
<1>3. ~Prepared(t).big
  BY <1>1
<1> QED BY <1>2, <1>3, Constants

\* What the script leaves of a readable object: its thumbnail, and an edge that cannot
\* be made smaller.
Healed(o) == o.readable => o.thumb /\ (o.big => ~o.shrinks)

LEMMA RebuiltIs ==
  ASSUME NEW o \in Object
  PROVE  Rebuilt(o) \in Object /\ Rebuilt(o) # None /\ Healed(Rebuilt(o))
<1>1. CASE ~o.readable
  BY <1>1, Constants DEF Rebuilt, Healed
<1>2. CASE o.readable
  <2>1. PICK b \in BOOLEAN : b = (o.big /\ ~o.shrinks)
    OBVIOUS
  <2>2. Rebuilt(o) = [o EXCEPT !.big = b, !.thumb = TRUE]
    BY <1>2, <2>1, Zenon DEF Rebuilt
  <2>3. /\ Rebuilt(o) \in Object /\ Rebuilt(o).big = b /\ Rebuilt(o).thumb
        /\ Rebuilt(o).shrinks = o.shrinks
    BY <2>2 DEF Object
  <2>4. Rebuilt(o).big => ~Rebuilt(o).shrinks
    BY <2>1, <2>3, Zenon
  <2> QED BY <2>3, <2>4, Constants DEF Healed
<1> QED BY <1>1, <1>2

LEMMA ProcessKeyIs ==
  ASSUME Shape, NEW k \in Keys, _process_key(k)
  PROVE  /\ scan' \in Scan /\ scan'.keys = scan.keys /\ scan'.apply = scan.apply
         /\ scan'.todo \cup scan'.done \cup scan'.failed \subseteq scan.keys
         /\ UNCHANGED <<docVars, saveVars, uploadVars, dbVars, fresh>>
         /\ \/ object' = object /\ scan'.done = scan.done
            \/ object' = object /\ ~scan.apply /\ object[k] # None /\ scan'.done = scan.done \cup {k}
            \/ /\ scan.apply /\ object[k] # None /\ scan'.done = scan.done \cup {k}
               /\ \E o \in Object : object' = [object EXCEPT ![k] = Rebuilt(o)]
<1>1. scan \in Scan /\ scan.todo \cup scan.done \cup scan.failed \subseteq scan.keys /\ k \in scan.todo
  BY DEF Shape, TypeOK, _process_key
<1>2. \/ scan' = [scan EXCEPT !.todo = @ \ {k}, !.done = @ \cup {k}]
      \/ scan' = [scan EXCEPT !.todo = @ \ {k}, !.failed = @ \cup {k}]
  BY DEF _process_key
<1>3. /\ scan' \in Scan /\ scan'.keys = scan.keys /\ scan'.apply = scan.apply
      /\ scan'.todo \cup scan'.done \cup scan'.failed \subseteq scan.keys
  <2>1. scan.todo \in SUBSET Keys /\ scan.done \in SUBSET Keys /\ scan.failed \in SUBSET Keys
    BY <1>1 DEF Scan
  <2>2. CASE scan' = [scan EXCEPT !.todo = @ \ {k}, !.done = @ \cup {k}]
    BY <1>1, <2>1, <2>2 DEF Scan
  <2>3. CASE scan' = [scan EXCEPT !.todo = @ \ {k}, !.failed = @ \cup {k}]
    BY <1>1, <2>1, <2>3 DEF Scan
  <2> QED BY <1>2, <2>2, <2>3
<1>4. CASE scan' = [scan EXCEPT !.todo = @ \ {k}, !.failed = @ \cup {k}] /\ UNCHANGED object
  <2>1. scan'.done = scan.done
    BY <1>1, <1>4 DEF Scan
  <2> QED BY <1>3, <1>4, <2>1 DEF _process_key
<1>5. CASE object[k] # None /\ scan' = [scan EXCEPT !.todo = @ \ {k}, !.done = @ \cup {k}]
           /\ IF scan.apply
              THEN \E o \in Object : object[k] \in {Old, o} /\ object' = [object EXCEPT ![k] = Rebuilt(o)]
              ELSE UNCHANGED object
  <2>1. scan'.done = scan.done \cup {k}
    BY <1>1, <1>5 DEF Scan
  <2> QED BY <1>3, <1>5, <2>1 DEF _process_key
<1> QED BY <1>4, <1>5 DEF _process_key

LEMMA ScanStarts ==
  ASSUME Shape, NEW apply \in BOOLEAN, recompress_attachments(apply)
  PROVE  /\ scan' \in Scan /\ scan'.done = {} /\ object' = object
         /\ scan'.todo \cup scan'.done \cup scan'.failed \subseteq scan'.keys
<1>1. collect_attachment_keys \in SUBSET Keys
  BY DEF collect_attachment_keys, Shape, TypeOK, Row
<1> QED BY <1>1 DEF recompress_attachments, Scan, storeVars

\* A request of the upload form leaves with the tiles of the page and its files.
Leaves(files) ==
  /\ uploading' \in Upload
  /\ uploading'.keys = strip' /\ uploading'.files = files /\ uploading'.attached = {}

LEMMA LeavesIs ==
  ASSUME NEW files \in SUBSET Keys, NEW S \in SUBSET Keys,
         uploading' = [SerialisedUpload(files) EXCEPT !.keys = S], strip' = S
  PROVE  Leaves(files)
<1>1. uploading' = [keys |-> S, files |-> files, free |-> 0, attached |-> {}, step |-> "sent"]
  BY DEF SerialisedUpload
<1>2. 0 \in 0 .. MaxImages
  BY Constants
<1>3. [keys |-> S, files |-> files, free |-> 0, attached |-> {}, step |-> "sent"] \in Upload
  BY <1>2 DEF Upload
<1>4. uploading'.keys = S /\ uploading'.files = files /\ uploading'.attached = {}
  BY <1>1
<1> QED BY <1>1, <1>3, <1>4, Zenon DEF Leaves

\* The request of the upload form goes on: its tiles change by the ownership check only.
GoesOn ==
  /\ uploading # None /\ uploading' \in Upload
  /\ uploading'.keys \in {uploading.keys, Own(uploading.keys)} /\ uploading'.files \subseteq uploading.files
  /\ UNCHANGED <<toUpload, fresh, object, strip>>

\* What a step does to the upload form and to the keys that are not made yet.
UploadEffect ==
  \/ UNCHANGED <<uploadVars, fresh>>
  \/ uploading' = None /\ UNCHANGED <<fresh, object>> /\ toUpload' = {}
  \/ Leaves(toUpload) /\ UNCHANGED <<fresh, object>> /\ toUpload' = {}
  \/ \E files \in SUBSET fresh :
       /\ fresh' = fresh \ files /\ UNCHANGED <<object, strip>>
       /\ \/ uploading = None /\ Leaves(files) /\ UNCHANGED toUpload
          \/ uploading' = uploading /\ toUpload' = files
  \/ GoesOn
  \/ \E k \in Keys : UploadFile(k)

LEMMA UploadIs ==
  ASSUME Shape, Next
  PROVE  /\ uploading' \in Upload \cup {None} /\ toUpload' \in SUBSET Keys /\ fresh' \in SUBSET Keys
         /\ UploadEffect
<1>0. /\ strip \in SUBSET Keys /\ strip' \in SUBSET Keys /\ toUpload \in SUBSET Keys /\ fresh \in SUBSET Keys
      /\ uploading \in Upload \cup {None}
  BY PageTyped DEF PageType, Shape, TypeOK
<1>1. CASE UNCHANGED <<uploadVars, fresh>>
  BY <1>0, <1>1 DEF UploadEffect, uploadVars
<1>2. CASE StartUpload \/ TooManyParts \/ FinishUpload
  <2>1. uploading # None /\ uploading \in Upload /\ UNCHANGED <<toUpload, fresh, object, strip>>
    BY <1>0, <1>2 DEF StartUpload, TooManyParts, FinishUpload, storeVars, docVars
  <2>2. /\ uploading.keys \in SUBSET Keys /\ Own(uploading.keys) \in SUBSET Keys
        /\ free(uploading.keys) \in 0 .. MaxImages
    BY <2>1, Counted DEF Upload, Own
  <2>3. ASSUME uploading' = [uploading EXCEPT !.keys = Own(@), !.files = {}, !.step = "storing"]
        PROVE  GoesOn
    <3>1. /\ uploading' \in Upload /\ uploading'.keys = Own(uploading.keys) /\ uploading'.files = {}
      BY <2>1, <2>2, <2>3 DEF Upload
    <3> QED BY <2>1, <3>1 DEF GoesOn
  <2>4. ASSUME uploading' = [uploading EXCEPT !.free = free(uploading.keys), !.step = "storing"]
        PROVE  GoesOn
    <3>1. /\ uploading' \in Upload /\ uploading'.keys = uploading.keys
          /\ uploading'.files = uploading.files
      BY <2>1, <2>2, <2>4 DEF Upload
    <3> QED BY <2>1, <3>1 DEF GoesOn
  <2>5. ASSUME TooManyParts \/ FinishUpload
        PROVE  GoesOn
    <3>1. uploading' = [uploading EXCEPT !.step = "refused"] \/ uploading' = [uploading EXCEPT !.step = "answered"]
      BY <2>5 DEF TooManyParts, FinishUpload
    <3>2. /\ uploading' \in Upload /\ uploading'.keys = uploading.keys
          /\ uploading'.files = uploading.files
      BY <2>1, <3>1 DEF Upload
    <3> QED BY <2>1, <3>2 DEF GoesOn
  <2>6. GoesOn
    BY <1>2, <2>3, <2>4, <2>5 DEF StartUpload
  <2> QED BY <1>0, <2>1, <2>6 DEF UploadEffect, GoesOn
<1>3. CASE LoseUpload
  <2>1. UNCHANGED <<fresh, object, strip>> /\ toUpload' = {}
    BY <1>3 DEF LoseUpload, docVars, storeVars
  <2>2. CASE toUpload = {}
    BY <1>0, <1>3, <2>1, <2>2 DEF LoseUpload, UploadEffect
  <2>3. CASE toUpload # {}
    <3>1. uploading' = SerialisedUpload(toUpload)
      BY <1>3, <2>3 DEF LoseUpload
    <3>2. uploading' = [SerialisedUpload(toUpload) EXCEPT !.keys = strip]
      BY <3>1 DEF SerialisedUpload
    <3>3. Leaves(toUpload)
      BY <1>0, <2>1, <3>2, LeavesIs
    <3> QED BY <1>0, <2>1, <3>3 DEF UploadEffect, Leaves
  <2> QED BY <2>2, <2>3
<1>4. CASE UploadAnswered
  <2>1. UNCHANGED <<fresh, object>> /\ toUpload' = {}
    BY <1>4 DEF UploadAnswered, storeVars
  <2>2. CASE toUpload = {}
    BY <1>0, <1>4, <2>1, <2>2 DEF UploadAnswered, UploadEffect
  <2>3. CASE toUpload # {}
    <3>1. uploading' = [SerialisedUpload(toUpload) EXCEPT !.keys = strip']
      BY <1>4, <2>3 DEF UploadAnswered
    <3>2. Leaves(toUpload)
      BY <1>0, <3>1, LeavesIs
    <3> QED BY <1>0, <2>1, <3>2 DEF UploadEffect, Leaves
  <2> QED BY <2>2, <2>3
<1>5. ASSUME NEW files \in SUBSET Keys, ChooseFiles(files)
      PROVE  /\ uploading' \in Upload \cup {None} /\ toUpload' \in SUBSET Keys /\ fresh' \in SUBSET Keys
             /\ UploadEffect
  <2>1. files \in SUBSET fresh /\ fresh' = fresh \ files /\ UNCHANGED <<object, strip>>
    BY <1>5 DEF ChooseFiles, docVars
  <2>2. CASE uploading = None
    <3>1. uploading' = SerialisedUpload(files) /\ UNCHANGED toUpload
      BY <1>5, <2>2 DEF ChooseFiles
    <3>2. uploading' = [SerialisedUpload(files) EXCEPT !.keys = strip]
      BY <3>1 DEF SerialisedUpload
    <3>3. Leaves(files)
      BY <1>0, <2>1, <3>2, LeavesIs
    <3> QED BY <1>0, <2>1, <2>2, <3>1, <3>3 DEF UploadEffect, Leaves
  <2>3. CASE uploading # None
    BY <1>0, <1>5, <2>1, <2>3 DEF ChooseFiles, UploadEffect
  <2> QED BY <2>2, <2>3
<1>6. ASSUME NEW k \in Keys, UploadFile(k)
      PROVE  /\ uploading' \in Upload \cup {None} /\ toUpload' \in SUBSET Keys /\ fresh' \in SUBSET Keys
             /\ UploadEffect
  BY <1>0, <1>6, UploadFileIs DEF UploadEffect
<1> QED BY <1>1, <1>2, <1>3, <1>4, <1>5, <1>6, UploadSteps

LEMMA StoreIs ==
  ASSUME Shape, Next
  PROVE  /\ object' \in [Keys -> Object \cup {None, Old}]
         /\ \A k \in Keys : object[k] # None => object'[k] # None
         /\ scan' \in Scan /\ scan'.todo \cup scan'.done \cup scan'.failed \subseteq scan'.keys
<1>0. object \in [Keys -> Object \cup {None, Old}] /\ scan \in Scan
      /\ scan.todo \cup scan.done \cup scan.failed \subseteq scan.keys
  BY DEF Shape, TypeOK
<1>1. CASE UNCHANGED <<object, scan>>
  BY <1>0, <1>1
<1>2. ASSUME NEW k \in Keys, UploadFile(k)
      PROVE  /\ object' \in [Keys -> Object \cup {None, Old}]
             /\ \A j \in Keys : object[j] # None => object'[j] # None
             /\ scan' = scan
  <2>1. scan' = scan /\ (object' = object \/ \E t \in BOOLEAN : object' = [object EXCEPT ![k] = Prepared(t)])
    BY <1>2, UploadFileIs
  <2> QED BY <1>0, <2>1, PreparedIs
<1>3. ASSUME NEW k \in Keys, _process_key(k)
      PROVE  /\ object' \in [Keys -> Object \cup {None, Old}]
             /\ \A j \in Keys : object[j] # None => object'[j] # None
             /\ scan' \in Scan /\ scan'.todo \cup scan'.done \cup scan'.failed \subseteq scan'.keys
  <2>1. /\ object' = object \/ \E o \in Object : object' = [object EXCEPT ![k] = Rebuilt(o)]
        /\ scan' \in Scan /\ scan'.keys = scan.keys
        /\ scan'.todo \cup scan'.done \cup scan'.failed \subseteq scan.keys
    BY <1>3, ProcessKeyIs
  <2> QED BY <1>0, <2>1, RebuiltIs
<1>4. ASSUME NEW apply \in BOOLEAN, recompress_attachments(apply)
      PROVE  /\ scan' \in Scan /\ object' = object
             /\ scan'.todo \cup scan'.done \cup scan'.failed \subseteq scan'.keys
  BY <1>4, ScanStarts
<1> QED BY <1>0, <1>1, <1>2, <1>3, <1>4, StoreSteps

\* What a step writes into the table.
LEMMA RowsAre ==
  ASSUME Shape, Next
  PROVE  row' \in [Ads -> Row \cup {None}] /\ created' \in SUBSET Ads /\ late' \in SUBSET Save
<1>0. row \in [Ads -> Row \cup {None}] /\ created \in SUBSET Ads /\ late \in SUBSET Save
  BY DEF Shape, TypeOK
<1>1. late' \in SUBSET Save
  <2>1. LoseSave => saving.req \in Save
    BY SavingIs DEF LoseSave
  <2> QED BY <1>0, <2>1, LateSteps
<1>2. CASE UNCHANGED dbVars
  BY <1>0, <1>1, <1>2 DEF dbVars
<1>3. CASE HandleSave
  <2>1. PICK ad \in Destination(saving.req) : _save_from_editor(saving.req, ad)
    BY <1>3, HandleSaveIs
  <2>2. saving.req \in Save
    BY <1>3, HandleSaveIs
  <2> QED BY <1>0, <1>1, <2>1, <2>2, SaveWrites
<1>4. CASE HandleLate
  <2>1. PICK q \in late : \E ad \in Destination(q) : _save_from_editor(q, ad)
    BY <1>4 DEF HandleLate
  <2>2. PICK ad \in Destination(q) : _save_from_editor(q, ad)
    BY <2>1
  <2> QED BY <1>0, <1>1, <2>2, SaveWrites
<1>5. ASSUME NEW a \in Ads, ads_delete(a) PROVE row' \in [Ads -> Row \cup {None}] /\ created' \in SUBSET Ads
  BY <1>0, <1>5 DEF ads_delete
<1> QED BY <1>1, <1>2, <1>3, <1>4, <1>5, RowSteps

-----------------------------------------------------------------------------
(* The type invariant.                                                     *)

LEMMA InitIs ==
  ASSUME Init
  PROVE  Shape
<1> USE AdEditorAssumption
<1>1. object \in [Keys -> Object \cup {None, Old}] /\ fresh \in SUBSET Keys
  BY DEF Init
<1>2. post \in Ads \cup {None, "closed"} /\ strip \in SUBSET Keys /\ row \in [Ads -> Row \cup {None}]
  <2>1. CASE post = None /\ strip = {} /\ row = [a \in Ads |-> None]
    BY <2>1
  <2>2. CASE /\ post = (CHOOSE a \in Ads : TRUE) /\ strip \in Opened
             /\ row = [a \in Ads |->
                  IF a = post THEN [images |-> strip, text |-> 0, published |-> FALSE] ELSE None]
    <3>1. strip \in SUBSET Keys
      BY <2>2 DEF Stored
    <3>2. [images |-> strip, text |-> 0, published |-> FALSE] \in Row
      BY <3>1 DEF Row
    <3> QED BY <2>2, <3>1, <3>2
  <2> QED BY <2>1, <2>2 DEF Init
<1>3. field \in Ads \cup {None}
  BY DEF Init
<1>4. scan \in Scan /\ scan.todo \cup scan.done \cup scan.failed \subseteq scan.keys
  BY DEF Init, Idle, Scan
<1>5. edits \in 0 .. MaxEdits /\ failures \in 0 .. MaxFailures /\ text \in Nat /\ typing \in BOOLEAN
  <2>1. edits = 0 /\ failures = 0 /\ text = 0 /\ typing = FALSE
    BY Zenon DEF Init
  <2>2. typing \in BOOLEAN
    BY <2>1, Zenon
  <2> HIDE AdEditorAssumption
  <2> QED BY <2>1, <2>2, Constants
<1>6. /\ marks = {} /\ saving = None /\ toSave = None /\ late = {} /\ uploading = None /\ toUpload = {}
      /\ created = {}
  BY DEF Init
<1> HIDE AdEditorAssumption
<1> QED BY <1>1, <1>2, <1>3, <1>4, <1>5, <1>6 DEF Shape, TypeOK, FormInv

LEMMA ShapeNext ==
  ASSUME Shape, [Next]_vars
  PROVE  Shape'
<1>1. CASE Next
  BY <1>1, PageTyped, SavingTyped, RowsAre, UploadIs, StoreIs, Counters DEF Shape, TypeOK, PageType
<1>2. CASE UNCHANGED vars
  BY <1>2 DEF vars, docVars, saveVars, uploadVars, dbVars, storeVars, Shape, TypeOK, FormInv
<1> QED BY <1>1, <1>2

\* Every variable of the page, the forms, the table, the store and the script keeps its
\* type: no handler leaves a request, a row or an object of another form.
THEOREM TypeCorrect == Spec => []TypeOK
<1>1. Init => Shape
  BY InitIs
<1>2. Shape /\ [Next]_vars => Shape'
  BY ShapeNext
<1>3. Shape => TypeOK
  BY DEF Shape
<1> QED BY <1>1, <1>2, <1>3, PTL DEF Spec

-----------------------------------------------------------------------------
(* Every key that a page, a request or an ad knows is in the store.        *)

Known(S) == \A k \in S : object[k] # None

\* Where a key may be known: a tile, a save in flight or given up, the tiles of an
\* upload, an ad.
KnownInv ==
  /\ Known(strip)
  /\ saving # None => Known(saving.req.images)
  /\ \A q \in late : Known(q.images)
  /\ uploading # None => Known(uploading.keys)
  /\ SavedIsStored

\* A file that waits or is being uploaded has a key of its own that names no object yet.
UploadInv ==
  /\ \A k \in fresh : object[k] = None
  /\ \A k \in toUpload : object[k] = None /\ k \notin fresh
  /\ uploading # None => \A k \in uploading.files : object[k] = None /\ k \notin fresh /\ k \notin toUpload

\* What the script has written is an object of the deliveries it knows.
ScanInv ==
  /\ \A k \in scan.done : object[k] # None
  /\ scan.apply => \A k \in scan.done : object[k] \in Object /\ Healed(object[k])

LEMMA StripSteps ==
  ASSUME Shape, Next
  PROVE  \/ strip' = strip
         \/ /\ SaveAnswered /\ strip' = strip \ saving.answer.gone
            /\ marks' = marks \cup saving.answer.mark
         \/ uploading # None /\ strip' = uploading.keys
<1>1. CASE HandleSave \/ LoseSave \/ DelayIsOver \/ Type
  BY <1>1 DEF HandleSave, LoseSave, DelayIsOver, Type, docVars
<1>2. ASSUME NEW cmd \in Commands, Press(cmd) PROVE strip' = strip
  BY <1>2 DEF Press, docVars
<1>3. CASE SaveAnswered
  BY <1>3 DEF SaveAnswered
<1>4. CASE UploadAnswered
  BY <1>4 DEF UploadAnswered
<1>5. CASE Elsewhere
  BY <1>5 DEF Elsewhere, docVars
<1> QED BY <1>1, <1>2, <1>3, <1>4, <1>5, Steps

LEMMA SavingSteps ==
  ASSUME Shape, Next, saving' # None
  PROVE  \/ saving # None /\ saving' = saving /\ UNCHANGED <<post, field, marks>>
         \/ HandleSave /\ saving # None /\ saving'.req = saving.req
         \/ saving'.req.images = strip' /\ saving'.answer = None
<1>0. PageType'
  BY PageTyped
<1>1. CASE HandleSave
  BY <1>1, HandleSaveIs
<1>2. CASE SaveAnswered
  BY <1>0, <1>2, SaveAnsweredIs, NewRequestIs
<1>3. CASE LoseSave
  <2>1. saving # None /\ NextSave /\ post' = post
    BY <1>3 DEF LoseSave, docVars
  <2>2. post' # "closed" /\ toSave \in Commands \cup {None}
    BY <2>1, SavingIs DEF Open, Shape, TypeOK
  <2> QED BY <1>0, <2>1, <2>2, NextSaveIs, NewRequestIs
<1>4. CASE Beside
  <2>1. CASE saving' = saving
    BY <1>4, <2>1 DEF Beside
  <2>2. CASE NewRequest /\ Open
    BY <1>0, <1>4, <2>2, NewRequestIs DEF Beside, Open
  <2> QED BY <1>4, <2>1, <2>2 DEF Beside
<1> QED BY <1>1, <1>2, <1>3, <1>4, StepsBeside

\* An object appears only under the key of a file that is being uploaded.
LEMMA Appears ==
  ASSUME Shape, Next, NEW j \in Keys, object[j] = None
  PROVE  object'[j] = None \/ UploadFile(j)
<1>0. object \in [Keys -> Object \cup {None, Old}]
  BY DEF Shape, TypeOK
<1>1. ASSUME NEW k \in Keys, UploadFile(k), k # j PROVE object'[j] = None
  <2>1. object' = object \/ \E t \in BOOLEAN : object' = [object EXCEPT ![k] = Prepared(t)]
    BY <1>1, UploadFileIs
  <2> QED BY <1>0, <1>1, <2>1
<1>2. ASSUME NEW k \in Keys, _process_key(k) PROVE object'[j] = None
  <2>1. object' = object \/ (object[k] # None /\ \E o \in Object : object' = [object EXCEPT ![k] = Rebuilt(o)])
    BY <1>2, ProcessKeyIs
  <2> QED BY <1>0, <2>1
<1>3. ASSUME NEW apply \in BOOLEAN, recompress_attachments(apply) PROVE object' = object
  BY <1>3, ScanStarts
<1> QED BY <1>1, <1>2, <1>3, StoreSteps

LEMMA UploadInvNext ==
  ASSUME Shape, UploadInv, Next
  PROVE  UploadInv'
<1>0. /\ fresh \in SUBSET Keys /\ toUpload \in SUBSET Keys
      /\ uploading # None => uploading.files \in SUBSET Keys
  BY DEF Shape, TypeOK, Upload
<1>1. UploadEffect
  BY UploadIs
<1>2. ASSUME ~\E k \in Keys : UploadFile(k), NEW j \in Keys, object[j] = None PROVE object'[j] = None
  BY <1>2, Appears
<1>3. CASE UNCHANGED <<uploadVars, fresh>> /\ ~\E k \in Keys : UploadFile(k)
  BY <1>0, <1>2, <1>3 DEF UploadInv, uploadVars
<1>4. CASE uploading' = None /\ UNCHANGED <<fresh, object>> /\ toUpload' = {}
  BY <1>4 DEF UploadInv
<1>5. CASE Leaves(toUpload) /\ UNCHANGED <<fresh, object>> /\ toUpload' = {}
  BY <1>5 DEF UploadInv, Leaves
<1>6. ASSUME NEW files \in SUBSET fresh, fresh' = fresh \ files, UNCHANGED <<object, strip>>,
             \/ uploading = None /\ Leaves(files) /\ UNCHANGED toUpload
             \/ uploading' = uploading /\ toUpload' = files
      PROVE  UploadInv'
  <2>1. CASE uploading = None /\ Leaves(files) /\ UNCHANGED toUpload
    BY <1>6, <2>1 DEF UploadInv, Leaves
  <2>2. CASE uploading' = uploading /\ toUpload' = files
    BY <1>6, <2>2 DEF UploadInv
  <2> QED BY <1>6, <2>1, <2>2
<1>7. CASE GoesOn
  BY <1>7 DEF GoesOn, UploadInv
<1>8. ASSUME NEW k \in Keys, UploadFile(k) PROVE UploadInv'
  <2>1. /\ uploading # None /\ k \in uploading.files /\ uploading'.files = uploading.files \ {k}
        /\ fresh' = fresh /\ toUpload' = toUpload
        /\ object' = object \/ \E t \in BOOLEAN : object' = [object EXCEPT ![k] = Prepared(t)]
    BY <1>8, UploadFileIs
  <2>2. k \notin fresh /\ k \notin toUpload
    BY <2>1 DEF UploadInv
  <2>3. \A j \in Keys \ {k} : object'[j] = object[j]
    BY <2>1 DEF Shape, TypeOK
  <2> QED BY <1>0, <2>1, <2>2, <2>3 DEF UploadInv
<1> QED BY <1>1, <1>3, <1>4, <1>5, <1>6, <1>7, <1>8 DEF UploadEffect

LEMMA ScanInvNext ==
  ASSUME Shape, UploadInv, ScanInv, Next
  PROVE  ScanInv'
<1>0. /\ object \in [Keys -> Object \cup {None, Old}] /\ scan.done \in SUBSET Keys
      /\ uploading # None => uploading.files \in SUBSET Keys
  BY DEF Shape, TypeOK, Upload, Scan
<1>1. CASE UNCHANGED <<object, scan>>
  BY <1>1 DEF ScanInv, Healed
<1>2. ASSUME NEW k \in Keys, UploadFile(k) PROVE ScanInv'
  <2>1. /\ uploading # None /\ k \in uploading.files /\ scan' = scan
        /\ object' = object \/ \E t \in BOOLEAN : object' = [object EXCEPT ![k] = Prepared(t)]
    BY <1>2, UploadFileIs
  <2>2. k \notin scan.done
    BY <2>1 DEF UploadInv, ScanInv
  <2>3. \A j \in Keys \ {k} : object'[j] = object[j]
    BY <1>0, <2>1
  <2> QED BY <1>0, <2>1, <2>2, <2>3 DEF ScanInv, Healed
<1>3. ASSUME NEW k \in Keys, _process_key(k) PROVE ScanInv'
  <2>1. scan'.apply = scan.apply
    BY <1>3, ProcessKeyIs
  <2>2. CASE object' = object /\ scan'.done = scan.done
    BY <2>1, <2>2 DEF ScanInv, Healed
  <2>3. CASE object' = object /\ ~scan.apply /\ object[k] # None /\ scan'.done = scan.done \cup {k}
    BY <2>1, <2>3 DEF ScanInv
  <2>4. ASSUME object[k] # None, scan'.done = scan.done \cup {k}, NEW o \in Object, object' = [object EXCEPT ![k] = Rebuilt(o)]
        PROVE  ScanInv'
    <3>1. object'[k] = Rebuilt(o) /\ \A j \in Keys \ {k} : object'[j] = object[j]
      BY <1>0, <2>4
    <3>2. Rebuilt(o) \in Object /\ Rebuilt(o) # None /\ Healed(Rebuilt(o))
      BY RebuiltIs
    <3>3. ASSUME NEW j \in scan'.done
          PROVE  object'[j] # None /\ (scan'.apply => object'[j] \in Object /\ Healed(object'[j]))
      <4>1. CASE j = k
        BY <3>1, <3>2, <4>1
      <4>2. CASE j # k
        <5>1. j \in scan.done /\ object'[j] = object[j]
          BY <1>0, <2>4, <3>1, <3>3, <4>2
        <5> QED BY <2>1, <5>1 DEF ScanInv
      <4> QED BY <4>1, <4>2
    <3> QED BY <3>3 DEF ScanInv, Healed
  <2> QED BY <1>3, <2>2, <2>3, <2>4, ProcessKeyIs
<1>4. ASSUME NEW apply \in BOOLEAN, recompress_attachments(apply) PROVE ScanInv'
  BY <1>4, ScanStarts DEF ScanInv
<1> QED BY <1>1, <1>2, <1>3, <1>4, StoreSteps

LEMMA KnownInvNext ==
  ASSUME Shape, KnownInv, Next
  PROVE  KnownInv'
<1>0. /\ \A k \in Keys : object[k] # None => object'[k] # None
      /\ strip \in SUBSET Keys /\ strip' \in SUBSET Keys /\ late \in SUBSET Save
      /\ object \in [Keys -> Object \cup {None, Old}]
      /\ uploading # None => uploading.keys \in SUBSET Keys
      /\ saving # None => saving.req \in Save /\ saving.req.images \in SUBSET Keys
      /\ \A q \in late : q.images \in SUBSET Keys
      /\ row \in [Ads -> Row \cup {None}] /\ created \in SUBSET Ads
  BY StoreIs, PageTyped, SavingIs, SaveIs DEF Shape, TypeOK, PageType, Upload
<1> DEFINE Knows(S) == \A k \in S : object'[k] # None
<1>1. ASSUME NEW S \in SUBSET Keys, Known(S) PROVE Knows(S)
  BY <1>0, <1>1 DEF Known
<1>2. Knows(strip')
  <2>1. CASE strip' = strip \/ (SaveAnswered /\ strip' = strip \ saving.answer.gone)
    BY <1>0, <1>1, <2>1 DEF KnownInv
  <2>2. CASE uploading # None /\ strip' = uploading.keys
    BY <1>0, <1>1, <2>2 DEF KnownInv
  <2> QED BY <2>1, <2>2, StripSteps
<1>3. saving' # None => Knows(saving'.req.images)
  <2> SUFFICES ASSUME saving' # None PROVE Knows(saving'.req.images)
    OBVIOUS
  <2>1. CASE saving'.req.images = strip'
    BY <1>2, <2>1
  <2>2. CASE saving # None /\ saving'.req = saving.req
    BY <1>0, <1>1, <2>2 DEF KnownInv
  <2> QED BY <2>1, <2>2, SavingSteps
<1>4. \A q \in late' : Knows(q.images)
  BY <1>0, <1>1, LateSteps DEF KnownInv
<1>5. uploading' # None => Knows(uploading'.keys)
  <2> SUFFICES ASSUME uploading' # None PROVE Knows(uploading'.keys)
    OBVIOUS
  <2>1. UploadEffect
    BY UploadIs
  <2>2. CASE UNCHANGED <<uploadVars, fresh>> \/ uploading' = uploading
    BY <1>0, <1>1, <2>2 DEF KnownInv, uploadVars
  <2>3. ASSUME NEW files, Leaves(files) PROVE Knows(uploading'.keys)
    BY <1>2, <2>3 DEF Leaves
  <2>4. CASE GoesOn
    BY <1>0, <1>1, <2>4 DEF KnownInv, GoesOn, Own
  <2>5. ASSUME NEW k \in Keys, UploadFile(k) PROVE Knows(uploading'.keys)
    <3>1. /\ uploading # None
          /\ \/ uploading'.keys = uploading.keys
             \/ uploading'.keys = uploading.keys \cup {k} /\ \E t \in BOOLEAN : object' = [object EXCEPT ![k] = Prepared(t)]
      BY <2>5, UploadFileIs
    <3>2. Knows(uploading.keys)
      BY <1>0, <1>1, <3>1 DEF KnownInv
    <3>3. CASE uploading'.keys = uploading.keys
      BY <3>2, <3>3
    <3>4. CASE uploading'.keys = uploading.keys \cup {k} /\ \E t \in BOOLEAN : object' = [object EXCEPT ![k] = Prepared(t)]
      <4>1. object'[k] # None
        BY <1>0, <3>4, PreparedIs
      <4> QED BY <3>2, <3>4, <4>1
    <3> QED BY <3>1, <3>3, <3>4
  <2> QED BY <2>1, <2>2, <2>3, <2>4, <2>5 DEF UploadEffect
<1>6. \A a \in Ads : row'[a] # None => Knows(row'[a].images)
  <2>1. ASSUME NEW a \in Ads, row[a] # None PROVE Knows(row[a].images)
    <3>1. row[a].images \in SUBSET Keys
      BY <1>0, <2>1 DEF Row
    <3> QED BY <1>1, <2>1, <3>1 DEF KnownInv, SavedIsStored, Known
  <2>2. ASSUME NEW q \in Save, NEW ad \in Destination(q), _save_from_editor(q, ad), Knows(q.images)
        PROVE  \A a \in Ads : row'[a] # None => Knows(row'[a].images)
    <3>1. \A a \in Ads : row'[a] = row[a] \/ row'[a].images \subseteq image_list(q)
      BY <1>0, <2>2, SaveWrites
    <3> QED BY <2>1, <2>2, <3>1 DEF image_list
  <2>3. CASE UNCHANGED dbVars
    BY <2>1, <2>3 DEF dbVars
  <2>4. CASE HandleSave
    <3>1. PICK ad \in Destination(saving.req) : _save_from_editor(saving.req, ad)
      BY <2>4, HandleSaveIs
    <3>2. saving.req \in Save /\ Knows(saving.req.images)
      BY <1>0, <1>1, <2>4, HandleSaveIs DEF KnownInv
    <3> QED BY <2>2, <3>1, <3>2
  <2>5. CASE HandleLate
    <3>1. PICK q \in late : \E ad \in Destination(q) : _save_from_editor(q, ad)
      BY <2>5 DEF HandleLate
    <3>2. q \in Save /\ Knows(q.images)
      BY <1>0, <1>1 DEF KnownInv
    <3> QED BY <2>2, <3>1, <3>2
  <2>6. ASSUME NEW b \in Ads, ads_delete(b) PROVE \A a \in Ads : row'[a] # None => Knows(row'[a].images)
    <3>1. \A a \in Ads : row'[a] = row[a] \/ row'[a] = None
      BY <1>0, <2>6 DEF ads_delete
    <3> QED BY <2>1, <3>1
  <2> QED BY <2>3, <2>4, <2>5, <2>6, RowSteps
<1> HIDE DEF Knows
<1>7. /\ Knows(strip') /\ (saving' # None => Knows(saving'.req.images)) /\ (\A q \in late' : Knows(q.images))
      /\ (uploading' # None => Knows(uploading'.keys))
      /\ \A a \in Ads : row'[a] # None => Knows(row'[a].images)
  BY <1>2, <1>3, <1>4, <1>5, <1>6
<1> QED BY <1>7 DEF KnownInv, Known, SavedIsStored, Knows

\* Every image an ad refers to is in the store, and what a run of the script went
\* through has been healed, for any images, files, requests lost and store failures.
THEOREM StoreIsSoundHolds == Spec => []StoreIsSound
<1> DEFINE Inv == Shape /\ KnownInv /\ UploadInv /\ ScanInv
<1>1. Init => Inv
  <2> SUFFICES ASSUME Init PROVE Inv
    OBVIOUS
  <2>1. /\ saving = None /\ late = {} /\ uploading = None /\ toUpload = {} /\ scan = Idle
        /\ fresh = Keys \ Stored /\ object = [k \in Keys |-> IF k \in Stored THEN Old ELSE None]
    BY DEF Init
  <2>2. strip \subseteq Stored /\ \A a \in Ads : row[a] # None => row[a].images = strip
    <3>1. CASE strip = {} /\ row = [a \in Ads |-> None]
      BY <3>1
    <3>2. CASE /\ strip \in Opened
               /\ row = [a \in Ads |->
                    IF a = post THEN [images |-> strip, text |-> 0, published |-> FALSE] ELSE None]
      BY <3>2 DEF Stored
    <3> QED BY <3>1, <3>2 DEF Init
  <2>3. \A k \in Stored : object[k] # None
    BY <2>1, Constants
  <2> QED BY <2>1, <2>2, <2>3, InitIs DEF KnownInv, Known, SavedIsStored, UploadInv, ScanInv, Idle
<1>2. Inv /\ [Next]_vars => Inv'
  <2>1. Inv /\ Next => Inv'
    BY ShapeNext, KnownInvNext, UploadInvNext, ScanInvNext
  <2>2. Inv /\ UNCHANGED vars => Inv'
    <3> SUFFICES ASSUME Inv, UNCHANGED vars PROVE Inv'
      OBVIOUS
    <3>1. Shape'
      BY ShapeNext
    <3> QED BY <3>1 DEF vars, docVars, saveVars, uploadVars, dbVars, storeVars, KnownInv, Known, SavedIsStored,
                        UploadInv, ScanInv, Healed
  <2> QED BY <2>1, <2>2
<1>3. Inv => StoreIsSound
  BY DEF KnownInv, ScanInv, Healed, StoreIsSound, ScanHeals
<1> QED BY <1>1, <1>2, <1>3, PTL DEF Spec

-----------------------------------------------------------------------------
(* Tiles and tombstones.                                                   *)

\* An answer sweeps only tombstones; an upload in flight carries every tile of the
\* page that is its own; without a failure no save is handled late.
MarksInv ==
  /\ saving # None /\ saving.answer # None => saving.answer.gone \subseteq marks \cup saving.answer.mark
  /\ uploading # None => strip \ Legacy \subseteq uploading.keys
  /\ failures = 0 => late = {}

LEMMA MarksInvInit == Init => MarksInv
BY DEF Init, MarksInv

LEMMA MarksInvNext ==
  ASSUME Shape, MarksInv, [Next]_vars
  PROVE  MarksInv'
<1>1. CASE UNCHANGED vars
  BY <1>1 DEF vars, docVars, saveVars, uploadVars, MarksInv
<1>2. ASSUME Next, saving' # None, saving'.answer # None
      PROVE  saving'.answer.gone \subseteq marks' \cup saving'.answer.mark
  <2>1. CASE saving # None /\ saving' = saving /\ UNCHANGED <<post, field, marks>>
    BY <1>2, <2>1 DEF MarksInv
  <2>2. CASE HandleSave
    <3>1. saving # None /\ saving.req \in Save /\ \E ad \in Ads : saving'.answer = Answer(saving.req, ad)
      BY <2>2, HandleSaveIs
    <3>2. saving'.answer.gone \subseteq saving.req.marks \cup saving'.answer.mark
      BY <3>1, AnswerIs
    <3>3. saving.req.marks = marks /\ marks' = marks
      BY <2>2, <3>1 DEF Shape, FormInv, HandleSave, docVars
    <3> QED BY <3>2, <3>3
  <2> QED BY <1>2, <2>1, <2>2, SavingSteps
<1>3. ASSUME Next, uploading' # None PROVE strip' \ Legacy \subseteq uploading'.keys
  <2>1. UploadEffect
    BY <1>3, UploadIs
  <2>2. CASE uploading' = uploading
    BY <1>3, <2>2, StripSteps DEF MarksInv
  <2>3. ASSUME NEW files, Leaves(files) PROVE strip' \ Legacy \subseteq uploading'.keys
    BY <2>3 DEF Leaves
  <2>4. CASE GoesOn
    BY <2>4 DEF GoesOn, MarksInv, Own
  <2>5. ASSUME NEW k \in Keys, UploadFile(k) PROVE strip' \ Legacy \subseteq uploading'.keys
    <3>1. uploading # None /\ strip' = strip /\ uploading.keys \subseteq uploading'.keys
      BY <2>5, UploadFileIs DEF docVars
    <3> QED BY <3>1 DEF MarksInv
  <2> QED BY <1>3, <2>1, <2>2, <2>3, <2>4, <2>5 DEF UploadEffect, uploadVars
<1>4. ASSUME Next, failures' = 0 PROVE late' = {}
  <2>1. failures = 0 /\ ~LoseSave
    BY <1>4, Counters
  <2> QED BY <1>4, <2>1, LateSteps DEF MarksInv
<1> QED BY <1>1, <1>2, <1>3, <1>4 DEF MarksInv

LEMMA TileStep ==
  ASSUME Shape, MarksInv, [Next]_vars
  PROVE  strip \ strip' \subseteq marks' \cup Legacy
<1>1. CASE UNCHANGED vars
  BY <1>1 DEF vars, docVars
<1>2. CASE Next
  <2>1. CASE strip' = strip
    BY <2>1
  <2>2. CASE SaveAnswered /\ strip' = strip \ saving.answer.gone /\ marks' = marks \cup saving.answer.mark
    BY <2>2, SaveAnsweredIs DEF MarksInv
  <2>3. CASE uploading # None /\ strip' = uploading.keys
    BY <2>3 DEF MarksInv
  <2> QED BY <1>2, <2>1, <2>2, <2>3, StripSteps
<1> QED BY <1>1, <1>2

\* Neither the answer to a removal nor the strip of an upload takes a tile off the page
\* without a tombstone, unless the ownership check refused its key.
THEOREM TileIsNotLostHolds == Spec => TileIsNotLost
<1> DEFINE Inv == Shape /\ MarksInv
<1>1. Init => Inv
  BY InitIs, MarksInvInit
<1>2. Inv /\ [Next]_vars => Inv'
  BY ShapeNext, MarksInvNext
<1>3. Inv /\ [Next]_vars => [strip \ strip' \subseteq marks' \cup Legacy]_vars
  BY TileStep
<1> QED BY <1>1, <1>2, <1>3, PTL DEF Spec, TileIsNotLost

\* The images of an ad after a step that adds no image with a tombstone.
NotBack ==
  \A a \in Ads : row'[a] # None =>
    \A k \in marks : k \in row'[a].images => row[a] # None /\ k \in row[a].images

LEMMA RemovedStep ==
  ASSUME Shape, MarksInv, Next, failures' = 0
  PROVE  NotBack
<1>0. late = {} /\ row \in [Ads -> Row \cup {None}] /\ created \in SUBSET Ads
  BY Counters DEF MarksInv, Shape, TypeOK
<1>1. CASE UNCHANGED dbVars
  BY <1>1 DEF dbVars, NotBack
<1>2. CASE HandleSave
  <2>1. saving # None /\ saving.req \in Save
    BY <1>2, HandleSaveIs
  <2>2. PICK ad \in Destination(saving.req) : _save_from_editor(saving.req, ad)
    BY <1>2, HandleSaveIs
  <2>3. saving.req.marks = marks
    BY <2>1 DEF Shape, FormInv
  <2>4. \A a \in Ads : row'[a] = row[a] \/ row'[a].images \subseteq image_list(saving.req)
    BY <1>0, <2>1, <2>2, SaveWrites
  <2> QED BY <2>3, <2>4 DEF image_list, NotBack
<1>3. CASE HandleLate
  BY <1>0, <1>3 DEF HandleLate
<1>4. ASSUME NEW b \in Ads, ads_delete(b) PROVE NotBack
  <2>1. \A a \in Ads : row'[a] = row[a] \/ row'[a] = None
    BY <1>0, <1>4 DEF ads_delete
  <2> QED BY <2>1 DEF NotBack
<1> QED BY <1>1, <1>2, <1>3, <1>4, RowSteps

\* While no connection breaks, no order of uploads, removals and autosaves brings a
\* removed image back into an ad.
THEOREM RemovedStaysRemovedHolds == Spec => RemovedStaysRemoved
<1> DEFINE Inv == Shape /\ MarksInv
<1>1. Init => Inv
  BY InitIs, MarksInvInit
<1>2. Inv /\ [Next]_vars => Inv'
  BY ShapeNext, MarksInvNext
<1>3. Inv /\ [Next]_vars => [failures' = 0 => NotBack]_vars
  BY RemovedStep
<1> QED BY <1>1, <1>2, <1>3, PTL DEF Spec, RemovedStaysRemoved, NotBack

-----------------------------------------------------------------------------
(* One page of a new ad makes one row.                                     *)

\* The ad the next save of the page goes on with: what the answer of the save in flight
\* is about to put into the hidden field, or what the field has.
Pending == IF saving # None /\ saving.answer # None THEN saving.answer.ad ELSE field

Kept == \A a \in created : row[a] # None

\* A row this page made is the one it goes on with.
DraftInv ==
  /\ saving # None /\ saving.answer # None /\ saving.answer.leave => post # None
  /\ failures = 0 /\ post # None => created = {}
  /\ failures = 0 /\ post = None /\ Kept => created = {Pending} \ {None}

\* A deleted row is not made again under its id.
LEMMA KeptBefore ==
  ASSUME Shape, Next, Kept'
  PROVE  Kept
<1>0. row \in [Ads -> Row \cup {None}] /\ created \in SUBSET Ads /\ late \in SUBSET Save
  BY DEF Shape, TypeOK
<1>1. ASSUME NEW q \in Save, NEW ad \in Destination(q), _save_from_editor(q, ad) PROVE Kept
  <2>1. CASE UNCHANGED dbVars
    BY <2>1 DEF Kept, dbVars
  <2>2. CASE ~UNCHANGED dbVars
    <3>1. /\ ~Inaccessible(q) /\ \A a \in Ads \ {ad} : row'[a] = row[a]
          /\ Target(q) # None => ad = Target(q) /\ created' = created
          /\ Target(q) = None => ad \notin created /\ created' = created \cup {ad}
      BY <1>0, <1>1, <2>2, SaveWrites
    <3>2. ASSUME NEW a \in created PROVE row[a] # None
      <4>1. a \in created' /\ row'[a] # None
        BY <3>1 DEF Kept
      <4>2. CASE a = ad
        BY <3>1, <4>2 DEF Inaccessible
      <4>3. CASE a # ad
        BY <1>0, <3>1, <4>1, <4>3
      <4> QED BY <4>2, <4>3
    <3> QED BY <3>2 DEF Kept
  <2> QED BY <2>1, <2>2
<1>2. CASE UNCHANGED dbVars
  BY <1>2 DEF Kept, dbVars
<1>3. CASE HandleSave
  <2>1. saving.req \in Save /\ \E ad \in Destination(saving.req) : _save_from_editor(saving.req, ad)
    BY <1>3, HandleSaveIs
  <2> QED BY <1>1, <2>1
<1>4. CASE HandleLate
  <2>1. PICK q \in late : \E ad \in Destination(q) : _save_from_editor(q, ad)
    BY <1>4 DEF HandleLate
  <2> QED BY <1>0, <1>1, <2>1
<1>5. ASSUME NEW b \in Ads, ads_delete(b) PROVE Kept
  <2>1. created' = created /\ \A a \in Ads : row'[a] = row[a] \/ row'[a] = None
    BY <1>0, <1>5 DEF ads_delete
  <2> QED BY <1>0, <2>1 DEF Kept
<1> QED BY <1>2, <1>3, <1>4, <1>5, RowSteps

\* The save that is handled makes the row the page then goes on with.
LEMMA DraftHandled ==
  ASSUME Shape, DraftInv, HandleSave, failures = 0, post = None, Kept
  PROVE  created' = {Pending'} \ {None}
<1>1. /\ saving # None /\ saving.answer = None /\ saving.req \in Save /\ saving' # None
      /\ saving.req.post = post /\ saving.req.field = field
  BY HandleSaveIs DEF Shape, FormInv
<1>2. PICK ad \in Destination(saving.req) :
        /\ ad \in Ads /\ _save_from_editor(saving.req, ad)
        /\ saving'.answer = Answer(saving.req, ad) /\ saving'.answer # None
  BY HandleSaveIs
<1>3. ~Inaccessible(saving.req) =>
        saving'.answer.ad = IF own_image_keys(image_list(saving.req)) THEN ad ELSE Target(saving.req)
  BY <1>1, <1>2, AnswerIs
<1>4. /\ \/ UNCHANGED dbVars /\ (Inaccessible(saving.req) \/ ~own_image_keys(image_list(saving.req)))
         \/ /\ ~Inaccessible(saving.req) /\ own_image_keys(image_list(saving.req))
            /\ Target(saving.req) # None => ad = Target(saving.req) /\ created' = created
            /\ Target(saving.req) = None => ad \notin created /\ created' = created \cup {ad}
  BY <1>1, <1>2, SaveWrites DEF Shape, TypeOK
<1>5. created = {field} \ {None} /\ Target(saving.req) = field
  BY <1>1 DEF DraftInv, Pending, Target
<1>6. ~Inaccessible(saving.req)
  BY <1>5 DEF Inaccessible, Kept
<1>7. Pending' = saving'.answer.ad
  BY <1>1, <1>2 DEF Pending
<1>8. Pending' = IF own_image_keys(image_list(saving.req)) THEN ad ELSE field
  BY <1>3, <1>5, <1>6, <1>7
<1>9. CASE ~own_image_keys(image_list(saving.req))
  BY <1>4, <1>5, <1>8, <1>9 DEF dbVars
<1>10. CASE own_image_keys(image_list(saving.req)) /\ field # None
  BY <1>4, <1>5, <1>6, <1>8, <1>10
<1>11. CASE own_image_keys(image_list(saving.req)) /\ field = None
  <2>1. created' = {ad} /\ ad # None
    BY <1>2, <1>4, <1>5, <1>6, <1>11, Constants
  <2> QED BY <1>8, <1>11, <2>1
<1> QED BY <1>9, <1>10, <1>11

LEMMA DraftInvNext ==
  ASSUME Shape, MarksInv, DraftInv, [Next]_vars
  PROVE  DraftInv'
<1>1. CASE UNCHANGED vars
  BY <1>1 DEF vars, docVars, saveVars, dbVars, DraftInv, Pending, Kept
<1>2. CASE Next /\ HandleSave
  <2>0. post' = post /\ failures' = failures
    BY <1>2 DEF HandleSave, docVars
  <2>1. saving'.answer.leave => post # None
    <3>1. saving # None /\ saving.req \in Save /\ \E ad \in Ads : saving'.answer = Answer(saving.req, ad)
      BY <1>2, HandleSaveIs
    <3> QED BY <3>1, AnswerIs DEF Shape, FormInv
  <2>2. ASSUME failures = 0, post # None PROVE created' = {}
    <3>1. PICK ad \in Destination(saving.req) : _save_from_editor(saving.req, ad)
      BY <1>2, HandleSaveIs
    <3>2. saving.req \in Save /\ Target(saving.req) # None /\ created = {}
      BY <1>2, <2>2, HandleSaveIs DEF Shape, FormInv, DraftInv, Target
    <3> QED BY <3>1, <3>2, SaveWrites DEF Shape, TypeOK, dbVars
  <2>3. ASSUME failures = 0, post = None, Kept' PROVE created' = {Pending'} \ {None}
    BY <1>2, <2>3, KeptBefore, DraftHandled
  <2> QED BY <2>0, <2>1, <2>2, <2>3 DEF DraftInv
<1>3. CASE Next /\ ~HandleSave
  <2>1. failures' = 0 => failures = 0 /\ ~LoseSave /\ created' = created
    <3>1. failures' = 0 => failures = 0 /\ ~LoseSave /\ late = {}
      BY <1>3, Counters DEF MarksInv
    <3>2. ASSUME NEW a \in Ads, ads_delete(a) PROVE created' = created
      BY <3>2 DEF ads_delete
    <3> QED BY <1>3, <3>1, <3>2, RowSteps DEF HandleLate, dbVars
  <2>2. PageType'
    BY <1>3, PageTyped
  <2>3. CASE Beside
    <3>1. UNCHANGED <<post, field>>
      BY <2>3 DEF Beside
    <3>2. saving' = saving \/ (saving = None /\ saving' # None /\ saving'.answer = None)
      BY <2>2, <2>3, NewRequestIs DEF Beside, Open
    <3>3. Pending' = Pending /\ (saving' # None /\ saving'.answer # None => saving' = saving)
      BY <3>1, <3>2 DEF Pending
    <3> QED BY <1>3, <2>1, <3>1, <3>3, KeptBefore DEF DraftInv
  <2>4. CASE SaveAnswered
    <3>1. /\ saving # None /\ saving.answer # None /\ field' = saving.answer.ad
          /\ post' = post \/ (saving.answer.leave /\ post' = "closed")
          /\ saving' = None \/ saving'.answer = None
      BY <2>2, <2>4, SaveAnsweredIs, NewRequestIs DEF SaveAnswered
    <3>2. (post' = None => post = None) /\ (post' # None => post # None)
      BY <3>1, AdEditorAssumption DEF DraftInv
    <3>3. Pending' = Pending
      BY <3>1 DEF Pending
    <3> QED BY <1>3, <2>1, <3>1, <3>2, <3>3, KeptBefore DEF DraftInv
  <2>5. CASE LoseSave
    <3>1. failures' # 0
      BY <1>3, <2>1, <2>5
    <3>2. saving' = None \/ saving'.answer = None
      <4>1. NextSave
        BY <2>5 DEF LoseSave
      <4> QED BY <4>1 DEF NextSave
    <3> QED BY <3>1, <3>2 DEF DraftInv
  <2> QED BY <1>3, <2>3, <2>4, <2>5, StepsBeside
<1> QED BY <1>1, <1>2, <1>3

\* However autosaves, presses, uploads and removals of one page of a new ad interleave,
\* with no connection lost and no ad deleted the page makes at most one row.
THEOREM OneDraftHolds == Spec => []OneDraft
<1> DEFINE Inv == Shape /\ MarksInv /\ DraftInv
<1>1. Init => Inv
  <2>1. Init => DraftInv
    BY DEF Init, DraftInv, Pending
  <2> QED BY <2>1, InitIs, MarksInvInit
<1>2. Inv /\ [Next]_vars => Inv'
  BY ShapeNext, MarksInvNext, DraftInvNext
<1>3. Inv => OneDraft
  <2> SUFFICES ASSUME Inv, failures = 0, Kept PROVE Cardinality(created) <= 1
    BY DEF OneDraft, Kept
  <2>1. created = {} \/ \E a \in Ads \cup {None} : created = {a}
    <3>1. CASE post # None
      BY <3>1 DEF DraftInv
    <3>2. CASE post = None
      <4>1. created = {Pending} \ {None} /\ created \in SUBSET Ads
        BY <3>2 DEF DraftInv, Shape, TypeOK
      <4> QED BY <4>1
    <3> QED BY <3>1, <3>2
  <2>2. CASE created = {}
    <3>1. Cardinality(created) = 0
      BY <2>2, FS_EmptySet
    <3> QED BY <3>1
  <2>3. ASSUME NEW a \in Ads \cup {None}, created = {a} PROVE Cardinality(created) <= 1
    <3>1. Cardinality(created) = 1
      BY <2>3, FS_Singleton
    <3> QED BY <3>1
  <2> QED BY <2>1, <2>2, <2>3
<1> QED BY <1>1, <1>2, <1>3, PTL DEF Spec

=============================================================================
