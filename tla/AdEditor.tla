----------------------------- MODULE AdEditor -----------------------------
(***************************************************************************)
(* The editor of one advertisement: the page in the browser, the two htmx  *)
(* forms it sends, the server's handlers, the ads table and the object     *)
(* store.  The state of the attachments lives in the document:             *)
(*                                                                         *)
(*   #media-strip       tiles with a hidden input "images" each; an upload *)
(*                      answers with a whole new strip;                    *)
(*   #media-tombstones  hidden inputs "removed_images", append-only;       *)
(*   #ad-id-field       the id a save of /ads/new has to go on with.       *)
(*                                                                         *)
(* Each form has hx-sync "this:queue last": one request in flight, one     *)
(* waiting (the last), serialised when it leaves.  The forms are not       *)
(* synchronised with each other.                                           *)
(***************************************************************************)
EXTENDS Integers, FiniteSets

CONSTANTS
  Keys,          \* image keys; every upload makes a new one
  Opened,        \* the sets of images an ad may have when its page is opened
  Legacy,        \* stored keys of an old pattern, refused by the ownership check
  Ads,           \* ids of the ads table
  None, Old,
  MaxImages,     \* max_images_per_ad
  MaxEdits,      \* bound on keystrokes, presses of "Save", deletions and script runs
  MaxFailures    \* bound on lost requests and on failures of the store

Stored == UNION Opened

Remove == [kind : {"remove"}, key : Keys]
Plain  == [kind : {"auto", "save"}, key : {None}]
Commands == Remove \cup Plain

Autosave == [kind |-> "auto", key |-> None]

\* What a save answers with: the ad for #ad-id-field, the tiles to delete and the
\* tombstone to append; "gone" is a redirect to the list.
Answers ==
  [ok : BOOLEAN, ad : Ads \cup {None}, gone : SUBSET Keys, mark : SUBSET Keys, leave : BOOLEAN]

Row == [images : SUBSET Keys, text : Nat, published : BOOLEAN]

\* An object: its long edge is over the limit, recompression makes it smaller, it is
\* a readable JPEG or PNG, its thumbnail exists.  An Old one may be any of them.
Object == [big : BOOLEAN, shrinks : BOOLEAN, readable : BOOLEAN, thumb : BOOLEAN]

Save == [cmd : Commands, images : SUBSET Keys, marks : SUBSET Keys, post : Ads \cup {None},
         field : Ads \cup {None}, text : Nat]
Request == [req : Save, answer : Answers \cup {None}]
Upload == [keys : SUBSET Keys, files : SUBSET Keys, free : 0 .. MaxImages, attached : SUBSET Keys,
           step : {"sent", "storing", "answered", "refused"}]
Scan == [keys : SUBSET Keys, todo : SUBSET Keys, done : SUBSET Keys, failed : SUBSET Keys,
         apply : BOOLEAN]

ASSUME AdEditorAssumption ==
  /\ IsFiniteSet(Keys) /\ Legacy \subseteq Stored /\ Stored \subseteq Keys
  /\ Ads # {} /\ None \notin Ads /\ "closed" \notin Ads \cup {None}
  /\ None # Old /\ None \notin Object /\ None \notin Answers /\ None \notin Request
  /\ MaxImages \in Nat /\ MaxEdits \in Nat /\ MaxFailures \in Nat

VARIABLES
  post,            \* the ad of the form's hx-post, None for /ads/new; "closed" after it left
  field,           \* #ad-id-field
  strip, marks,    \* #media-strip and #media-tombstones
  text, typing,    \* the text, and whether the 2 s delay of its keyup runs
  saving, toSave,  \* the ad form: the request in flight, the command waiting
  uploading, toUpload,  \* the upload form: the request in flight, the files waiting
  late,            \* saves the browser has given up and the server has not handled
  row,             \* the ads table
  created,         \* ads inserted by this page
  fresh,           \* keys not made yet
  object,          \* the store
  scan,            \* recompress_attachments: keys to do, keys done, "apply"
  edits, failures

docVars    == <<post, field, strip, marks, text, typing>>
saveVars   == <<saving, toSave, late>>
uploadVars == <<uploading, toUpload>>
dbVars     == <<row, created>>
storeVars  == <<fresh, object>>
vars == <<docVars, saveVars, uploadVars, dbVars, storeVars, scan, edits, failures>>

Idle == [keys |-> {}, todo |-> {}, done |-> {}, failed |-> {}, apply |-> FALSE]

TypeOK ==
  /\ post \in Ads \cup {None, "closed"} /\ field \in Ads \cup {None}
  /\ strip \subseteq Keys /\ marks \subseteq Keys /\ text \in Nat /\ typing \in BOOLEAN
  /\ saving \in Request \cup {None} /\ toSave \in Commands \cup {None}
  /\ late \subseteq Save
  /\ uploading \in Upload \cup {None}
  /\ toUpload \subseteq Keys
  /\ row \in [Ads -> Row \cup {None}]
  /\ created \subseteq Ads /\ fresh \subseteq Keys
  /\ object \in [Keys -> Object \cup {None, Old}]
  /\ scan \in Scan /\ scan.todo \cup scan.done \cup scan.failed \subseteq scan.keys
  /\ edits \in 0 .. MaxEdits /\ failures \in 0 .. MaxFailures

\* ads_new and ads_edit: the page of a new ad, or of an ad with its images.
Init ==
  /\ object = [k \in Keys |-> IF k \in Stored THEN Old ELSE None]
  /\ fresh = Keys \ Stored
  /\ \/ post = None /\ strip = {} /\ row = [a \in Ads |-> None]
     \/ /\ post = (CHOOSE a \in Ads : TRUE) /\ strip \in Opened
        /\ row = [a \in Ads |->
             IF a = post THEN [images |-> strip, text |-> 0, published |-> FALSE] ELSE None]
  /\ field = post /\ marks = {} /\ text = 0 /\ typing = FALSE
  /\ saving = None /\ toSave = None /\ late = {}
  /\ uploading = None /\ toUpload = {}
  /\ created = {} /\ scan = Idle
  /\ edits = 0 /\ failures = 0

Open == post # "closed"

-----------------------------------------------------------------------------
(* The ad form.                                                            *)

\* The form as the browser serialises it when the request leaves.
Serialised(cmd) ==
  [req |-> [cmd |-> cmd, images |-> strip, marks |-> marks, post |-> post, field |-> field,
            text |-> text],
   answer |-> None]

\* Mutant: the form is not synchronised, a trigger leaves at once.
Trigger_NoSync(cmd) == saving' = Serialised(cmd) /\ UNCHANGED toSave

\* Mutant: hx-sync "drop", a trigger is lost while a request is in flight.
Trigger_Drop(cmd) ==
  /\ saving' = IF saving = None THEN Serialised(cmd) ELSE saving
  /\ UNCHANGED toSave

\* A trigger of the ad form: it leaves at once, or waits in place of any that waited.
Trigger(cmd) ==
  IF saving = None
  THEN saving' = Serialised(cmd) /\ UNCHANGED toSave
  ELSE toSave' = cmd /\ UNCHANGED saving

\* hx-trigger keyup, change with delay:2s.
Type ==
  /\ Open /\ edits < MaxEdits
  /\ edits' = edits + 1 /\ text' = text + 1 /\ typing' = TRUE
  /\ UNCHANGED <<post, field, strip, marks, saveVars, uploadVars, dbVars, storeVars, scan, failures>>

DelayIsOver ==
  /\ Open /\ typing
  /\ typing' = FALSE /\ Trigger(Autosave)
  /\ UNCHANGED <<post, field, strip, marks, text, late, uploadVars, dbVars, storeVars, scan,
                 edits, failures>>

\* The buttons that submit the form: "Save", and the cross of a tile.
Press(cmd) ==
  /\ Open
  /\ \/ cmd.kind = "save" /\ edits < MaxEdits /\ edits' = edits + 1
     \/ cmd.kind = "remove" /\ cmd.key \in strip /\ UNCHANGED edits
        /\ toSave # cmd /\ (saving # None => saving.req.cmd # cmd)
  /\ Trigger(cmd)
  /\ UNCHANGED <<docVars, late, uploadVars, dbVars, storeVars, scan, failures>>

-----------------------------------------------------------------------------
(* The save: ads_create, ads_update, _save_from_editor.                    *)

Own(S) == S \ Legacy

Refusal == [ok |-> FALSE, ad |-> None, gone |-> {}, mark |-> {}, leave |-> FALSE]

\* Mutant: the tombstones are not subtracted.
image_list_NoMarks(q) == q.images

\* The snapshot less the tombstones.
image_list(q) == q.images \ q.marks

\* own_image_keys, then the length and the ownership of each.
own_image_keys(S) == Cardinality(S) <= MaxImages /\ S = Own(S)

\* The ad a save is for: of its address on /ads/{id}/edit, of its hidden field on
\* /ads/new, none (a new one) while the field is empty.
Target(q) == IF q.post # None THEN q.post ELSE q.field

\* Mutant: the removal answers with the strip as it is in the table.
media_answer_Repaint(q, ad, changed) ==
  [ok |-> TRUE, ad |-> ad, gone |-> IF changed = {} THEN {} ELSE Keys \ (image_list(q) \ changed),
   mark |-> changed, leave |-> FALSE]

\* _autosave_response: the id; a delete for the tiles of the removed key and of keys
\* removed before, a tombstone for the removed key.
media_answer(q, ad, changed) ==
  [ok |-> TRUE, ad |-> ad, gone |-> (q.images \cap q.marks) \cup changed, mark |-> changed,
   leave |-> FALSE]

Inaccessible(q) == Target(q) # None /\ row[Target(q)] = None

Removed(q) == IF q.cmd.kind = "remove" THEN image_list(q) \cap {q.cmd.key} ELSE {}

\* The answer: a redirect to the list from /ads/{id}/edit, and an error that empties the
\* field from /ads/new, when the ad is not there; _attachment_refusal; the saved ad.
Answer(q, ad) ==
  IF Inaccessible(q) THEN [Refusal EXCEPT !.leave = q.post # None]
  ELSE IF ~own_image_keys(image_list(q)) THEN [Refusal EXCEPT !.ad = Target(q)]
  ELSE media_answer(q, ad, Removed(q))

\* The ad a save writes: its target, or a row that is not there yet.
Destination(q) ==
  IF Target(q) # None THEN {Target(q)} ELSE {a \in Ads : row[a] = None /\ a \notin created}

\* _save_from_editor: a refused save writes nothing; any other writes the whole ad, and
\* "Save" publishes it.
_save_from_editor(q, ad) ==
  IF Inaccessible(q) \/ ~own_image_keys(image_list(q)) THEN UNCHANGED dbVars
  ELSE /\ row' = [row EXCEPT ![ad] =
            [images |-> image_list(q) \ Removed(q), text |-> q.text,
             published |-> q.cmd.kind = "save" \/ (IF @ = None THEN FALSE ELSE @.published)]]
       /\ created' = IF Target(q) = None THEN created \cup {ad} ELSE created

\* ads_create and ads_update.
HandleSave ==
  /\ saving # None /\ saving.answer = None
  /\ \E ad \in Destination(saving.req) :
       /\ _save_from_editor(saving.req, ad)
       /\ saving' = [saving EXCEPT !.answer = Answer(saving.req, ad)]
  /\ UNCHANGED <<docVars, toSave, late, uploadVars, storeVars, scan, edits, failures>>

\* The form is free again: the waiting command leaves, with the document as it is now.
NextSave ==
  /\ saving' = IF toSave = None THEN None
               ELSE [req |-> [cmd |-> toSave, images |-> strip', marks |-> marks', post |-> post',
                              field |-> field', text |-> text'], answer |-> None]
  /\ toSave' = None

\* autosave_response.html, swapped out of band; a field that came empty stays empty.
SaveAnswered ==
  LET r == saving.answer IN
  /\ saving # None /\ r # None
  /\ strip' = strip \ r.gone /\ marks' = marks \cup r.mark
  /\ field' = r.ad
  /\ post' = IF r.leave THEN "closed" ELSE post
  /\ UNCHANGED <<text, typing>>
  /\ IF r.leave THEN saving' = None /\ toSave' = None ELSE NextSave
  /\ UNCHANGED <<late, uploadVars, dbVars, storeVars, scan, edits, failures>>

\* The connection breaks, before or after the request was handled: the indicator shows
\* an error, the form is free again.
LoseSave ==
  /\ saving # None /\ failures < MaxFailures
  /\ failures' = failures + 1
  /\ \/ late' = late \cup (IF saving.answer = None THEN {saving.req} ELSE {})
     \/ UNCHANGED late
  /\ UNCHANGED docVars
  /\ NextSave
  /\ UNCHANGED <<uploadVars, dbVars, storeVars, scan, edits>>

\* The server handles a save nobody waits for.
HandleLate ==
  /\ \E q \in late :
       /\ late' = late \ {q}
       /\ \E ad \in Destination(q) : _save_from_editor(q, ad)
  /\ UNCHANGED <<docVars, saving, toSave, uploadVars, storeVars, scan, edits, failures>>

-----------------------------------------------------------------------------
(* The upload: ads_images_upload and store_upload.                         *)

SerialisedUpload(files) ==
  [keys |-> strip, files |-> files, free |-> 0, attached |-> {}, step |-> "sent"]

\* A choice of files: it is sent at once, or waits in place of the one that waited.
ChooseFiles(files) ==
  /\ Open /\ files # {} /\ files \subseteq fresh
  /\ fresh' = fresh \ files
  /\ IF uploading = None
     THEN uploading' = SerialisedUpload(files) /\ UNCHANGED toUpload
     ELSE toUpload' = files /\ UNCHANGED uploading
  /\ UNCHANGED <<docVars, saveVars, dbVars, object, scan, edits, failures>>

\* The places left, counted from the tiles of the request.
free(keys) == IF Cardinality(keys) > MaxImages THEN 0 ELSE MaxImages - Cardinality(keys)

\* partition_own_image_keys: a foreign key loses its tile and refuses every file.
StartUpload ==
  /\ uploading # None /\ uploading.step = "sent"
  /\ uploading' = IF uploading.keys # Own(uploading.keys)
       THEN [uploading EXCEPT !.keys = Own(@), !.files = {}, !.step = "storing"]
       ELSE [uploading EXCEPT !.free = free(uploading.keys), !.step = "storing"]
  /\ UNCHANGED <<docVars, saveVars, toUpload, dbVars, storeVars, scan, edits, failures>>

\* The choice has more than MAX_UPLOAD_PARTS parts: a refusal is added to the strip.
TooManyParts ==
  /\ uploading # None /\ uploading.step = "sent"
  /\ uploading' = [uploading EXCEPT !.step = "refused"]
  /\ UNCHANGED <<docVars, saveVars, toUpload, dbVars, storeVars, scan, edits, failures>>

Attach(k) ==
  uploading' = [uploading EXCEPT !.files = @ \ {k}, !.keys = @ \cup {k}, !.free = @ - 1,
                                 !.attached = @ \cup {k}]

Reject(k) == uploading' = [uploading EXCEPT !.files = @ \ {k}]

\* prepare_upload: the delivery is within the limit and readable.
Prepared(t) == [big |-> FALSE, shrinks |-> FALSE, readable |-> TRUE, thumb |-> t]

\* Mutant: a failed PUT is taken for a stored object.
store_upload_Trusting(k) ==
  \/ Reject(k) /\ UNCHANGED <<object, failures>>
  \/ /\ failures < MaxFailures /\ failures' = failures + 1
     /\ Attach(k) /\ UNCHANGED object
  \/ Attach(k) /\ object' = [object EXCEPT ![k] = Prepared(TRUE)] /\ UNCHANGED failures

\* store_upload: refused for its size, its format or its pixels; not stored (502); or
\* stored, with or without its thumbnail.
store_upload(k) ==
  \/ Reject(k) /\ UNCHANGED <<object, failures>>
  \/ /\ failures < MaxFailures /\ failures' = failures + 1
     /\ \/ Reject(k) /\ UNCHANGED object
        \/ Attach(k) /\ object' = [object EXCEPT ![k] = Prepared(FALSE)]
  \/ Attach(k) /\ object' = [object EXCEPT ![k] = Prepared(TRUE)] /\ UNCHANGED failures

\* The loop over the files: over the ceiling they are refused.
UploadFile(k) ==
  /\ uploading # None /\ uploading.step = "storing" /\ k \in uploading.files
  /\ IF uploading.free <= 0 THEN Reject(k) /\ UNCHANGED <<object, failures>> ELSE store_upload(k)
  /\ UNCHANGED <<docVars, saveVars, toUpload, dbVars, fresh, scan, edits>>

FinishUpload ==
  /\ uploading # None /\ uploading.step = "storing" /\ uploading.files = {}
  /\ uploading' = [uploading EXCEPT !.step = "answered"]
  /\ UNCHANGED <<docVars, saveVars, toUpload, dbVars, storeVars, scan, edits, failures>>

\* media_strip.html replaces the strip; with HX-Trigger-After-Swap, if a file was
\* attached, the ad form saves.  The waiting choice of files leaves.
UploadAnswered ==
  /\ Open /\ uploading # None /\ uploading.step \in {"answered", "refused"}
  /\ strip' = IF uploading.step = "answered" THEN uploading.keys ELSE strip
  /\ IF uploading.attached = {} THEN UNCHANGED <<saving, toSave>>
     ELSE IF saving # None THEN toSave' = Autosave /\ UNCHANGED saving
     ELSE /\ saving' = [Serialised(Autosave) EXCEPT !.req.images = strip']
          /\ UNCHANGED toSave
  /\ uploading' = IF toUpload = {} THEN None
                  ELSE [SerialisedUpload(toUpload) EXCEPT !.keys = strip']
  /\ toUpload' = {}
  /\ UNCHANGED <<post, field, marks, text, typing, late, dbVars, storeVars, scan, edits, failures>>

\* The connection breaks or the process dies: what was stored is an orphan.
LoseUpload ==
  /\ uploading # None /\ failures < MaxFailures
  /\ failures' = failures + 1
  /\ uploading' = IF toUpload = {} THEN None ELSE SerialisedUpload(toUpload)
  /\ toUpload' = {}
  /\ UNCHANGED <<docVars, saveVars, dbVars, storeVars, scan, edits>>

-----------------------------------------------------------------------------
(* Other pages, and the script.                                            *)

\* ads_delete (from the list), delete_ad: the row goes, the objects stay.
ads_delete(a) ==
  /\ row[a] # None /\ edits < MaxEdits
  /\ edits' = edits + 1
  /\ row' = [row EXCEPT ![a] = None]
  /\ UNCHANGED <<docVars, saveVars, uploadVars, created, storeVars, scan, failures>>

\* collect_attachment_keys: the keys of the ads, read once.
collect_attachment_keys ==
  UNION {row[a].images : a \in {b \in Ads : row[b] # None}}

recompress_attachments(apply) ==
  /\ scan.todo = {} /\ edits < MaxEdits
  /\ edits' = edits + 1
  /\ scan' = [keys |-> collect_attachment_keys, todo |-> collect_attachment_keys, done |-> {},
              failed |-> {}, apply |-> apply]
  /\ UNCHANGED <<docVars, saveVars, uploadVars, dbVars, storeVars, failures>>

\* The two decisions of _process_key on a readable object: a big one is replaced by its
\* smaller delivery, and a missing thumbnail is made.
Rebuilt(o) ==
  IF ~o.readable THEN o
  ELSE [o EXCEPT !.big = @ /\ ~o.shrinks, !.thumb = TRUE]

\* _process_key: the object is missing or the store fails, which is counted, or it is
\* rebuilt and, with --apply, written.
_process_key(k) ==
  /\ k \in scan.todo
  /\ \/ /\ object[k] # None
        /\ IF scan.apply
           THEN \E o \in Object :
                  object[k] \in {Old, o} /\ object' = [object EXCEPT ![k] = Rebuilt(o)]
           ELSE UNCHANGED object
        /\ scan' = [scan EXCEPT !.todo = @ \ {k}, !.done = @ \cup {k}]
        /\ UNCHANGED failures
     \/ /\ object[k] = None \/ failures < MaxFailures
        /\ failures' = IF object[k] = None THEN failures ELSE failures + 1
        /\ scan' = [scan EXCEPT !.todo = @ \ {k}, !.failed = @ \cup {k}]
        /\ UNCHANGED object
  /\ UNCHANGED <<docVars, saveVars, uploadVars, dbVars, fresh, edits>>

-----------------------------------------------------------------------------

Server ==
  \/ HandleSave \/ HandleLate \/ StartUpload \/ TooManyParts \/ FinishUpload
  \/ \E k \in Keys : UploadFile(k)

Browser == DelayIsOver \/ SaveAnswered \/ UploadAnswered

User ==
  \/ Type
  \/ \E cmd \in Commands : cmd # Autosave /\ Press(cmd)
  \/ \E files \in SUBSET Keys : ChooseFiles(files)
  \/ \E a \in Ads : ads_delete(a)

Script ==
  \/ \E apply \in BOOLEAN : recompress_attachments(apply)
  \/ \E k \in Keys : _process_key(k)

Next == Server \/ Browser \/ User \/ Script \/ LoseSave \/ LoseUpload

Spec == Init /\ [][Next]_vars

\* A request that was sent is handled and answered, unless it is lost; a delay ends.
Fairness ==
  /\ WF_vars(HandleSave) /\ WF_vars(SaveAnswered) /\ WF_vars(DelayIsOver)
  /\ WF_vars(HandleLate)
  /\ WF_vars(StartUpload \/ TooManyParts) /\ WF_vars(FinishUpload) /\ WF_vars(UploadAnswered)
  /\ WF_vars(\E k \in Keys : UploadFile(k))

FairSpec == Spec /\ Fairness

-----------------------------------------------------------------------------
(* Properties.                                                             *)

\* Every image an ad refers to is in the store: a refused or failed file never gets a
\* tile, and nothing deletes an object while a request or the history may know its key.
SavedIsStored == \A a \in Ads : row[a] # None => \A k \in row[a].images : object[k] # None

\* While no connection breaks, a removed image does not come back: neither the strip of
\* an upload that left before the removal nor the save which that upload triggers puts
\* it into the ad again (ads.py, order I).
RemovedStaysRemoved ==
  [][failures' = 0 => \A a \in Ads : row'[a] # None =>
       \A k \in marks : k \in row'[a].images => row[a] # None /\ k \in row[a].images]_vars

\* A tile leaves the page only with a tombstone or for the ownership check: the answer
\* to a removal does not sweep away what an upload has brought meanwhile (order II).
TileIsNotLost == [][strip \ strip' \subseteq marks' \cup Legacy]_vars

\* While no connection breaks and nobody deletes ads, a page of a new ad makes one row,
\* however its autosaves, uploads and removals are interleaved.
OneDraft == failures = 0 /\ (\A a \in created : row[a] # None) => Cardinality(created) <= 1

\* While the page is open, nothing was lost or deleted and no image is refused, the ad comes to be
\* what the page shows: text, uploads and removals, whatever waited in a queue.
AutosaveCatchesUp ==
  <>[](\/ ~Open \/ failures > 0 \/ ~own_image_keys(strip \ marks)
       \/ field = None /\ text = 0 /\ strip = {}
       \/ \E a \in created : row[a] = None
       \/ /\ field # None
          /\ \/ row[field] = None \/ row[field].images \cap Legacy # {}
             \/ row[field].images = strip \ marks /\ row[field].text = text)

\* What a run of the script has gone through without an error has its thumbnail, and is
\* within the limit if it can be made smaller; the two do not depend on each other.
ScanHeals ==
  scan.apply => \A k \in scan.done :
    object[k].readable => object[k].thumb /\ (object[k].big => ~object[k].shrinks)

\* The store behind the ads is sound beside every request and the script.
StoreIsSound == SavedIsStored /\ ScanHeals

=============================================================================
