------------------------------- MODULE Imports -------------------------------
(***************************************************************************)
(* Importing files in the browser: dropped on the dashboard (uploadFiles,  *)
(* with a list of tasks) or chosen in the settings (importLegacyFiles).    *)
(*                                                                         *)
(* Files are worked on at the same time, the drawings of one file one      *)
(* after the other.  A file is a sequence of members - one for a drawing   *)
(* or an exported JSON file, any number for a zip - and a member is a      *)
(* sequence of drawings, each readable or not and filed under a name, or   *)
(* under none.  A request that fails ends its member.  A zip resolves      *)
(* names to collections by itself, the other files share one resolver.     *)
(*                                                                         *)
(* Left out: what a drawing shows, its preview and time stamps, percent-   *)
(* ages, the names of tasks, files that do not parse (those of no member), *)
(* drawings filed in the trash.                                            *)
(***************************************************************************)
EXTENDS Naturals, Sequences, FiniteSets

CONSTANTS
  Upload,       \* files that are imported together
  Shapes,       \* what a file may be: [zip, members]
  FolderName,   \* what drawings may be filed under
  Unfiled,      \* the name of no collection
  MaxMishaps    \* bound on requests that fail or whose answer is lost

ASSUME ImportConstants ==
  /\ \A s \in Shapes : s.members \in Seq(Seq([ok : BOOLEAN, name : FolderName]))
  /\ MaxMishaps \in Nat

VARIABLES
  way,        \* "dropped" or "chosen"
  shape,      \* shape[f]: what file f is
  at,         \* at[f]: the member and the drawing that f is at, <<0, 0>> when done
  call,       \* call[f]: f's request, [kind, stage, data]
  index,      \* index[r]: <<the collections that resolver r knows>>, or Unread
  made,       \* drawings on the server, [file, member, nth, folder]
  folders,    \* collections on the server, [name, by, nth]
  counts,     \* [success, failed], as the page counts them
  tasks,      \* tasks[f]: the status shown of a file that was dropped
  mishaps     \* [n, lost, crossed]: bound and excuses

imports == <<way, shape, at, call, index, made, folders, counts, tasks, mishaps>>

Unread == <<>>

NoRequest == [kind |-> "none", stage |-> "none", data |-> {}]

\* createCollectionResolver: one per zip, one for all the other files.
Resolver(f) == IF shape[f].zip THEN f ELSE "shared"

Member(f)  == shape[f].members[at[f][1]]
Item(f)    == Member(f)[at[f][2]]
Done(f)    == at[f] = <<0, 0>>

\* The dashboard files everything in the collection it shows.
Name(f) == IF way = "dropped" THEN Unfiled ELSE Item(f).name

\* The next drawing of the member, the next member that has one, or the end.
NextMember(f, m) ==
  LET rest == {k \in DOMAIN shape[f].members : k > m /\ shape[f].members[k] # <<>>}
  IN  IF rest = {} THEN <<0, 0>> ELSE <<CHOOSE k \in rest : \A j \in rest : k <= j, 1>>

NextItem(f) == IF at[f][2] < Len(Member(f)) THEN <<at[f][1], at[f][2] + 1>> ELSE NextMember(f, at[f][1])

ImportsInit ==
  /\ way \in {"dropped", "chosen"}
  /\ shape \in [Upload -> Shapes]
  /\ way = "dropped" => \A f \in Upload : ~ shape[f].zip /\ Len(shape[f].members) = 1 /\ Len(shape[f].members[1]) = 1
  /\ at = [f \in Upload |-> <<0, 1>>]
  /\ call = [f \in Upload |-> NoRequest]
  /\ index = [r \in Upload \cup {"shared"} |-> Unread]
  /\ made = {} /\ folders = {}
  /\ counts = [success |-> 0, failed |-> 0]
  /\ tasks = [f \in Upload |-> "pending"]
  /\ mishaps = [n |-> 0, lost |-> FALSE, crossed |-> {}]

----------------------------------------------------------------------------
(* The page's side of a file.                                              *)

Server == <<made, folders>>

\* The settings page shows no tasks.
Says(f, status) == tasks' = IF way = "dropped" THEN [tasks EXCEPT ![f] = status] ELSE tasks

\* A file without a member, or an exported JSON without a drawing, fails as a whole.
Begin(f) ==
  LET empty == shape[f].members = <<>> \/ (~ shape[f].zip /\ shape[f].members[1] = <<>>) IN
  /\ at[f] = <<0, 1>>
  /\ at' = [at EXCEPT ![f] = IF empty THEN <<0, 0>> ELSE NextMember(f, 0)]
  /\ counts' = IF empty THEN [counts EXCEPT !.failed = @ + 1] ELSE counts
  /\ Says(f, IF empty THEN "error" ELSE "processing")
  /\ UNCHANGED <<way, shape, call, index, Server, mishaps>>

Working(f) == ~ Done(f) /\ at[f] # <<0, 1>> /\ call[f] = NoRequest

\* An unreadable drawing is counted, and the next one follows; a dropped file is one drawing.
Skip(f) ==
  /\ Working(f) /\ ~ Item(f).ok
  /\ counts' = [counts EXCEPT !.failed = @ + 1]
  /\ at' = [at EXCEPT ![f] = NextItem(f)]
  /\ Says(f, "error")
  /\ UNCHANGED <<way, shape, call, index, Server, mishaps>>

Requests(f, kind, body) ==
  /\ call' = [call EXCEPT ![f] = [kind |-> kind, stage |-> "sent", data |-> body]]
  /\ UNCHANGED <<way, shape, at, index, Server, counts, mishaps>>

Entries(r) == UNION {index[r][i] : i \in DOMAIN index[r]}

Known(f) == {e \in Entries(Resolver(f)) : e.name = Name(f)}

\* getOrCreateCollectionIdByName: read the index once, look the name up, create it.
ReadIndex(f) ==
  /\ Working(f) /\ Item(f).ok /\ Name(f) # Unfiled /\ index[Resolver(f)] = Unread
  /\ Requests(f, "index", {}) /\ UNCHANGED tasks

CreateFolder(f) ==
  /\ Working(f) /\ Item(f).ok /\ Name(f) # Unfiled /\ index[Resolver(f)] # Unread /\ Known(f) = {}
  /\ Requests(f, "folder", {}) /\ UNCHANGED tasks

In(f) == IF Name(f) = Unfiled THEN {} ELSE Known(f)

PostDrawing(f) ==
  /\ Working(f) /\ Item(f).ok
  /\ Name(f) # Unfiled => Known(f) # {}
  /\ Requests(f, "drawing", In(f))
  /\ Says(f, "uploading")

----------------------------------------------------------------------------
(* The server.  A collection is identified by the drawing it was made for. *)

DrawingOf(f, folder) == [file |-> f, member |-> at[f][1], nth |-> at[f][2], folder |-> folder]

FolderOf(f) == [name |-> Name(f), by |-> f, nth |-> at[f]]

ServeImport(f) ==
  /\ call[f].stage = "sent"
  /\ folders' = IF call[f].kind = "folder" THEN folders \cup {FolderOf(f)} ELSE folders
  /\ made' = IF call[f].kind = "drawing" THEN made \cup {DrawingOf(f, call[f].data)} ELSE made
  /\ call' = [call EXCEPT ![f].stage = "served", ![f].data = IF call[f].kind = "index" THEN folders ELSE @]
  /\ UNCHANGED <<way, shape, at, index, counts, tasks, mishaps>>

----------------------------------------------------------------------------
(* Answers.                                                                *)

\* Defect: the new collection is not remembered.
ForgetFolder(f) == Entries(Resolver(f))

\* The map holds one collection of a name: the last one that was put in.
RememberFolder(f) == {e \in Entries(Resolver(f)) : e.name # Name(f)} \cup {FolderOf(f)}

\* An index that arrives after another one replaces it, with what was remembered in it since.
IndexArrives(f) ==
  /\ call[f].kind = "index" /\ call[f].stage = "served"
  /\ \E entries \in SUBSET call[f].data :
       /\ {e.name : e \in entries} = {e.name : e \in call[f].data}
       /\ \A d, e \in entries : d.name = e.name => d = e
       /\ index' = [index EXCEPT ![Resolver(f)] = <<entries>>]
  /\ mishaps' = IF index[Resolver(f)] = Unread THEN mishaps
                ELSE [mishaps EXCEPT !.crossed = @ \cup {Resolver(f)}]
  /\ call' = [call EXCEPT ![f] = NoRequest]
  /\ UNCHANGED <<way, shape, at, Server, counts, tasks>>

\* The drawing is posted into the collection that was created, whatever the index says by then.
FolderCreated(f) ==
  /\ call[f].kind = "folder" /\ call[f].stage = "served"
  /\ index' = [index EXCEPT ![Resolver(f)] = <<RememberFolder(f)>>]
  /\ mishaps' = IF Known(f) = {} THEN mishaps ELSE [mishaps EXCEPT !.crossed = @ \cup {Resolver(f)}]
  /\ call' = [call EXCEPT ![f] = [kind |-> "drawing", stage |-> "sent", data |-> {FolderOf(f)}]]
  /\ UNCHANGED <<way, shape, at, Server, counts, tasks>>

DrawingPosted(f) ==
  /\ call[f].kind = "drawing" /\ call[f].stage = "served"
  /\ counts' = [counts EXCEPT !.success = @ + 1]
  /\ at' = [at EXCEPT ![f] = NextItem(f)]
  /\ Says(f, "success")
  /\ call' = [call EXCEPT ![f] = NoRequest]
  /\ UNCHANGED <<way, shape, index, Server, mishaps>>

\* Defect: the failure ends the drawing, uncounted.
FailQuietly(f) == [counts EXCEPT !.failed = IF Len(Member(f)) > 1 THEN @ ELSE @ + 1]

CountFailure(f) == [counts EXCEPT !.failed = @ + 1]

\* Whatever the request was: one failure is counted, and the rest of the member is left out.
RequestFails(f) ==
  /\ call[f] # NoRequest /\ mishaps.n < MaxMishaps
  /\ mishaps' = [mishaps EXCEPT !.n = @ + 1, !.lost = @ \/ call[f].stage = "served"]
  /\ counts' = CountFailure(f)
  /\ at' = [at EXCEPT ![f] = NextMember(f, at[f][1])]
  /\ Says(f, "error")
  /\ call' = [call EXCEPT ![f] = NoRequest]
  /\ UNCHANGED <<way, shape, index, Server>>

ImportsNext == \E f \in Upload :
  \/ Begin(f) \/ Skip(f) \/ ReadIndex(f) \/ CreateFolder(f) \/ PostDrawing(f) \/ ServeImport(f)
  \/ IndexArrives(f) \/ FolderCreated(f) \/ DrawingPosted(f) \/ RequestFails(f)

----------------------------------------------------------------------------
(* When the import is over, what the page says adds up: without a failure  *)
(* every drawing of every file is on the server, once; no drawing is       *)
(* counted that is not there; and one that is there is counted, unless the *)
(* answer to it was lost.  A dropped file's task tells what became of it.  *)
(* (importUtils.ts:145-258, importHelpers.ts:154-223, UploadContext.tsx.)  *)
Promised(f) ==
  UNION {{[file |-> f, member |-> m, nth |-> n] : n \in DOMAIN shape[f].members[m]} : m \in DOMAIN shape[f].members}

There == {[file |-> d.file, member |-> d.member, nth |-> d.nth] : d \in made}

ImportsAddUp ==
  (\A f \in Upload : Done(f)) =>
    /\ counts.failed = 0 => There = UNION {Promised(f) : f \in Upload} /\ counts.success = Cardinality(made)
    /\ counts.success <= Cardinality(There) /\ (~ mishaps.lost => counts.success = Cardinality(There))
    /\ way = "dropped" => \A f \in Upload :
         /\ tasks[f] = "success" => Promised(f) \subseteq There
         /\ tasks[f] = "error" => mishaps.lost \/ Promised(f) \cap There = {}
         /\ tasks[f] \in {"success", "error"}

(* Drawings of one name that are filed through the same resolver land in   *)
(* the same collection, one of that name, unless two files of the import   *)
(* read the index or created a collection at the same time: looking up,    *)
(* creating and remembering are three steps (importHelpers.ts:109).        *)
FiledTogether ==
  \A d, e \in made :
    /\ Resolver(d.file) = Resolver(e.file) /\ Resolver(d.file) \notin mishaps.crossed
       /\ d.folder # {} /\ {x.name : x \in d.folder} = {x.name : x \in e.folder} => d.folder = e.folder
    /\ way = "chosen" => {x.name : x \in d.folder} = {shape[d.file].members[d.member][d.nth].name} \ {Unfiled}

ImportsKeepTheirWord == ImportsAddUp /\ FiledTogether
=============================================================================
