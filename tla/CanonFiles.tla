------------------------------ MODULE CanonFiles ------------------------------
(***************************************************************************)
(* The files of the canon and the operations on them: the three layers and *)
(* their merged view (canon/layers.ts), the editor of the page with its    *)
(* drafts and conditional writes (serve/server.ts, canon/canonWriter.ts,   *)
(* canon/draftStore.ts, serve/ui.html), fork (canon/fork.ts), bundles      *)
(* (bundle/bundle.ts, bundle/closure.ts), and whoever edits the files by   *)
(* hand meanwhile.                                                         *)
(*                                                                         *)
(* The daemon is one thread: a handler runs alone up to its await of the   *)
(* request's body and after it.  What it looked up before the await (the   *)
(* layers, the file of the pipeline, the dependants) is in the request     *)
(* when the second half runs, however old.                                 *)
(*                                                                         *)
(* Of a pipeline's text we keep what loading and copying it depend on: its *)
(* id, the pipelines it nests and what it hands them ("with"), its inputs  *)
(* and its prompt files; of a prompt's text the placeholders.  The rest of *)
(* the loader's rules is PipelineGraph's.  A hash stands for its text.     *)
(***************************************************************************)
EXTENDS Naturals, FiniteSets

CONSTANTS
  Ids,          \* pipeline ids; files are numbered, in the order of their names
  Prompts,      \* paths of prompt files
  Yamls,        \* texts of pipeline files
  Notes,        \* texts of prompt files
  Providers,    \* the file providers.yaml
  Profiles,     \* texts of providers.yaml
  Package,      \* the files of the installed package
  Bundles,      \* bundles that may be imported: what each holds for each file
  HandMade,     \* edits by hand: <<layer, file, text>>
  Typed,        \* texts a user makes of a draft
  Canons,       \* what a project's own canon may hold at the start
  Clients,      \* pages, or tabs of one page
  MaxRequests, MaxEdits,
  None,         \* no file, nothing seen, no request
  Broken        \* a text that does not parse

Files == Ids \cup Prompts \cup {Providers}
Layers == {"bundled", "user", "repo"}
Texts == Yamls \cup Notes \cup Profiles \cup {Broken}

VARIABLES
  files,        \* the text of each file of each layer
  dirs,         \* of each layer's directories: absent, only its root ("bare"), or all
  draft,        \* the draft each client has open (a row of canon_draft)
  request,      \* the request of each client whose body the daemon awaits
  seen,         \* the text each client was last shown, or wrote, of each file
  asked, edits  \* requests and edits by hand so far

vars == <<files, dirs, draft, request, seen, asked, edits>>

(***************************************************************************)
(* Texts.                                                                  *)
(***************************************************************************)
Parses(text) == text \notin {None, Broken}

(* What docToString makes of a draft: the text in the form of the YAML     *)
(* writer, which differs from the draft where the draft's form does.       *)
Written(text) == [text EXCEPT !.tidy = TRUE]

(* POST /api/pipelines: a gate and nothing else.                           *)
Skeleton(id) ==
  [id |-> id, nests |-> {}, with |-> {}, inputs |-> {}, prompts |-> {}, tidy |-> TRUE, rev |-> 0]

Pipelines ==
  [id : Ids, nests : SUBSET Ids, with : SUBSET STRING, inputs : SUBSET STRING,
   prompts : SUBSET Prompts, tidy : BOOLEAN, rev : Nat]

(* What a file may hold, and the files of a layer or of a bundle.          *)
TextsOf(f) ==
  {Broken} \cup IF f \in Ids THEN Yamls ELSE IF f \in Prompts THEN Notes ELSE Profiles

Contents == {w \in [Files -> Texts \cup {None}] : \A f \in Files : w[f] \in TextsOf(f) \cup {None}}

ASSUMPTION CanonAssumption ==
  /\ Ids \subseteq Nat /\ IsFiniteSet(Ids) /\ MaxRequests \in Nat /\ MaxEdits \in Nat
  /\ Ids \cap Prompts = {} /\ Providers \notin Ids \cup Prompts
  /\ None \notin Texts /\ None \notin Files
  /\ Broken \notin Yamls \cup Notes \cup Profiles
  /\ Yamls \subseteq Pipelines
  /\ \A y \in Yamls : Written(y) \in Yamls
  /\ \A id \in Ids : Skeleton(id) \in Yamls
  /\ Typed \subseteq Yamls \cup {Broken}
  /\ Package \in Contents /\ Canons \subseteq Contents /\ Bundles \subseteq Contents
  /\ \A e \in HandMade :
       e[1] \in {"user", "repo"} /\ e[2] \in Files /\ e[3] \in TextsOf(e[2]) \cup {None}

(***************************************************************************)
(* layers.ts.                                                              *)
(***************************************************************************)
Rank(l) == CASE l = "bundled" -> 0 [] l = "user" -> 1 [] l = "repo" -> 2

(* resolveLayers.                                                          *)
Present == {l \in Layers : dirs[l] # "absent"}

(* writeTargetLayer.                                                       *)
WriteLayer == IF "repo" \in Present THEN "repo" ELSE "bundled"

(* mergedCatalog: the files that declare the id, the last one winning: a   *)
(* later layer before an earlier one, a later name before an earlier one.  *)
Holders(view, layers, id) ==
  {p \in layers \X Ids : Parses(view[p[1]][p[2]]) /\ view[p[1]][p[2]].id = id}

Beats(p, q) == Rank(p[1]) > Rank(q[1]) \/ (p[1] = q[1] /\ p[2] > q[2])

Winner(view, layers, id) ==
  LET all == Holders(view, layers, id)
  IN  IF all = {} THEN None ELSE CHOOSE p \in all : \A q \in all \ {p} : Beats(p, q)

(* The entries of the merged view.                                         *)
Merged == [id \in Ids |-> Winner(files, Present, id)]

(***************************************************************************)
(* load.ts: which places load, when "child" tells where a nested id is.    *)
(***************************************************************************)
PromptsFit(view, p) ==
  LET text == view[p[1]][p[2]]
  IN  \A q \in text.prompts :
        LET note == view[p[1]][q] IN note \in Notes /\ note.asks \subseteq text.inputs

(* Of some places, those that wait for none but such places: a pipeline    *)
(* loads after the ones it nests; what waits for itself never does.        *)
Grounded(places, needs) ==
  LET pass[n \in 0 .. Cardinality(Ids)] ==
        IF n = 0 THEN {} ELSE {p \in places : needs[p] \subseteq pass[n - 1]}
  IN  pass[Cardinality(Ids)]

(* The places whose own text and prompts are in order, and those of them   *)
(* that nest such places and hand them no more than they take.             *)
Fit(view, places) == {p \in places : Parses(view[p[1]][p[2]]) /\ PromptsFit(view, p)}

Whole(view, places, child) ==
  LET text(p) == view[p[1]][p[2]]
      fit == Fit(view, places)
  IN  {p \in fit : \A n \in text(p).nests :
         child[n] \in fit /\ text(p).with \subseteq text(child[n]).inputs}

Loadable(view, places, child) ==
  LET whole == Whole(view, places, child)
  IN  Grounded(whole, [p \in whole |-> {child[n] : n \in view[p[1]][p[2]].nests}])

(* Without a resolver a nested id is a file beside the nesting one.        *)
LoadableBeside(view, l) == Loadable(view, {l} \X Ids, [n \in Ids |-> <<l, n>>])

(* loadCatalogPipelines: the winners, through the merged view.             *)
LoadableMerged(view, top) == Loadable(view, {top[i] : i \in Ids} \ {None}, top)

(* findPipelineById: a file of one directory that loads beside its         *)
(* siblings and declares the id.                                           *)
Found(l, id) ==
  LET loadable == LoadableBeside(files, l)
  IN  {p \in {l} \X Ids : p \in loadable /\ files[l][p[2]].id = id}

(* findDependants.                                                         *)
Dependants(l, id) ==
  {f \in Ids : Parses(files[l][f]) /\ files[l][f].id # id /\ id \in files[l][f].nests}

(***************************************************************************)
(* Types and the initial state.                                            *)
(***************************************************************************)
Places == Layers \X Ids

DraftType == [at : Places, body : Yamls \cup {Broken}, base : Yamls \cup {Broken}]

RequestType ==
  [kind : {"open", "delete"}, at : Places]
    \cup {[kind |-> "save"]}
    \cup [kind : {"prompt"}, at : Places, path : Prompts, text : Notes, match : Notes \cup {Broken}]
    \cup [kind : {"create"}, id : Ids, in : Layers]
    \cup [kind : {"fork"}, id : Ids, to : {"user", "repo"}, overwrite : BOOLEAN,
          layers : SUBSET Layers, winner : Places \cup {None}]

TypeOK ==
  /\ files \in [Layers -> Contents]
  /\ dirs \in [Layers -> {"absent", "bare", "full"}]
  /\ draft \in [Clients -> DraftType \cup {None}]
  /\ request \in [Clients -> RequestType \cup {None}]
  /\ seen \in [Clients -> Contents]
  /\ asked \in 0 .. MaxRequests /\ edits \in 0 .. MaxEdits

NoFiles == [f \in Files |-> None]

(* The package as installed, a user without workflows, a project with or   *)
(* without a canon.  Drafts outlive the daemon, and a page may have had    *)
(* one open for days.                                                      *)
Init ==
  /\ \E canon \in Canons \cup {NoFiles} :
       /\ files = [l \in Layers |-> IF l = "bundled" THEN Package
                                   ELSE IF l = "repo" THEN canon ELSE NoFiles]
       /\ dirs = [l \in Layers |-> IF l = "bundled" \/ (l = "repo" /\ canon # NoFiles)
                                     THEN "full" ELSE "absent"]
  /\ \E open \in [Clients -> {f \in Ids : files["repo"][f] # None} \cup {None}] :
       /\ draft = [c \in Clients |->
            IF open[c] = None THEN None
            ELSE [at |-> <<"repo", open[c]>>, body |-> files["repo"][open[c]],
                  base |-> files["repo"][open[c]]]]
       /\ seen = [c \in Clients |-> [f \in Files |->
            IF open[c] # None /\ f \in {open[c]} \cup files["repo"][open[c]].prompts
              THEN files["repo"][f] ELSE None]]
  /\ request = [c \in Clients |-> None]
  /\ asked = 0 /\ edits = 0

(***************************************************************************)
(* Requests.                                                               *)
(***************************************************************************)
MayAsk(c) == request[c] = None /\ asked < MaxRequests
Asks(c) == MayAsk(c) /\ asked' = asked + 1 /\ UNCHANGED edits
Sends(c, r) == Asks(c) /\ request' = [request EXCEPT ![c] = r]
Answers(c) == request' = [request EXCEPT ![c] = None] /\ UNCHANGED <<asked, edits>>

Show(c, f, text) == seen' = [seen EXCEPT ![c][f] = text]

(* Variant: the package is not told from the project's own canon.        *)
WritableLax == TRUE

(* isBundledCatalog, refuseBundled: the write layer may not be the package.*)
Writable == WriteLayer # "bundled"

(***************************************************************************)
(* Drafts.                                                                 *)
(***************************************************************************)
(* POST /api/pipelines/:id/drafts, up to the await.                        *)
OpenArrives(c, id) ==
  /\ Writable
  /\ \E p \in Found(WriteLayer, id) : Sends(c, [kind |-> "open", at |-> p])
  /\ UNCHANGED <<files, dirs, draft, seen>>

(* ... and after it: the file is read again, and indexed as a new source.  *)
OpenAnswered(c) ==
  /\ request[c] # None /\ request[c].kind = "open"
  /\ LET at == request[c].at
         text == files[at[1]][at[2]]
     IN  IF text = None THEN UNCHANGED <<draft, seen>>
         ELSE /\ draft' = [draft EXCEPT ![c] = [at |-> at, body |-> text, base |-> text]]
              /\ Show(c, at[2], text)
  /\ Answers(c)
  /\ UNCHANGED <<files, dirs>>

(* PUT /api/drafts/:draftId.                                               *)
EditDraft(c, body) ==
  /\ Writable /\ draft[c] # None /\ draft[c].body # body
  /\ draft' = [draft EXCEPT ![c].body = body]
  /\ Asks(c)
  /\ UNCHANGED <<files, dirs, seen, request>>

(* POST /api/drafts/:draftId/save.                                         *)
SaveArrives(c) ==
  /\ Writable /\ draft[c] # None
  /\ Sends(c, [kind |-> "save"])
  /\ UNCHANGED <<files, dirs, draft, seen>>

With(p, text) == [files EXCEPT ![p[1]][p[2]] = text]

(* Variant: the text on disk is validated instead of the draft.          *)
ValidOnDisk(d) == d.at \in LoadableBeside(files, d.at[1])

(* saveDraft, steps 1 to 3: the draft loads in the place of the file, and  *)
(* the file is the one the draft was opened on.                            *)
ValidDraft(d) == d.at \in LoadableBeside(With(d.at, d.body), d.at[1])

(* Variant: any file that is there is overwritten.                       *)
AnyBase(d) == files[d.at[1]][d.at[2]] # None

Unchanged(d) == files[d.at[1]][d.at[2]] = d.base

(* Variant: the hash stored after a save is the draft's.                 *)
BaseOfDraft(d) == [d EXCEPT !.base = d.body]

(* Step 5.                                                                 *)
Saved(d) == [d EXCEPT !.base = Written(d.body)]

SaveAnswered(c) ==
  /\ request[c] # None /\ request[c].kind = "save"
  /\ LET d == draft[c]
     IN  IF ValidDraft(d) /\ Unchanged(d)
         THEN /\ files' = With(d.at, Written(d.body))
              /\ draft' = [draft EXCEPT ![c] = Saved(d)]
              /\ Show(c, d.at[2], Written(d.body))
         ELSE UNCHANGED <<files, draft, seen>>
  /\ Answers(c)
  /\ UNCHANGED dirs

(***************************************************************************)
(* Prompt files and providers.yaml.                                        *)
(***************************************************************************)
(* GET /api/pipelines/:id/prompts.                                         *)
ReadPrompts(c, id) ==
  /\ Writable
  /\ \E p \in Found(WriteLayer, id) :
       LET shown == {q \in files[p[1]][p[2]].prompts : files[p[1]][q] # None}
       IN  /\ shown # {}
           /\ seen' = [seen EXCEPT ![c] =
                [f \in Files |-> IF f \in shown THEN files[p[1]][f] ELSE @[f]]]
  /\ Asks(c)
  /\ UNCHANGED <<files, dirs, draft, request>>

(* PUT /api/pipelines/:id/prompts/:stepId; a step is known by its prompt.  *)
(* The editor sends the texts that differ from those it loaded.            *)
PromptArrives(c, id, q, text) ==
  /\ Writable /\ seen[c][q] \notin {None, text}
  /\ \E p \in Found(WriteLayer, id) :
       Sends(c, [kind |-> "prompt", at |-> p, path |-> q, text |-> text, match |-> seen[c][q]])
  /\ UNCHANGED <<files, dirs, draft, seen>>

(* What is written must load with the pipeline, and replace what the       *)
(* client loaded.  The file is replaced by a rename.                       *)
PromptAnswered(c) ==
  /\ request[c] # None /\ request[c].kind = "prompt"
  /\ LET r == request[c]
         yaml == files[r.at[1]][r.at[2]]
         next == [files EXCEPT ![r.at[1]][r.path] = r.text]
     IN  IF /\ Parses(yaml) /\ r.path \in yaml.prompts
            /\ files[r.at[1]][r.path] = r.match
            /\ r.at \in LoadableBeside(next, r.at[1])
         THEN files' = next /\ Show(c, r.path, r.text)
         ELSE UNCHANGED <<files, seen>>
  /\ Answers(c)
  /\ UNCHANGED <<dirs, draft>>

(* GET /api/providers and PUT /api/providers: the file of the repository.  *)
ReadProviders(c) ==
  /\ files["repo"][Providers] # seen[c][Providers]
  /\ Show(c, Providers, files["repo"][Providers])
  /\ Asks(c)
  /\ UNCHANGED <<files, dirs, draft, request>>

PutProviders(c, text) ==
  /\ files["repo"][Providers] = seen[c][Providers]
  /\ files' = [files EXCEPT !["repo"][Providers] = text]
  /\ dirs' = [dirs EXCEPT !["repo"] = IF @ = "absent" THEN "bare" ELSE @]
  /\ Show(c, Providers, text)
  /\ Asks(c)
  /\ UNCHANGED <<draft, request>>

(***************************************************************************)
(* Pipelines.                                                              *)
(***************************************************************************)
(* POST /api/pipelines: the layer is the one of the request's arrival.     *)
CreateArrives(c, id) ==
  /\ Sends(c, [kind |-> "create", id |-> id, in |-> WriteLayer])
  /\ UNCHANGED <<files, dirs, draft, seen>>

CreateAnswered(c) ==
  /\ request[c] # None /\ request[c].kind = "create"
  /\ LET r == request[c]
     IN  files' = IF r.in # "bundled" /\ dirs[r.in] = "full" /\ files[r.in][r.id] = None
                    THEN With(<<r.in, r.id>>, Skeleton(r.id)) ELSE files
  /\ Answers(c)
  /\ UNCHANGED <<dirs, draft, seen>>

(* DELETE /api/pipelines/:id: the dependants are looked for before the     *)
(* await, the file is removed after it.                                    *)
DeleteArrives(c, id) ==
  /\ Writable /\ Dependants(WriteLayer, id) = {}
  /\ \E p \in Found(WriteLayer, id) : Sends(c, [kind |-> "delete", at |-> p])
  /\ UNCHANGED <<files, dirs, draft, seen>>

DeleteAnswered(c) ==
  /\ request[c] # None /\ request[c].kind = "delete"
  /\ files' = With(request[c].at, None)
  /\ Answers(c)
  /\ UNCHANGED <<dirs, draft, seen>>

(***************************************************************************)
(* Fork.                                                                   *)
(***************************************************************************)
(* resolveForkTarget for the route, which names no default here: a target  *)
(* that is given, or the repository's canon if there is one.               *)
ForkArrives(c, id, to, overwrite) ==
  /\ Sends(c, [kind |-> "fork", id |-> id, to |-> to, overwrite |-> overwrite,
               layers |-> Present, winner |-> Winner(files, Present, id)])
  /\ UNCHANGED <<files, dirs, draft, seen>>

(* sourceEntry: the winner, unless it is in the target already; then the   *)
(* winner among the other layers.                                          *)
ForkSource(r) ==
  IF r.winner # None /\ r.winner[1] # r.to THEN r.winner
  ELSE Winner(files, r.layers \ {r.to}, r.id)

(* forkPipeline: the pipeline's text and its own prompts, never what it    *)
(* nests.                                                                  *)
Forked(r, from) ==
  LET text == files[from[1]][from[2]]
      copied(q) ==
        q \in text.prompts /\ files[from[1]][q] # None /\ (files[r.to][q] = None \/ r.overwrite)
  IN  [files EXCEPT ![r.to] =
         [f \in Files |->
            IF f = r.id THEN text
            ELSE IF f \in Prompts /\ copied(f) THEN files[from[1]][f] ELSE @[f]]]

ForkAnswered(c) ==
  /\ request[c] # None /\ request[c].kind = "fork"
  /\ LET r == request[c]
         from == ForkSource(r)
     IN  IF /\ from # None
            /\ files[r.to][r.id] = None \/ r.overwrite
            /\ Parses(files[from[1]][from[2]])
         THEN /\ files' = Forked(r, from)
              /\ dirs' = [dirs EXCEPT ![r.to] = "full"]
         ELSE UNCHANGED <<files, dirs>>
  /\ Answers(c)
  /\ UNCHANGED <<draft, seen>>

(***************************************************************************)
(* Bundles.                                                                *)
(***************************************************************************)
(* computeClosure, with the merged view as the resolver: the pipelines     *)
(* that are reached.                                                       *)
Closure(top, root) ==
  LET more(ids) == ids \cup UNION {files[top[i][1]][top[i][2]].nests : i \in {j \in ids : top[j] # None}}
      pass[n \in 0 .. Cardinality(Ids)] == IF n = 0 THEN {root} ELSE more(pass[n - 1])
  IN  pass[Cardinality(Ids)]

(* Variant: a prompt is read beside whatever pipeline is at hand.          *)
NotesBesideAny(top, q, ids) == {files[top[i][1]][q] : i \in ids}

(* The texts of one prompt path in the layers of the pipelines that name   *)
(* it.  computeClosure keeps the one it visits first; it follows the steps *)
(* in their order and a nested pipeline before the steps behind it, so     *)
(* with the order of steps left out that may be any of them.               *)
NotesFor(top, q, ids) ==
  {files[top[i][1]][q] : i \in {j \in ids : q \in files[top[j][1]][top[j][2]].prompts}}

(* exportBundle: the bundles that may result.  Every file that is named    *)
(* must be there; providers.yaml travels along if there is one.            *)
Exported(top, root) ==
  LET ids == Closure(top, root)
      text(i) == files[top[i][1]][top[i][2]]
      named == UNION {text(i).prompts : i \in ids}
      choices == {n \in [named -> Notes \cup {Broken}] : \A q \in named : n[q] \in NotesFor(top, q, ids)}
  IN  IF \E i \in ids : top[i] = None THEN {}
      ELSE {[f \in Files |->
               IF f \in ids THEN text(f)
               ELSE IF f \in named THEN n[f]
               ELSE IF f = Providers THEN files[top[root][1]][f] ELSE None] : n \in choices}

(* What loads of a bundle that is unpacked by itself.                      *)
LoadableAlone(b) ==
  LoadableBeside([l \in Layers |-> IF l = "repo" THEN b ELSE NoFiles], "repo")

(* importBundle, phases 1 and 2.                                           *)
Importable(b) ==
  /\ {<<"repo", f>> : f \in {i \in Ids : b[i] # None}} \subseteq LoadableAlone(b)
  /\ b[Providers] # Broken

(* POST /api/import: everything is checked, then each file is written      *)
(* unless it is there and may not be replaced.                             *)
Import(c, b, to, overwrite) ==
  /\ Importable(b)
  /\ files' = [files EXCEPT ![to] =
       [f \in Files |-> IF b[f] # None /\ (@[f] = None \/ overwrite) THEN b[f] ELSE @[f]]]
  /\ dirs' = [dirs EXCEPT ![to] = "full"]
  /\ Asks(c)
  /\ UNCHANGED <<draft, seen, request>>

(* An editor outside, git, or another process.                             *)
EditByHand(l, f, text) ==
  /\ edits < MaxEdits /\ files[l][f] # text
  /\ text # None \/ files[l][f] # None
  /\ files' = [files EXCEPT ![l][f] = text]
  /\ dirs' = [dirs EXCEPT ![l] = "full"]
  /\ edits' = edits + 1
  /\ UNCHANGED <<draft, request, seen, asked>>

Next ==
  \/ \E c \in Clients :
       \/ \E id \in Ids :
            \/ OpenArrives(c, id) \/ CreateArrives(c, id) \/ DeleteArrives(c, id)
            \/ ReadPrompts(c, id)
            \/ \E q \in Prompts, text \in Notes : PromptArrives(c, id, q, text)
            \/ \E to \in {"user", "repo"}, over \in BOOLEAN : ForkArrives(c, id, to, over)
       \/ \E body \in Typed : EditDraft(c, body)
       \/ SaveArrives(c)
       \/ OpenAnswered(c) \/ SaveAnswered(c) \/ PromptAnswered(c) \/ CreateAnswered(c)
       \/ DeleteAnswered(c) \/ ForkAnswered(c)
       \/ ReadProviders(c) \/ \E text \in Profiles : PutProviders(c, text)
       \/ \E b \in Bundles, to \in {"user", "repo"}, over \in BOOLEAN : Import(c, b, to, over)
  \/ \E e \in HandMade : EditByHand(e[1], e[2], e[3])

Spec == Init /\ [][Next]_vars

(***************************************************************************)
(* Properties.                                                             *)
(***************************************************************************)
(* No operation of the daemon writes into the installed package, though    *)
(* the write layer of a project without a canon is the package and a canon *)
(* can appear between a request and its answer, or between a draft and its *)
(* save (assertWritableRoot, isBundledCatalog).                            *)
PackageIntact == files["bundled"] = Package

WritesOfThePage(c) == SaveAnswered(c) \/ PromptAnswered(c) \/ \E text \in Profiles : PutProviders(c, text)

(* A save of one page never replaces a text that its user has not seen:    *)
(* what another page, an import, a fork or an editor outside wrote since   *)
(* the draft was opened makes the save fail (saveDraft, PUT prompts,       *)
(* PUT providers).                                                         *)
NothingUnseenIsLost ==
  [][\A c \in Clients : WritesOfThePage(c) =>
       \A f \in Files : files'["repo"][f] # files["repo"][f] => files["repo"][f] = seen[c][f]]_vars

(* And it fails for no other reason: as long as the file is what its user  *)
(* saw last, saves included, a draft does not conflict (saveDraft, step    *)
(* 5: "so the next save is not a false conflict").                         *)
ConflictsAreReal ==
  \A c \in Clients : draft[c] # None =>
    (files[draft[c].at[1]][draft[c].at[2]] = seen[c][draft[c].at[2]] => Unchanged(draft[c]))

(* What the page writes loads: after a save of a draft or of a prompt the  *)
(* edited pipeline loads from the files on disk, whatever changed while    *)
(* the draft was open.                                                     *)
EditsKeepLoading ==
  [][\A c \in Clients :
       /\ SaveAnswered(c) /\ files' # files => draft[c].at \in LoadableBeside(files', draft[c].at[1])
       /\ PromptAnswered(c) /\ files' # files => request[c].at \in LoadableBeside(files', request[c].at[1])]_vars

(* A bundle means what its pipeline means here: what loads through the     *)
(* merged view is exported to a bundle that loads by itself and holds, for *)
(* every pipeline in it, the prompts that pipeline runs with here, unless  *)
(* two of its pipelines name one prompt path in two layers.  The           *)
(* providers.yaml that travels along must parse, or no import takes it     *)
(* (exportBundle, computeClosure, importBundle).                           *)
BundleIsFaithful ==
  LET top == Merged
      loadable == LoadableMerged(files, top)
  IN  \A id \in Ids : top[id] \in loadable /\ files[top[id][1]][Providers] # Broken =>
        LET ids == Closure(top, id)
            named(i) == files[top[i][1]][top[i][2]].prompts
            shared == \E i, j \in ids : top[i][1] # top[j][1] /\ named(i) \cap named(j) # {}
            bundles == Exported(top, id)
        IN  shared \/ (/\ bundles # {}
                       /\ \A b \in bundles :
                            /\ Importable(b)
                            /\ \A i \in ids : \A q \in named(i) : b[q] = files[top[i][1]][q])

(* README.md: Edit on a workflow the project cannot write forks it into a  *)
(* writable layer and edits the copy.  So a workflow of the write layer    *)
(* that loads in the merged view, from which a fork may have mounted its   *)
(* children, must be one the editor's routes find.                         *)
EditorFindsWhatRuns ==
  \A id \in Ids : LET p == Merged[id] IN
    Writable /\ p \in LoadableMerged(files, Merged) /\ p[1] = WriteLayer => Found(WriteLayer, id) # {}
=============================================================================
