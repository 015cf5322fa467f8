--------------------------- MODULE CanonFilesProofs ---------------------------
(***************************************************************************)
(* Theorems about CanonFiles: the installed package is never written, the  *)
(* types, what a save may replace and what it leaves behind, and what a    *)
(* bundle means.                                                           *)
(*                                                                         *)
(* The loader and the closure are passes, each from the one before, until  *)
(* there have been as many as pipelines; what the passes end with is       *)
(* proved by induction over their number, and the induction itself from    *)
(* the least element of a finite set, which the library's theorem on       *)
(* proper subsets of a finite set gives.                                   *)
(***************************************************************************)
EXTENDS CanonFiles, FiniteSetTheorems, WellFoundedInduction, TLAPS

(***************************************************************************)
(* The installed package.  The routes ask whether the write layer is the   *)
(* package when a request arrives, and write later, through the request or *)
(* the draft that remembers a place; so the strengthening says that no     *)
(* request under way and no draft remembers a place in the package,        *)
(* whatever the write layer is by now.                                     *)
(***************************************************************************)
Domains == DOMAIN files = Layers /\ DOMAIN draft = Clients /\ DOMAIN request = Clients

Saving(c) == request[c] # None /\ request[c].kind = "save"

DraftsAreOurs ==
  \A c \in Clients : draft[c] # None \/ Saving(c) =>
    "at" \in DOMAIN draft[c] /\ draft[c].at[1] # "bundled"

RequestsAreOurs ==
  \A c \in Clients : request[c] # None =>
    /\ request[c].kind \in {"open", "prompt", "delete"} => request[c].at[1] # "bundled"
    /\ request[c].kind = "fork" => request[c].to # "bundled"

IInv == Domains /\ PackageIntact /\ DraftsAreOurs /\ RequestsAreOurs

LEMMA InitIInv == Init => IInv
<1> SUFFICES ASSUME Init PROVE IInv
  OBVIOUS
<1>1. PICK canon \in Canons \cup {NoFiles} :
        files = [l \in Layers |-> IF l = "bundled" THEN Package ELSE IF l = "repo" THEN canon ELSE NoFiles]
  BY DEF Init
<1>2. PICK open \in [Clients -> {f \in Ids : files["repo"][f] # None} \cup {None}] :
        draft = [c \in Clients |->
          IF open[c] = None THEN None
          ELSE [at |-> <<"repo", open[c]>>, body |-> files["repo"][open[c]],
                base |-> files["repo"][open[c]]]]
  BY DEF Init
<1>3. request = [c \in Clients |-> None]
  BY DEF Init
<1>4. Domains /\ PackageIntact
  BY <1>1, <1>2, <1>3 DEF Domains, PackageIntact, Layers
<1>5. DraftsAreOurs
  BY <1>2, <1>3 DEF DraftsAreOurs, Saving
<1>6. RequestsAreOurs
  BY <1>3 DEF RequestsAreOurs
<1> QED
  BY <1>4, <1>5, <1>6 DEF IInv

(* A step that changes one place outside the package leaves the package.   *)
LEMMA WithElsewhere ==
  ASSUME Domains, NEW p, NEW text, p[1] # "bundled"
  PROVE  /\ DOMAIN With(p, text) = Layers
         /\ With(p, text)["bundled"] = files["bundled"]
  BY DEF With, Domains, Layers

(* An answer keeps the requests ours.                                      *)
LEMMA AnswerKeeps ==
  ASSUME IInv, NEW c \in Clients, Answers(c)
  PROVE  /\ RequestsAreOurs' /\ DOMAIN request' = Clients
         /\ ~Saving(c)' /\ \A d \in Clients \ {c} : Saving(d)' <=> Saving(d)
  BY DEF IInv, Answers, RequestsAreOurs, Domains, Saving

(* So does a request that remembers no place of the package.               *)
LEMMA SendKeeps ==
  ASSUME IInv, NEW c \in Clients, NEW r, Sends(c, r), UNCHANGED <<files, draft>>,
         r.kind \in {"open", "prompt", "delete"} => r.at[1] # "bundled",
         r.kind = "fork" => r.to # "bundled",
         r.kind = "save" => draft[c] # None
  PROVE  IInv'
<1>1. request' = [request EXCEPT ![c] = r]
  BY DEF Sends
<1>2. RequestsAreOurs'
  BY <1>1 DEF IInv, RequestsAreOurs, Domains
<1>3. Domains' /\ PackageIntact' /\ DraftsAreOurs'
  BY <1>1 DEF IInv, Domains, PackageIntact, DraftsAreOurs, Saving
<1> QED
  BY <1>2, <1>3 DEF IInv

LEMMA FoundHere ==
  ASSUME NEW l, NEW id, NEW p \in Found(l, id) PROVE p[1] = l
  BY DEF Found

(* Every step keeps the strengthening.                                     *)
LEMMA StepIInv == IInv /\ [Next]_vars => IInv'
<1> SUFFICES ASSUME IInv, [Next]_vars PROVE IInv'
  OBVIOUS
<1>dom. Domains /\ PackageIntact /\ DraftsAreOurs /\ RequestsAreOurs
  BY DEF IInv
<1>1. ASSUME NEW c \in Clients, NEW id \in Ids, OpenArrives(c, id) PROVE IInv'
  <2>1. PICK p \in Found(WriteLayer, id) : Sends(c, [kind |-> "open", at |-> p])
    BY <1>1 DEF OpenArrives
  <2>2. p[1] # "bundled"
    BY <2>1, FoundHere, <1>1 DEF OpenArrives, Writable
  <2> QED
    BY <2>1, <2>2, <1>1, SendKeeps DEF OpenArrives
<1>2. ASSUME NEW c \in Clients, NEW id \in Ids, CreateArrives(c, id) PROVE IInv'
  BY <1>2, SendKeeps DEF CreateArrives
<1>3. ASSUME NEW c \in Clients, NEW id \in Ids, DeleteArrives(c, id) PROVE IInv'
  <2>1. PICK p \in Found(WriteLayer, id) : Sends(c, [kind |-> "delete", at |-> p])
    BY <1>3 DEF DeleteArrives
  <2>2. p[1] # "bundled"
    BY <2>1, FoundHere, <1>3 DEF DeleteArrives, Writable
  <2> QED
    BY <2>1, <2>2, <1>3, SendKeeps DEF DeleteArrives
<1>4. ASSUME NEW c \in Clients, UNCHANGED <<files, draft, request>> PROVE IInv'
  BY <1>dom, <1>4 DEF IInv, Domains, PackageIntact, DraftsAreOurs, RequestsAreOurs, Saving
<1>5. ASSUME NEW c \in Clients, NEW id \in Ids, NEW q \in Prompts, NEW text \in Notes,
             PromptArrives(c, id, q, text)
      PROVE IInv'
  <2>1. PICK p \in Found(WriteLayer, id) :
          Sends(c, [kind |-> "prompt", at |-> p, path |-> q, text |-> text, match |-> seen[c][q]])
    BY <1>5 DEF PromptArrives
  <2>2. p[1] # "bundled"
    BY <2>1, FoundHere, <1>5 DEF PromptArrives, Writable
  <2> QED
    BY <2>1, <2>2, <1>5, SendKeeps DEF PromptArrives
<1>6. ASSUME NEW c \in Clients, NEW id \in Ids, NEW to \in {"user", "repo"}, NEW over \in BOOLEAN,
             ForkArrives(c, id, to, over)
      PROVE IInv'
  BY <1>6, SendKeeps DEF ForkArrives
<1>7. ASSUME NEW c \in Clients, NEW body \in Typed, EditDraft(c, body) PROVE IInv'
  <2>1. draft' = [draft EXCEPT ![c].body = body] /\ draft[c] # None /\ UNCHANGED <<files, request>>
    BY <1>7 DEF EditDraft
  <2>2. DraftsAreOurs'
    BY <2>1, <1>dom DEF DraftsAreOurs, Domains, Saving
  <2> QED
    BY <1>dom, <2>1, <2>2 DEF IInv, Domains, PackageIntact, RequestsAreOurs
<1>8. ASSUME NEW c \in Clients, SaveArrives(c) PROVE IInv'
  BY <1>8, SendKeeps DEF SaveArrives
<1>9. ASSUME NEW c \in Clients, Answers(c), UNCHANGED draft,
             DOMAIN files' = Layers, files'["bundled"] = files["bundled"]
      PROVE IInv'
  <2>1. DraftsAreOurs'
    BY <1>9, <1>dom, AnswerKeeps DEF DraftsAreOurs
  <2> QED
    BY <1>9, <2>1, <1>dom, AnswerKeeps DEF IInv, Domains, PackageIntact
<1>10. ASSUME NEW c \in Clients, OpenAnswered(c) PROVE IInv'
  <2>1. CASE UNCHANGED draft
    BY <2>1, <1>9, <1>10, <1>dom DEF OpenAnswered, Domains
  <2>2. CASE draft' = [draft EXCEPT ![c] =
               [at |-> request[c].at, body |-> files[request[c].at[1]][request[c].at[2]],
                base |-> files[request[c].at[1]][request[c].at[2]]]]
    <3>1. request[c].at[1] # "bundled" /\ UNCHANGED files /\ Answers(c)
      BY <1>10, <1>dom DEF OpenAnswered, RequestsAreOurs
    <3>2. DraftsAreOurs'
      BY <2>2, <3>1, <1>dom, AnswerKeeps DEF DraftsAreOurs, Domains
    <3> QED
      BY <2>2, <3>1, <3>2, <1>dom, AnswerKeeps DEF IInv, Domains, PackageIntact
  <2> QED
    BY <1>10, <2>1, <2>2 DEF OpenAnswered
<1>11. ASSUME NEW c \in Clients, SaveAnswered(c) PROVE IInv'
  <2>1. draft[c].at[1] # "bundled" /\ "at" \in DOMAIN draft[c] /\ Answers(c)
    BY <1>11, <1>dom DEF SaveAnswered, DraftsAreOurs, Saving
  <2>2. CASE UNCHANGED <<files, draft>>
    BY <2>1, <2>2, <1>9, <1>dom DEF Domains
  <2>3. CASE /\ files' = With(draft[c].at, Written(draft[c].body))
             /\ draft' = [draft EXCEPT ![c] = Saved(draft[c])]
    <3>1. DOMAIN files' = Layers /\ files'["bundled"] = files["bundled"]
      BY <2>1, <2>3, <1>dom, WithElsewhere
    <3>2. DraftsAreOurs'
      BY <2>1, <2>3, <1>dom, AnswerKeeps DEF DraftsAreOurs, Domains, Saved
    <3> QED
      BY <2>1, <2>3, <3>1, <3>2, <1>dom, AnswerKeeps DEF IInv, Domains, PackageIntact
  <2> QED
    BY <1>11, <2>2, <2>3 DEF SaveAnswered
<1>12. ASSUME NEW c \in Clients, PromptAnswered(c) PROVE IInv'
  <2>1. request[c].at[1] # "bundled" /\ Answers(c) /\ UNCHANGED draft
    <3>1. /\ request[c] # None /\ request[c].kind = "prompt" /\ RequestsAreOurs
          /\ Answers(c) /\ UNCHANGED draft
      BY <1>12, <1>dom DEF PromptAnswered
    <3> QED
      BY <3>1 DEF RequestsAreOurs
  <2>2. files' = files \/ files' = [files EXCEPT ![request[c].at[1]][request[c].path] = request[c].text]
    BY <1>12 DEF PromptAnswered
  <2> QED
    BY <2>1, <2>2, <1>9, <1>dom DEF Domains, Layers
<1>13. ASSUME NEW c \in Clients, CreateAnswered(c) PROVE IInv'
  <2>1. \/ files' = files
        \/ /\ request[c].in # "bundled"
           /\ files' = With(<<request[c].in, request[c].id>>, Skeleton(request[c].id))
    BY <1>13 DEF CreateAnswered
  <2> QED
    BY <2>1, <1>13, <1>9, <1>dom DEF CreateAnswered, Domains, Layers, With
<1>14. ASSUME NEW c \in Clients, DeleteAnswered(c) PROVE IInv'
  <2>1. request[c].at[1] # "bundled"
    <3>1. request[c] # None /\ request[c].kind = "delete" /\ RequestsAreOurs
      BY <1>14, <1>dom DEF DeleteAnswered
    <3> QED
      BY <3>1 DEF RequestsAreOurs
  <2> QED
    BY <2>1, <1>14, <1>9, <1>dom, WithElsewhere DEF DeleteAnswered
<1>15. ASSUME NEW c \in Clients, ForkAnswered(c) PROVE IInv'
  <2>1. request[c].to # "bundled"
    BY <1>15, <1>dom DEF ForkAnswered, RequestsAreOurs
  <2>2. files' = files \/ files' = Forked(request[c], ForkSource(request[c]))
    BY <1>15 DEF ForkAnswered
  <2>3. DOMAIN files' = Layers /\ files'["bundled"] = files["bundled"]
    BY <2>1, <2>2, <1>dom DEF Forked, Domains, Layers
  <2> QED
    BY <2>3, <1>15, <1>9 DEF ForkAnswered
<1>16. ASSUME DOMAIN files' = Layers, files'["bundled"] = files["bundled"], UNCHANGED <<draft, request>>
       PROVE IInv'
  BY <1>dom, <1>16 DEF IInv, Domains, PackageIntact, DraftsAreOurs, RequestsAreOurs, Saving
<1>17. ASSUME NEW c \in Clients, NEW text \in Profiles, PutProviders(c, text) PROVE IInv'
  BY <1>16, <1>17, <1>dom DEF PutProviders, Domains, Layers
<1>18. ASSUME NEW c \in Clients, NEW b \in Bundles, NEW to \in {"user", "repo"}, NEW over \in BOOLEAN,
              Import(c, b, to, over)
       PROVE IInv'
  BY <1>16, <1>18, <1>dom DEF Import, Domains, Layers
<1>19. ASSUME NEW e \in HandMade, EditByHand(e[1], e[2], e[3]) PROVE IInv'
  <2>1. e[1] # "bundled"
    BY CanonAssumption DEF CanonAssumption
  <2> QED
    BY <2>1, <1>16, <1>19, <1>dom DEF EditByHand, Domains, Layers
<1>20. ASSUME NEW c \in Clients, (\E id \in Ids : ReadPrompts(c, id)) \/ ReadProviders(c) PROVE IInv'
  BY <1>4, <1>20 DEF ReadPrompts, ReadProviders
<1>21. ASSUME UNCHANGED vars PROVE IInv'
  BY <1>16, <1>21, <1>dom DEF vars, Domains
<1> QED
  BY <1>1, <1>2, <1>3, <1>5, <1>6, <1>7, <1>8, <1>10, <1>11, <1>12, <1>13, <1>14, <1>15, <1>17,
     <1>18, <1>19, <1>20, <1>21 DEF Next

(* For every package, every set of files, texts, bundles and pages: no     *)
(* step of the daemon, and no edit by hand of the layers that are a        *)
(* user's, writes into the installed package.                              *)
THEOREM PackageIsNeverWritten == Spec => []PackageIntact
<1>1. IInv => PackageIntact
  BY DEF IInv
<1> QED
  BY InitIInv, StepIInv, <1>1, PTL DEF Spec

(***************************************************************************)
(* Induction.  Of finitely many sets some contain no other of them; over   *)
(* initial intervals this is induction up to a bound, and over sets of     *)
(* numbers it yields a greatest one.                                       *)
(***************************************************************************)
Minimal(X, T) == \A Y \in T : Y \subseteq X => Y = X

LEMMA MinimalSubset ==
  \A S, T : IsFiniteSet(S) /\ T \subseteq SUBSET S /\ T # {} =>
              \E X \in T : Minimal(X, T)
<1> SUFFICES ASSUME NEW S, NEW T, IsFiniteSet(S), T \subseteq SUBSET S, T # {}
             PROVE  \E X \in T : Minimal(X, T)
  OBVIOUS
<1>1. IsWellFoundedOn(StrictSubsetOrdering(S), SUBSET S)
  BY FS_StrictSubsetOrderingWellFounded, FS_FiniteSubsetsOfFinite
<1>2. PICK X \in T : \A Y \in T : <<Y, X>> \notin StrictSubsetOrdering(S)
  BY <1>1, WFMin
<1> QED
  BY <1>2 DEF StrictSubsetOrdering, Minimal

LEMMA BoundedInduction ==
  ASSUME NEW N \in Nat, NEW G, 0 \in G,
         \A n \in 0 .. N : n < N /\ n \in G => n + 1 \in G
  PROVE  0 .. N \subseteq G
<1> SUFFICES ASSUME NEW k \in 0 .. N, k \notin G PROVE FALSE
  OBVIOUS
<1> DEFINE bad == {n \in 0 .. N : n \notin G}
           Upto(n) == 0 .. n
           down == {Upto(n) : n \in bad}
<1>1. IsFiniteSet(0 .. N)
  BY FS_Interval
<1>2. down \subseteq SUBSET (0 .. N)
  <2> SUFFICES ASSUME NEW n \in 0 .. N PROVE 0 .. n \subseteq 0 .. N
    OBVIOUS
  <2> QED
    OBVIOUS
<1>3. down # {}
  <2>1. Upto(k) \in down
    OBVIOUS
  <2> QED
    BY <2>1
<1> HIDE DEF down
<1>4. PICK X \in down : Minimal(X, down)
  BY <1>1, <1>2, <1>3, MinimalSubset, Zenon
<1>5. PICK m \in bad : X = Upto(m)
  BY <1>4 DEF down
<1>6. m \in 0 .. N /\ m \notin G /\ m # 0
  BY <1>5
<1>7. m - 1 \in 0 .. N /\ m - 1 < N /\ (m - 1) + 1 = m
  BY <1>6
<1>8. m - 1 \in bad
  BY <1>6, <1>7
<1>9. Upto(m - 1) \in down
  BY <1>8 DEF down
<1>10. Upto(m - 1) \subseteq Upto(m) /\ m \in Upto(m) /\ m \notin Upto(m - 1)
  BY <1>6
<1> QED
  BY <1>4, <1>5, <1>9, <1>10 DEF Minimal

LEMMA GreatestExists ==
  ASSUME NEW S \in SUBSET Nat, IsFiniteSet(S), NEW T \in SUBSET S, T # {}
  PROVE  \E m \in T : \A k \in T : k <= m
<1> DEFINE bad == {X \in SUBSET S : X # {} /\ \A m \in X : \E k \in X : ~ (k <= m)}
<1> SUFFICES ASSUME bad # {} PROVE FALSE
  OBVIOUS
<1>1. bad \subseteq SUBSET S
  OBVIOUS
<1> HIDE DEF bad
<1>2. PICK X \in bad : Minimal(X, bad)
  BY <1>1, MinimalSubset, Zenon
<1>3. X \in SUBSET S /\ X # {} /\ \A m \in X : \E k \in X : ~ (k <= m)
  BY <1>2 DEF bad
<1>4. PICK x \in X : TRUE
  BY <1>3
<1>5. X \ {x} \notin bad
  BY <1>2, <1>4 DEF Minimal
<1>6. PICK y \in X : ~ (y <= x)
  BY <1>3, <1>4
<1>7. x \in Nat /\ y \in Nat /\ y > x
  BY <1>3, <1>4, <1>6
<1>8. y \in X \ {x}
  BY <1>6, <1>7
<1>9. PICK m \in X \ {x} : \A k \in X \ {x} : k <= m
  BY <1>3, <1>5, <1>8 DEF bad
<1>10. m \in Nat /\ x <= m
  BY <1>3, <1>7, <1>8, <1>9
<1>11. \A k \in X : k <= m
  BY <1>9, <1>10
<1> QED
  BY <1>3, <1>9, <1>11

(***************************************************************************)
(* Iteration.  A recursive function over an initial interval exists, so    *)
(* the passes of the loader and of the closure satisfy their equations.    *)
(***************************************************************************)
Iterates(m, S, F, a, g) ==
  /\ g \in [0 .. m -> SUBSET S] /\ g[0] = a
  /\ \A n \in 1 .. m : g[n] = F[g[n - 1]]

LEMMA IterationExists ==
  ASSUME NEW N \in Nat, NEW S, NEW F \in [SUBSET S -> SUBSET S], NEW a \in SUBSET S
  PROVE  \E g : Iterates(N, S, F, a, g)
<1> DEFINE G == {m \in 0 .. N : \E g : Iterates(m, S, F, a, g)}
<1>1. 0 \in G
  <2>1. Iterates(0, S, F, a, [n \in 0 .. 0 |-> a])
    BY DEF Iterates
  <2> QED
    BY <2>1
<1>2. ASSUME NEW m \in 0 .. N, m < N, m \in G PROVE m + 1 \in G
  <2>1. PICK g : Iterates(m, S, F, a, g)
    BY <1>2
  <2> DEFINE h == [n \in 0 .. (m + 1) |-> IF n = m + 1 THEN F[g[m]] ELSE g[n]]
  <2>2. h \in [0 .. (m + 1) -> SUBSET S] /\ h[0] = a
    BY <2>1 DEF Iterates
  <2>3. ASSUME NEW n \in 1 .. (m + 1) PROVE h[n] = F[h[n - 1]]
    <3>1. CASE n = m + 1
      BY <2>1, <3>1 DEF Iterates
    <3>2. CASE n # m + 1
      <4>1. n \in 1 .. m /\ n - 1 \in 0 .. m /\ n \in 0 .. (m + 1)
        BY <3>2
      <4>2. h[n] = g[n] /\ h[n - 1] = g[n - 1]
        BY <4>1
      <4> QED
        BY <2>1, <4>1, <4>2 DEF Iterates
    <3> QED
      BY <3>1, <3>2
  <2>4. Iterates(m + 1, S, F, a, h)
    BY <2>2, <2>3 DEF Iterates
  <2>5. m + 1 \in 0 .. N
    BY <1>2
  <2> QED
    BY <2>4, <2>5
<1> HIDE DEF G
<1>3. N \in G
  BY <1>1, <1>2, BoundedInduction
<1> QED
  BY <1>3 DEF G

(* The passes of Grounded.                                                 *)
ArePasses(places, needs, pass) ==
  /\ pass \in [0 .. Cardinality(Ids) -> SUBSET places]
  /\ Grounded(places, needs) = pass[Cardinality(Ids)]
  /\ pass[0] = {}
  /\ \A n \in 1 .. Cardinality(Ids) : pass[n] = {p \in places : needs[p] \subseteq pass[n - 1]}

LEMMA PassesLemma ==
  ASSUME NEW places, NEW needs
  PROVE  \E pass : ArePasses(places, needs, pass)
<1> DEFINE N == Cardinality(Ids)
           After(done) == {p \in places : needs[p] \subseteq done}
           F == [done \in SUBSET places |-> After(done)]
           pass[n \in 0 .. N] == IF n = 0 THEN {} ELSE After(pass[n - 1])
<1>1. N \in Nat
  BY FS_CardinalityType, CanonAssumption DEF CanonAssumption
<1>2. F \in [SUBSET places -> SUBSET places]
  OBVIOUS
<1>3. Grounded(places, needs) = pass[N]
  BY DEF Grounded
<1> HIDE DEF N, F
<1>4. PICK g : Iterates(N, places, F, {}, g)
  <2>1. {} \in SUBSET places
    OBVIOUS
  <2> QED
    BY <1>1, <1>2, <2>1, IterationExists
<1>5. \A n \in 0 .. N : g[n] = IF n = 0 THEN {} ELSE After(g[n - 1])
  <2> SUFFICES ASSUME NEW n \in 0 .. N, n # 0 PROVE g[n] = After(g[n - 1])
    BY <1>4 DEF Iterates
  <2>1. n - 1 \in 0 .. N /\ n \in 1 .. N
    BY <1>1
  <2> QED
    BY <1>4, <2>1 DEF F, Iterates
<1>6. g = [n \in 0 .. N |-> IF n = 0 THEN {} ELSE After(g[n - 1])]
  BY <1>4, <1>5 DEF Iterates
<1>7. pass = [n \in 0 .. N |-> IF n = 0 THEN {} ELSE After(pass[n - 1])]
  BY <1>6
<1> HIDE DEF pass
<1>8. \A n \in 0 .. N : pass[n] \in SUBSET places
  BY <1>7
<1>9. pass \in [0 .. N -> SUBSET places]
  BY <1>7, <1>8
<1>10. \A n \in 0 .. N : pass[n] = IF n = 0 THEN {} ELSE After(pass[n - 1])
  BY <1>7
<1>11. pass[0] = {} /\ \A n \in 1 .. N : pass[n] = After(pass[n - 1])
  <2>1. 0 \in 0 .. N /\ \A n \in 1 .. N : n \in 0 .. N /\ n # 0
    BY <1>1
  <2> QED
    BY <1>10, <2>1
<1>12. ArePasses(places, needs, pass)
  BY <1>3, <1>9, <1>11 DEF N, ArePasses
<1> QED
  BY <1>12

LEMMA GroundedLemma ==
  ASSUME NEW places, NEW needs
  PROVE  Grounded(places, needs) \subseteq places
<1>1. Cardinality(Ids) \in Nat
  BY FS_CardinalityType, CanonAssumption DEF CanonAssumption
<1>2. PICK pass : ArePasses(places, needs, pass)
  BY PassesLemma
<1> QED
  BY <1>1, <1>2 DEF ArePasses

(***************************************************************************)
(* Types.                                                                  *)
(***************************************************************************)
LEMMA ConstantsLemma ==
  /\ Ids \subseteq Files /\ Prompts \subseteq Files /\ Providers \in Files
  /\ \A id \in Ids : id \notin Prompts /\ id # Providers
  /\ \A w \in Contents : \A f \in Files : w[f] \in TextsOf(f) \cup {None}
  /\ \A w \in Contents : w \in [Files -> Texts \cup {None}]
  /\ \A f \in Ids : TextsOf(f) = Yamls \cup {Broken}
  /\ \A f \in Prompts : TextsOf(f) = Notes \cup {Broken}
  /\ TextsOf(Providers) = Profiles \cup {Broken}
  /\ \A f \in Files : TextsOf(f) \subseteq Texts
BY CanonAssumption DEF CanonAssumption, Files, Contents, TextsOf, Texts

(* One file more, or another text.                                         *)
LEMMA PutKeepsContents ==
  ASSUME NEW w \in Contents, NEW f \in Files, NEW text \in TextsOf(f) \cup {None}
  PROVE  [w EXCEPT ![f] = text] \in Contents
<1>1. w \in [Files -> Texts \cup {None}]
  BY ConstantsLemma
<1>2. text \in Texts \cup {None}
  BY ConstantsLemma
<1> DEFINE v == [w EXCEPT ![f] = text]
<1>3. v \in [Files -> Texts \cup {None}]
  BY <1>1, <1>2
<1>4. \A g \in Files : v[g] \in TextsOf(g) \cup {None}
  BY <1>1, ConstantsLemma
<1> QED
  BY <1>3, <1>4 DEF Contents

LEMMA WithKeepsTypes ==
  ASSUME files \in [Layers -> Contents], NEW l \in Layers, NEW f \in Files,
         NEW text \in TextsOf(f) \cup {None}
  PROVE  [files EXCEPT ![l][f] = text] \in [Layers -> Contents]
<1>1. [files[l] EXCEPT ![f] = text] \in Contents
  BY PutKeepsContents
<1> QED
  BY <1>1

(* The entry of the merged view for an id is one of its holders.           *)
LEMMA WinnerLemma ==
  ASSUME NEW view, NEW layers \in SUBSET Layers, NEW id
  PROVE  /\ Winner(view, layers, id) \in (layers \X Ids) \cup {None}
         /\ Holders(view, layers, id) # {} => Winner(view, layers, id) \in Holders(view, layers, id)
<1> DEFINE all == Holders(view, layers, id)
<1>0. all \subseteq layers \X Ids
  BY DEF Holders
<1>1. CASE all = {}
  BY <1>1 DEF Winner
<1>2. CASE all # {}
  <2> HIDE DEF all
  <2>1. PICK l \in layers : (\E i \in Ids : <<l, i>> \in all)
                         /\ \A p \in all : Rank(p[1]) <= Rank(l)
    <3>1. \A l \in Layers : Rank(l) \in 0 .. 2
      BY DEF Layers, Rank
    <3>2. PICK p \in all : TRUE
      BY <1>2
    <3> DEFINE in(l) == \E i \in Ids : <<l, i>> \in all
    <3>3. p[1] \in layers /\ in(p[1])
      BY <1>0
    <3>4. \A q \in all : q[1] \in layers /\ in(q[1])
      BY <1>0
    <3> HIDE DEF in
    <3>5. \E l \in layers : in(l) /\ \A k \in layers : in(k) => Rank(k) <= Rank(l)
      BY <3>3 DEF Layers, Rank
    <3> QED
      BY <3>4, <3>5 DEF in
  <2> DEFINE T == {i \in Ids : <<l, i>> \in all}
  <2>2. PICK m \in T : \A k \in T : k <= m
    <3>1. T \in SUBSET Ids /\ T # {}
      BY <2>1
    <3> HIDE DEF T
    <3> QED
      BY <3>1, GreatestExists, CanonAssumption DEF CanonAssumption
  <2>3. <<l, m>> \in all
    BY <2>2
  <2>4. \A q \in all \ {<<l, m>>} : Beats(<<l, m>>, q)
    <3> TAKE q \in all \ {<<l, m>>}
    <3>1. q[1] \in layers /\ q[2] \in Ids /\ q = <<q[1], q[2]>> /\ Rank(q[1]) <= Rank(l)
      BY <1>0, <2>1
    <3>2. CASE q[1] = l
      <4>1. q[2] \in T /\ q[2] # m /\ m \in Ids
        BY <2>2, <3>1, <3>2
      <4>2. m \in Nat /\ q[2] \in Nat /\ q[2] <= m
        BY <2>2, <4>1, CanonAssumption DEF CanonAssumption
      <4> QED
        BY <3>2, <4>1, <4>2 DEF Beats
    <3>3. CASE q[1] # l
      <4>1. Rank(l) > Rank(q[1])
        BY <3>1, <3>3 DEF Rank, Layers
      <4> QED
        BY <4>1 DEF Beats
    <3> QED
      BY <3>2, <3>3
  <2> DEFINE best == CHOOSE p \in all : \A q \in all \ {p} : Beats(p, q)
  <2>5. best \in all
    BY <2>3, <2>4
  <2>6. Winner(view, layers, id) = best
    BY <1>2 DEF Winner, all
  <2> QED
    BY <1>0, <1>2, <2>5, <2>6 DEF all
<1> QED
  BY <1>1, <1>2

(* What loads is one of the places and in order itself.                    *)
LEMMA LoadableLemma ==
  ASSUME NEW view, NEW places, NEW child, NEW p \in Loadable(view, places, child)
  PROVE  p \in places /\ Parses(view[p[1]][p[2]]) /\ PromptsFit(view, p)
<1>1. p \in Whole(view, places, child)
  BY GroundedLemma DEF Loadable
<1> QED
  BY <1>1 DEF Whole, Fit

(* A text that parses, in a pipeline's file, is a pipeline.                *)
LEMMA YamlLemma ==
  ASSUME NEW w \in Contents, NEW f \in Ids, Parses(w[f])
  PROVE  w[f] \in Yamls /\ w[f] \in Pipelines
<1>1. w[f] \in TextsOf(f) \cup {None} /\ TextsOf(f) = Yamls \cup {Broken}
  BY ConstantsLemma
<1> QED
  BY <1>1, CanonAssumption DEF Parses, CanonAssumption

LEMMA FoundLemma ==
  ASSUME TypeOK, NEW l \in Layers, NEW id, NEW p \in Found(l, id)
  PROVE  /\ p \in Places /\ p[1] = l /\ p[2] \in Ids
         /\ files[p[1]][p[2]] \in Yamls /\ files[p[1]][p[2]] \in Pipelines
<1>1. p \in {l} \X Ids /\ p \in Loadable(files, {l} \X Ids, [n \in Ids |-> <<l, n>>])
  BY DEF Found, LoadableBeside
<1>2. Parses(files[p[1]][p[2]])
  BY <1>1, LoadableLemma
<1>3. p[1] = l /\ p[2] \in Ids /\ files[l] \in Contents
  BY <1>1 DEF TypeOK
<1> QED
  BY <1>1, <1>2, <1>3, YamlLemma DEF Places

LEMMA WriteLayerLemma == WriteLayer \in Layers /\ (Writable => WriteLayer = "repo")
BY DEF WriteLayer, Layers, Writable

LEMMA InitTypes == Init => TypeOK
<1> SUFFICES ASSUME Init PROVE TypeOK
  OBVIOUS
<1>1. NoFiles \in Contents
  BY CanonAssumption DEF Contents, NoFiles
<1>2. PICK canon \in Contents :
        files = [l \in Layers |-> IF l = "bundled" THEN Package ELSE IF l = "repo" THEN canon ELSE NoFiles]
  BY <1>1, CanonAssumption DEF Init, CanonAssumption
<1>3. files \in [Layers -> Contents]
  BY <1>1, <1>2, CanonAssumption DEF CanonAssumption
<1>4. PICK open \in [Clients -> {f \in Ids : files["repo"][f] # None} \cup {None}] :
        /\ draft = [c \in Clients |->
             IF open[c] = None THEN None
             ELSE [at |-> <<"repo", open[c]>>, body |-> files["repo"][open[c]],
                   base |-> files["repo"][open[c]]]]
        /\ seen = [c \in Clients |-> [f \in Files |->
             IF open[c] # None /\ f \in {open[c]} \cup files["repo"][open[c]].prompts
               THEN files["repo"][f] ELSE None]]
  BY DEF Init
<1>5. draft \in [Clients -> DraftType \cup {None}]
  <2>1. ASSUME NEW c \in Clients, open[c] # None PROVE draft[c] \in DraftType
    <3>1. open[c] \in Ids /\ files["repo"][open[c]] # None
      BY <1>4, <2>1
    <3>2. files["repo"][open[c]] \in Yamls \cup {Broken}
      <4>1. files["repo"] \in Contents
        BY <1>3 DEF Layers
      <4> QED
        BY <3>1, <4>1, ConstantsLemma
    <3> QED
      BY <1>4, <2>1, <3>1, <3>2 DEF DraftType, Places, Layers
  <2>2. \A c \in Clients : draft[c] \in DraftType \cup {None}
    BY <1>4, <2>1
  <2> QED
    BY <1>4, <2>2
<1>6. seen \in [Clients -> Contents]
  <2>1. ASSUME NEW c \in Clients PROVE seen[c] \in Contents
    <3>1. files["repo"] \in Contents
      BY <1>3 DEF Layers
    <3>2. \A f \in Files : seen[c][f] \in TextsOf(f) \cup {None}
      BY <1>4, <3>1, ConstantsLemma
    <3>3. seen[c] \in [Files -> Texts \cup {None}]
      BY <1>4, <3>2, ConstantsLemma
    <3> QED
      BY <3>2, <3>3 DEF Contents
  <2> QED
    BY <1>4, <2>1
<1>7. dirs \in [Layers -> {"absent", "bare", "full"}]
  BY DEF Init
<1>8. request \in [Clients -> RequestType \cup {None}] /\ asked \in 0 .. MaxRequests /\ edits \in 0 .. MaxEdits
  BY CanonAssumption DEF Init, CanonAssumption
<1> QED
  BY <1>3, <1>5, <1>6, <1>7, <1>8 DEF TypeOK

(* The kinds of requests.                                                  *)
LEMMA RequestLemma ==
  ASSUME NEW r \in RequestType
  PROVE  /\ r.kind \in {"open", "delete", "prompt"} => r.at \in Places
         /\ r.kind = "prompt" => r.path \in Prompts /\ r.text \in Notes /\ r.match \in Notes \cup {Broken}
         /\ r.kind = "create" => r.id \in Ids /\ r.in \in Layers
         /\ r.kind = "fork" => /\ r.id \in Ids /\ r.to \in {"user", "repo"} /\ r.overwrite \in BOOLEAN
                               /\ r.layers \in SUBSET Layers /\ r.winner \in Places \cup {None}
BY DEF RequestType

(* A step that sends a request, shows a text or writes files keeps the     *)
(* types of what it leaves alone.                                          *)
LEMMA AsksTypes ==
  ASSUME TypeOK, NEW c \in Clients, Asks(c)
  PROVE  asked' \in 0 .. MaxRequests /\ edits' \in 0 .. MaxEdits
BY CanonAssumption DEF Asks, MayAsk, TypeOK, CanonAssumption

LEMMA SendTypes ==
  ASSUME TypeOK, NEW c \in Clients, NEW r \in RequestType, Sends(c, r), UNCHANGED <<files, dirs, draft, seen>>
  PROVE  TypeOK'
BY AsksTypes DEF Sends, TypeOK

LEMMA AnswerTypes ==
  ASSUME TypeOK, NEW c \in Clients, Answers(c)
  PROVE  /\ request' \in [Clients -> RequestType \cup {None}]
         /\ asked' \in 0 .. MaxRequests /\ edits' \in 0 .. MaxEdits
BY DEF Answers, TypeOK

LEMMA ShowTypes ==
  ASSUME TypeOK, NEW c \in Clients, NEW f \in Files, NEW text \in TextsOf(f) \cup {None}, Show(c, f, text)
  PROVE  seen' \in [Clients -> Contents]
<1>1. [seen[c] EXCEPT ![f] = text] \in Contents
  BY PutKeepsContents DEF TypeOK
<1> QED
  BY <1>1 DEF Show, TypeOK

(* A save is of a draft.                                                   *)
SavesHaveDrafts == \A c \in Clients : request[c] # None /\ request[c].kind = "save" => draft[c] # None

LEMMA SavingLemma ==
  ASSUME TypeOK, SavesHaveDrafts, NEW c \in Clients, SaveAnswered(c)
  PROVE  draft[c] \in DraftType
BY DEF TypeOK, SavesHaveDrafts, SaveAnswered

(* A draft that would load is a pipeline.                                  *)
LEMMA ValidLemma ==
  ASSUME TypeOK, NEW d \in DraftType, ValidDraft(d)
  PROVE  d.body \in Yamls
<1>1. d.at[1] \in Layers /\ d.at[2] \in Files /\ d.body \in Yamls \cup {Broken}
  BY ConstantsLemma DEF DraftType, Places
<1>2. Parses(With(d.at, d.body)[d.at[1]][d.at[2]])
  BY LoadableLemma DEF ValidDraft, LoadableBeside
<1>3. files[d.at[1]] \in [Files -> Texts \cup {None}]
  BY <1>1, ConstantsLemma DEF TypeOK
<1>4. With(d.at, d.body)[d.at[1]][d.at[2]] = d.body
  BY <1>1, <1>3 DEF With, TypeOK
<1> QED
  BY <1>1, <1>2, <1>4 DEF Parses

(* A fork copies texts where they may be.                                  *)
LEMMA ForkTypes ==
  ASSUME TypeOK, NEW r, r.id \in Ids, r.to \in {"user", "repo"},
         NEW from, from[1] \in Layers, files[from[1]][from[2]] \in Yamls
  PROVE  Forked(r, from) \in [Layers -> Contents]
<1> DEFINE text == files[from[1]][from[2]]
           copied(q) == q \in text.prompts /\ files[from[1]][q] # None /\ (files[r.to][q] = None \/ r.overwrite)
           w == [f \in Files |-> IF f = r.id THEN text
                                  ELSE IF f \in Prompts /\ copied(f) THEN files[from[1]][f] ELSE files[r.to][f]]
<1>1. r.to \in Layers /\ files[r.to] \in Contents /\ files[from[1]] \in Contents
  BY DEF TypeOK, Layers
<1>2. \A f \in Files : w[f] \in TextsOf(f) \cup {None}
  <2> SUFFICES ASSUME NEW f \in Files PROVE w[f] \in TextsOf(f) \cup {None}
    OBVIOUS
  <2>1. f = r.id => w[f] \in TextsOf(f)
    BY ConstantsLemma
  <2>2. files[r.to][f] \in TextsOf(f) \cup {None} /\ files[from[1]][f] \in TextsOf(f) \cup {None}
    BY <1>1, ConstantsLemma
  <2> HIDE DEF copied, text
  <2> QED
    BY <2>1, <2>2
<1>3. w \in [Files -> Texts \cup {None}]
  <2>1. \A f \in Files : w[f] \in Texts \cup {None}
    BY <1>2, ConstantsLemma
  <2> HIDE DEF copied, text
  <2> QED
    BY <2>1
<1>4. Forked(r, from) = [files EXCEPT ![r.to] = w]
  BY <1>1 DEF Forked, TypeOK
<1> HIDE DEF w
<1> QED
  BY <1>1, <1>2, <1>3, <1>4 DEF Contents, TypeOK

LEMMA StepTypes == TypeOK /\ SavesHaveDrafts /\ [Next]_vars => TypeOK'
<1> SUFFICES ASSUME TypeOK, SavesHaveDrafts, [Next]_vars PROVE TypeOK'
  OBVIOUS
<1>1. ASSUME NEW c \in Clients, NEW id \in Ids, OpenArrives(c, id) PROVE TypeOK'
  <2>1. PICK p \in Found(WriteLayer, id) : Sends(c, [kind |-> "open", at |-> p])
    BY <1>1 DEF OpenArrives
  <2>2. [kind |-> "open", at |-> p] \in RequestType
    BY <2>1, FoundLemma, WriteLayerLemma DEF RequestType
  <2> QED
    BY <2>1, <2>2, <1>1, SendTypes DEF OpenArrives
<1>2. ASSUME NEW c \in Clients, NEW id \in Ids, CreateArrives(c, id) PROVE TypeOK'
  <2>1. [kind |-> "create", id |-> id, in |-> WriteLayer] \in RequestType
    BY WriteLayerLemma DEF RequestType
  <2> QED
    BY <2>1, <1>2, SendTypes DEF CreateArrives
<1>3. ASSUME NEW c \in Clients, NEW id \in Ids, DeleteArrives(c, id) PROVE TypeOK'
  <2>1. PICK p \in Found(WriteLayer, id) : Sends(c, [kind |-> "delete", at |-> p])
    BY <1>3 DEF DeleteArrives
  <2>2. [kind |-> "delete", at |-> p] \in RequestType
    BY <2>1, FoundLemma, WriteLayerLemma DEF RequestType
  <2> QED
    BY <2>1, <2>2, <1>3, SendTypes DEF DeleteArrives
<1>4. ASSUME NEW c \in Clients, NEW id \in Ids, ReadPrompts(c, id) PROVE TypeOK'
  <2>1. PICK p \in Found(WriteLayer, id) :
          seen' = [seen EXCEPT ![c] =
            [f \in Files |-> IF f \in {q \in files[p[1]][p[2]].prompts : files[p[1]][q] # None}
                               THEN files[p[1]][f] ELSE @[f]]]
    BY <1>4 DEF ReadPrompts
  <2>2. files[p[1]] \in Contents /\ seen[c] \in Contents
    BY <2>1, FoundLemma, WriteLayerLemma DEF TypeOK
  <2> DEFINE w == [f \in Files |-> IF f \in {q \in files[p[1]][p[2]].prompts : files[p[1]][q] # None}
                               THEN files[p[1]][f] ELSE seen[c][f]]
  <2>3. w \in Contents
    <3>1. \A f \in Files : w[f] \in TextsOf(f) \cup {None}
      BY <2>2, ConstantsLemma
    <3>2. w \in [Files -> Texts \cup {None}]
      BY <3>1, ConstantsLemma
    <3> QED
      BY <3>1, <3>2 DEF Contents
  <2>4. seen' = [seen EXCEPT ![c] = w]
    BY <2>1 DEF TypeOK
  <2> HIDE DEF w
  <2>5. seen' \in [Clients -> Contents]
    BY <2>3, <2>4 DEF TypeOK
  <2> QED
    BY <2>5, <1>4, AsksTypes DEF ReadPrompts, TypeOK
<1>5. ASSUME NEW c \in Clients, NEW id \in Ids, NEW q \in Prompts, NEW text \in Notes,
             PromptArrives(c, id, q, text)
      PROVE TypeOK'
  <2>1. PICK p \in Found(WriteLayer, id) :
          Sends(c, [kind |-> "prompt", at |-> p, path |-> q, text |-> text, match |-> seen[c][q]])
    BY <1>5 DEF PromptArrives
  <2>2. seen[c][q] \in Notes \cup {Broken}
    BY <1>5, ConstantsLemma DEF TypeOK, PromptArrives
  <2>3. [kind |-> "prompt", at |-> p, path |-> q, text |-> text, match |-> seen[c][q]] \in RequestType
    BY <2>1, <2>2, FoundLemma, WriteLayerLemma DEF RequestType
  <2> QED
    BY <2>1, <2>3, <1>5, SendTypes DEF PromptArrives
<1>6. ASSUME NEW c \in Clients, NEW id \in Ids, NEW to \in {"user", "repo"}, NEW over \in BOOLEAN,
             ForkArrives(c, id, to, over)
      PROVE TypeOK'
  <2>1. Winner(files, Present, id) \in Places \cup {None} /\ Present \in SUBSET Layers
    BY WinnerLemma DEF Present, Places
  <2>2. [kind |-> "fork", id |-> id, to |-> to, overwrite |-> over,
         layers |-> Present, winner |-> Winner(files, Present, id)] \in RequestType
    BY <2>1 DEF RequestType
  <2> QED
    BY <2>2, <1>6, SendTypes DEF ForkArrives
<1>7. ASSUME NEW c \in Clients, NEW body \in Typed, EditDraft(c, body) PROVE TypeOK'
  <2>1. draft[c] \in DraftType /\ body \in Yamls \cup {Broken}
    BY <1>7, CanonAssumption DEF EditDraft, TypeOK, CanonAssumption
  <2>2. draft' \in [Clients -> DraftType \cup {None}]
    <3>1. [draft[c] EXCEPT !.body = body] \in DraftType
      BY <2>1 DEF DraftType
    <3> QED
      BY <3>1, <1>7 DEF EditDraft, TypeOK
  <2> QED
    BY <2>2, <1>7, AsksTypes DEF EditDraft, TypeOK
<1>8. ASSUME NEW c \in Clients, SaveArrives(c) PROVE TypeOK'
  <2>1. [kind |-> "save"] \in RequestType
    BY DEF RequestType
  <2> QED
    BY <2>1, <1>8, SendTypes DEF SaveArrives
<1>9. ASSUME NEW c \in Clients, OpenAnswered(c) PROVE TypeOK'
  <2> DEFINE at == request[c].at
             text == files[at[1]][at[2]]
  <2>1. at \in Places
    BY <1>9, RequestLemma DEF OpenAnswered, TypeOK
  <2>2. at[1] \in Layers /\ at[2] \in Ids /\ text \in Yamls \cup {Broken, None}
    BY <2>1, ConstantsLemma DEF Places, TypeOK
  <2> HIDE DEF at, text
  <2>3. CASE UNCHANGED <<draft, seen>>
    BY <2>3, <1>9, AnswerTypes DEF OpenAnswered, TypeOK
  <2>4. CASE /\ text # None
             /\ draft' = [draft EXCEPT ![c] = [at |-> at, body |-> text, base |-> text]]
             /\ Show(c, at[2], text)
    <3>1. [at |-> at, body |-> text, base |-> text] \in DraftType
      BY <2>1, <2>2, <2>4 DEF DraftType
    <3>2. at[2] \in Files /\ text \in TextsOf(at[2]) \cup {None}
      BY <2>2, ConstantsLemma
    <3>3. draft' \in [Clients -> DraftType \cup {None}] /\ seen' \in [Clients -> Contents]
      BY <2>4, <3>1, <3>2, ShowTypes DEF TypeOK
    <3> QED
      BY <3>3, <1>9, AnswerTypes DEF OpenAnswered, TypeOK
  <2> QED
    BY <1>9, <2>3, <2>4 DEF OpenAnswered, at, text
<1>10. ASSUME NEW c \in Clients, SaveAnswered(c) PROVE TypeOK'
  <2> DEFINE d == draft[c]
  <2>1. CASE UNCHANGED <<files, draft, seen>>
    BY <2>1, <1>10, AnswerTypes DEF SaveAnswered, TypeOK
  <2>2. CASE /\ ValidDraft(d)
             /\ files' = With(d.at, Written(d.body))
             /\ draft' = [draft EXCEPT ![c] = Saved(d)]
             /\ Show(c, d.at[2], Written(d.body))
    <3>0. d \in DraftType
      BY <1>10, <2>2, SavingLemma
    <3>1. d.at[1] \in Layers /\ d.at[2] \in Ids /\ d.at \in Places
      BY <3>0 DEF DraftType, Places
    <3>2. d.body \in Yamls
      BY <2>2, <3>0, ValidLemma
    <3>3. Written(d.body) \in Yamls
      BY <3>2, CanonAssumption DEF CanonAssumption
    <3>4. d.at[2] \in Files /\ Written(d.body) \in TextsOf(d.at[2]) \cup {None}
      BY <3>1, <3>3, ConstantsLemma
    <3>5. files' \in [Layers -> Contents]
      BY <2>2, <3>1, <3>4, WithKeepsTypes DEF With, TypeOK
    <3>6. Saved(d) \in DraftType
      BY <3>0, <3>3 DEF Saved, DraftType
    <3>7. draft' \in [Clients -> DraftType \cup {None}]
      BY <2>2, <3>6 DEF TypeOK
    <3>8. seen' \in [Clients -> Contents]
      BY <2>2, <3>4, ShowTypes
    <3> QED
      BY <3>5, <3>7, <3>8, <1>10, AnswerTypes DEF SaveAnswered, TypeOK
  <2> QED
    BY <1>10, <2>1, <2>2 DEF SaveAnswered
<1>11. ASSUME NEW c \in Clients, PromptAnswered(c) PROVE TypeOK'
  <2> DEFINE r == request[c]
  <2>1. r.at \in Places /\ r.path \in Prompts /\ r.text \in Notes
    BY <1>11, RequestLemma DEF PromptAnswered, TypeOK
  <2>2. r.at[1] \in Layers /\ r.path \in Files /\ r.text \in TextsOf(r.path) \cup {None}
    BY <2>1, ConstantsLemma DEF Places
  <2>3. CASE UNCHANGED <<files, seen>>
    BY <2>3, <1>11, AnswerTypes DEF PromptAnswered, TypeOK
  <2>4. CASE /\ files' = [files EXCEPT ![r.at[1]][r.path] = r.text]
             /\ Show(c, r.path, r.text)
    <3>1. files' \in [Layers -> Contents]
      BY <2>2, <2>4, WithKeepsTypes DEF TypeOK
    <3>2. seen' \in [Clients -> Contents]
      BY <2>2, <2>4, ShowTypes
    <3> QED
      BY <3>1, <3>2, <1>11, AnswerTypes DEF PromptAnswered, TypeOK
  <2> QED
    BY <1>11, <2>3, <2>4 DEF PromptAnswered
<1>12. ASSUME NEW c \in Clients, ReadProviders(c) PROVE TypeOK'
  <2>1. files["repo"][Providers] \in TextsOf(Providers) \cup {None} /\ Providers \in Files
    BY ConstantsLemma DEF TypeOK, Layers
  <2>2. seen' \in [Clients -> Contents]
    BY <2>1, <1>12, ShowTypes DEF ReadProviders
  <2> QED
    BY <2>2, <1>12, AsksTypes DEF ReadProviders, TypeOK
<1>13. ASSUME NEW c \in Clients, NEW text \in Profiles, PutProviders(c, text) PROVE TypeOK'
  <2>1. text \in TextsOf(Providers) \cup {None} /\ Providers \in Files /\ "repo" \in Layers
    BY ConstantsLemma DEF Layers
  <2>2. files' \in [Layers -> Contents]
    BY <2>1, <1>13, WithKeepsTypes DEF PutProviders, TypeOK
  <2>3. seen' \in [Clients -> Contents]
    BY <2>1, <1>13, ShowTypes DEF PutProviders
  <2>4. dirs' \in [Layers -> {"absent", "bare", "full"}]
    BY <1>13 DEF PutProviders, TypeOK
  <2> QED
    BY <2>2, <2>3, <2>4, <1>13, AsksTypes DEF PutProviders, TypeOK
<1>14. ASSUME NEW c \in Clients, CreateAnswered(c) PROVE TypeOK'
  <2> DEFINE r == request[c]
  <2>1. r.id \in Ids /\ r.in \in Layers
    BY <1>14, RequestLemma DEF CreateAnswered, TypeOK
  <2>2. r.id \in Files /\ Skeleton(r.id) \in TextsOf(r.id) \cup {None}
    <3>1. Skeleton(r.id) \in Yamls
      BY <2>1, CanonAssumption DEF CanonAssumption
    <3> QED
      BY <2>1, <3>1, ConstantsLemma
  <2>3. files' = files \/ files' = [files EXCEPT ![r.in][r.id] = Skeleton(r.id)]
    BY <1>14 DEF CreateAnswered, With
  <2>4. files' \in [Layers -> Contents]
    <3>1. files \in [Layers -> Contents]
      BY DEF TypeOK
    <3>2. [files EXCEPT ![r.in][r.id] = Skeleton(r.id)] \in [Layers -> Contents]
      BY <2>1, <2>2, <3>1, WithKeepsTypes
    <3> QED
      BY <2>3, <3>1, <3>2
  <2> QED
    BY <2>4, <1>14, AnswerTypes DEF CreateAnswered, TypeOK
<1>15. ASSUME NEW c \in Clients, DeleteAnswered(c) PROVE TypeOK'
  <2> DEFINE at == request[c].at
  <2>1. at \in Places
    BY <1>15, RequestLemma DEF DeleteAnswered, TypeOK
  <2>2. at[1] \in Layers /\ at[2] \in Files
    BY <2>1, ConstantsLemma DEF Places
  <2>3. files' \in [Layers -> Contents]
    BY <2>2, <1>15, WithKeepsTypes DEF DeleteAnswered, With, TypeOK
  <2> QED
    BY <2>3, <1>15, AnswerTypes DEF DeleteAnswered, TypeOK
<1>16. ASSUME NEW c \in Clients, ForkAnswered(c) PROVE TypeOK'
  <2> DEFINE r == request[c]
             from == ForkSource(r)
  <2>1. r.id \in Ids /\ r.to \in {"user", "repo"} /\ r.layers \in SUBSET Layers /\ r.winner \in Places \cup {None}
    BY <1>16, RequestLemma DEF ForkAnswered, TypeOK
  <2>2. from \in Places \cup {None}
    <3>1. Winner(files, r.layers \ {r.to}, r.id) \in Places \cup {None}
      BY <2>1, WinnerLemma DEF Places
    <3> QED
      BY <2>1, <3>1 DEF ForkSource
  <2>3. CASE UNCHANGED <<files, dirs>>
    BY <2>3, <1>16, AnswerTypes DEF ForkAnswered, TypeOK
  <2>4. CASE /\ from # None /\ Parses(files[from[1]][from[2]])
             /\ files' = Forked(r, from)
             /\ dirs' = [dirs EXCEPT ![r.to] = "full"]
    <3>1. from[1] \in Layers /\ from[2] \in Ids
      BY <2>2, <2>4 DEF Places
    <3>2. files[from[1]] \in Contents /\ r.to \in Layers /\ files[r.to] \in Contents
      BY <2>1, <3>1 DEF TypeOK, Layers
    <3>3. files[from[1]][from[2]] \in Yamls
      BY <2>4, <3>1, <3>2, YamlLemma
    <3>4. files' \in [Layers -> Contents]
      BY <2>1, <2>4, <3>1, <3>2, <3>3, ForkTypes
    <3>5. dirs' \in [Layers -> {"absent", "bare", "full"}]
      BY <2>4 DEF TypeOK
    <3> QED
      BY <3>4, <3>5, <1>16, AnswerTypes DEF ForkAnswered, TypeOK
  <2> QED
    BY <1>16, <2>3, <2>4 DEF ForkAnswered
<1>17. ASSUME NEW c \in Clients, NEW b \in Bundles, NEW to \in {"user", "repo"}, NEW over \in BOOLEAN,
              Import(c, b, to, over)
       PROVE TypeOK'
  <2>1. b \in Contents /\ to \in Layers /\ files[to] \in Contents
    BY CanonAssumption DEF CanonAssumption, TypeOK, Layers
  <2> DEFINE w == [f \in Files |-> IF b[f] # None /\ (files[to][f] = None \/ over) THEN b[f] ELSE files[to][f]]
  <2>2. \A f \in Files : w[f] \in TextsOf(f) \cup {None}
    BY <2>1, ConstantsLemma
  <2>3. w \in [Files -> Texts \cup {None}]
    BY <2>2, ConstantsLemma
  <2>4. w \in Contents
    BY <2>2, <2>3 DEF Contents
  <2>5. files' = [files EXCEPT ![to] = w]
    BY <1>17, <2>1 DEF Import, TypeOK
  <2> HIDE DEF w
  <2>6. files' \in [Layers -> Contents]
    BY <2>4, <2>5 DEF TypeOK
  <2>7. dirs' \in [Layers -> {"absent", "bare", "full"}]
    BY <1>17 DEF Import, TypeOK
  <2> QED
    BY <2>6, <2>7, <1>17, AsksTypes DEF Import, TypeOK
<1>18. ASSUME NEW e \in HandMade, EditByHand(e[1], e[2], e[3]) PROVE TypeOK'
  <2>1. e[1] \in Layers /\ e[2] \in Files /\ e[3] \in TextsOf(e[2]) \cup {None}
    BY CanonAssumption DEF CanonAssumption, Layers
  <2>2. files' \in [Layers -> Contents]
    BY <2>1, <1>18, WithKeepsTypes DEF EditByHand, TypeOK
  <2>3. dirs' \in [Layers -> {"absent", "bare", "full"}]
    BY <1>18 DEF EditByHand, TypeOK
  <2>4. edits' \in 0 .. MaxEdits
    BY <1>18, CanonAssumption DEF EditByHand, TypeOK, CanonAssumption
  <2> QED
    BY <2>2, <2>3, <2>4, <1>18 DEF EditByHand, TypeOK
<1>19. CASE UNCHANGED vars
  BY <1>19 DEF vars, TypeOK
<1> QED
  BY <1>1, <1>2, <1>3, <1>4, <1>5, <1>6, <1>7, <1>8, <1>9, <1>10, <1>11, <1>12, <1>13, <1>14, <1>15,
     <1>16, <1>17, <1>18, <1>19 DEF Next

(***************************************************************************)
(* What a user has seen.  A draft's base is the text the page showed last  *)
(* of its file; a client awaits one answer at a time, so the text a prompt *)
(* is to replace is still the one shown last when the daemon compares it.  *)
(***************************************************************************)
DraftsAreSeen == \A c \in Clients : draft[c] # None => seen[c][draft[c].at[2]] = draft[c].base

PromptsAreSeen ==
  \A c \in Clients : request[c] # None /\ request[c].kind = "prompt" =>
    request[c].match = seen[c][request[c].path]

SeenInv == SavesHaveDrafts /\ DraftsAreSeen /\ PromptsAreSeen

LEMMA InitSeen == Init => SeenInv
<1> SUFFICES ASSUME Init PROVE SeenInv
  OBVIOUS
<1>1. PICK open \in [Clients -> {f \in Ids : files["repo"][f] # None} \cup {None}] :
        /\ draft = [c \in Clients |->
             IF open[c] = None THEN None
             ELSE [at |-> <<"repo", open[c]>>, body |-> files["repo"][open[c]],
                   base |-> files["repo"][open[c]]]]
        /\ seen = [c \in Clients |-> [f \in Files |->
             IF open[c] # None /\ f \in {open[c]} \cup files["repo"][open[c]].prompts
               THEN files["repo"][f] ELSE None]]
  BY DEF Init
<1>2. ASSUME NEW c \in Clients, draft[c] # None PROVE seen[c][draft[c].at[2]] = draft[c].base
  <2>1. open[c] # None /\ open[c] \in Ids /\ open[c] \in Files
    BY <1>1, <1>2, ConstantsLemma
  <2>2. draft[c].at[2] = open[c] /\ draft[c].base = files["repo"][open[c]]
    BY <1>1, <2>1
  <2>3. seen[c][open[c]] = files["repo"][open[c]]
    BY <1>1, <2>1
  <2> QED
    BY <2>2, <2>3
<1>3. request = [c \in Clients |-> None]
  BY DEF Init
<1> QED
  BY <1>2, <1>3 DEF SeenInv, SavesHaveDrafts, DraftsAreSeen, PromptsAreSeen

(* A request that is sent remembers what was seen.                         *)
LEMMA SendSeen ==
  ASSUME TypeOK, SeenInv, NEW c \in Clients, NEW r, Sends(c, r), UNCHANGED <<draft, seen>>,
         r.kind = "save" => draft[c] # None,
         r.kind = "prompt" => r.match = seen[c][r.path]
  PROVE  SeenInv'
<1>1. request' = [request EXCEPT ![c] = r] /\ request \in [Clients -> RequestType \cup {None}]
  BY DEF Sends, TypeOK
<1> QED
  BY <1>1 DEF SeenInv, SavesHaveDrafts, DraftsAreSeen, PromptsAreSeen

(* A step of a client that awaits no answer afterwards.                    *)
LEMMA OwnSeen ==
  ASSUME SeenInv, NEW c \in Clients,
         \A b \in Clients \ {c} :
           seen'[b] = seen[b] /\ draft'[b] = draft[b] /\ request'[b] = request[b],
         request'[c] = None,
         draft'[c] # None => seen'[c][draft'[c].at[2]] = draft'[c].base
  PROVE  SeenInv'
BY DEF SeenInv, SavesHaveDrafts, DraftsAreSeen, PromptsAreSeen

LEMMA AnswerLemma ==
  ASSUME TypeOK, NEW c \in Clients, Answers(c)
  PROVE  request'[c] = None /\ \A b \in Clients \ {c} : request'[b] = request[b]
BY DEF Answers, TypeOK

LEMMA ShowLemma ==
  ASSUME TypeOK, NEW c \in Clients, NEW f \in Files, NEW text, Show(c, f, text)
  PROVE  /\ seen'[c][f] = text
         /\ \A g \in Files \ {f} : seen'[c][g] = seen[c][g]
         /\ \A b \in Clients \ {c} : seen'[b] = seen[b]
<1>1. seen \in [Clients -> Contents] /\ seen[c] \in [Files -> Texts \cup {None}]
  BY ConstantsLemma DEF TypeOK
<1> QED
  BY <1>1 DEF Show

(* The file of a draft is a pipeline's.                                    *)
LEMMA DraftLemma ==
  ASSUME TypeOK, NEW c \in Clients, draft[c] # None
  PROVE  /\ draft[c] \in DraftType /\ draft[c].at[1] \in Layers
         /\ draft[c].at[2] \in Ids /\ draft[c].at[2] \in Files
         /\ draft[c].at[2] \notin Prompts /\ draft[c].at[2] # Providers
<1>1. draft[c] \in DraftType
  BY DEF TypeOK
<1>2. draft[c].at \in Places
  BY <1>1 DEF DraftType
<1> QED
  BY <1>1, <1>2, ConstantsLemma DEF Places

LEMMA StepSeen == TypeOK /\ SeenInv /\ [Next]_vars => SeenInv'
<1> SUFFICES ASSUME TypeOK, SeenInv, [Next]_vars PROVE SeenInv'
  OBVIOUS
<1>a. DraftsAreSeen /\ SavesHaveDrafts
  BY DEF SeenInv
<1>0. ASSUME UNCHANGED <<draft, seen, request>> PROVE SeenInv'
  BY <1>0 DEF SeenInv, SavesHaveDrafts, DraftsAreSeen, PromptsAreSeen
<1>1. ASSUME NEW c \in Clients, NEW id \in Ids,
             OpenArrives(c, id) \/ CreateArrives(c, id) \/ DeleteArrives(c, id)
      PROVE  SeenInv'
  <2>1. CASE OpenArrives(c, id)
    <3>1. PICK p \in Found(WriteLayer, id) : Sends(c, [kind |-> "open", at |-> p])
      BY <2>1 DEF OpenArrives
    <3> QED
      BY <2>1, <3>1, SendSeen DEF OpenArrives
  <2>2. CASE CreateArrives(c, id)
    BY <2>2, SendSeen DEF CreateArrives
  <2>3. CASE DeleteArrives(c, id)
    <3>1. PICK p \in Found(WriteLayer, id) : Sends(c, [kind |-> "delete", at |-> p])
      BY <2>3 DEF DeleteArrives
    <3> QED
      BY <2>3, <3>1, SendSeen DEF DeleteArrives
  <2> QED
    BY <1>1, <2>1, <2>2, <2>3
<1>2. ASSUME NEW c \in Clients, NEW id \in Ids, ReadPrompts(c, id) PROVE SeenInv'
  <2>1. PICK p \in Found(WriteLayer, id) :
          seen' = [seen EXCEPT ![c] =
            [f \in Files |-> IF f \in {q \in files[p[1]][p[2]].prompts : files[p[1]][q] # None}
                               THEN files[p[1]][f] ELSE @[f]]]
    BY <1>2 DEF ReadPrompts
  <2>2. files[p[1]][p[2]].prompts \subseteq Prompts
    <3>1. files[p[1]][p[2]] \in Pipelines
      BY <2>1, FoundLemma, WriteLayerLemma
    <3> QED
      BY <3>1 DEF Pipelines
  <2>3. \A b \in Clients \ {c} : seen'[b] = seen[b]
    BY <2>1 DEF TypeOK
  <2>4. \A f \in Files \ Prompts : seen'[c][f] = seen[c][f]
    BY <2>1, <2>2 DEF TypeOK
  <2>5. request[c] = None /\ UNCHANGED <<draft, request>>
    BY <1>2 DEF ReadPrompts, Asks, MayAsk
  <2>6. draft[c] # None => seen'[c][draft[c].at[2]] = draft[c].base
    BY <1>a, <2>4, DraftLemma DEF DraftsAreSeen
  <2> QED
    BY <2>3, <2>5, <2>6, OwnSeen
<1>3. ASSUME NEW c \in Clients, NEW id \in Ids, NEW q \in Prompts, NEW text \in Notes,
             PromptArrives(c, id, q, text)
      PROVE SeenInv'
  <2>1. PICK p \in Found(WriteLayer, id) :
          Sends(c, [kind |-> "prompt", at |-> p, path |-> q, text |-> text, match |-> seen[c][q]])
    BY <1>3 DEF PromptArrives
  <2> QED
    BY <2>1, <1>3, SendSeen DEF PromptArrives
<1>4. ASSUME NEW c \in Clients, NEW id \in Ids, NEW to \in {"user", "repo"}, NEW over \in BOOLEAN,
             ForkArrives(c, id, to, over)
      PROVE SeenInv'
  BY <1>4, SendSeen DEF ForkArrives
<1>5. ASSUME NEW c \in Clients, NEW body \in Typed, EditDraft(c, body) PROVE SeenInv'
  <2>1. draft[c] # None /\ draft' = [draft EXCEPT ![c].body = body] /\ UNCHANGED <<seen, request>>
          /\ request[c] = None
    BY <1>5 DEF EditDraft, Asks, MayAsk
  <2>2. draft[c] \in DraftType
    BY <2>1, DraftLemma
  <2>3. draft'[c].at = draft[c].at /\ draft'[c].base = draft[c].base
          /\ \A b \in Clients \ {c} : draft'[b] = draft[b]
    BY <2>1, <2>2 DEF DraftType, TypeOK
  <2>4. seen'[c][draft'[c].at[2]] = draft'[c].base
    BY <1>a, <2>1, <2>3 DEF DraftsAreSeen
  <2> QED
    BY <2>1, <2>3, <2>4, OwnSeen
<1>6. ASSUME NEW c \in Clients, SaveArrives(c) PROVE SeenInv'
  BY <1>6, SendSeen DEF SaveArrives
<1>7. ASSUME NEW c \in Clients, Answers(c), UNCHANGED <<draft, seen>> PROVE SeenInv'
  BY <1>7, <1>a, AnswerLemma, OwnSeen DEF DraftsAreSeen
<1>8. ASSUME NEW c \in Clients, OpenAnswered(c) PROVE SeenInv'
  <2> DEFINE at == request[c].at
             text == files[at[1]][at[2]]
  <2>1. at[2] \in Files
    <3>1. at \in Places
      BY <1>8, RequestLemma DEF OpenAnswered, TypeOK
    <3> QED
      BY <3>1, ConstantsLemma DEF Places
  <2> HIDE DEF at, text
  <2>2. CASE UNCHANGED <<draft, seen>>
    BY <1>7, <1>8, <2>2 DEF OpenAnswered
  <2>3. CASE /\ draft' = [draft EXCEPT ![c] = [at |-> at, body |-> text, base |-> text]]
             /\ Show(c, at[2], text)
    <3>1. draft'[c] = [at |-> at, body |-> text, base |-> text]
            /\ \A b \in Clients \ {c} : draft'[b] = draft[b]
      BY <2>3 DEF TypeOK
    <3>2. Answers(c)
      BY <1>8 DEF OpenAnswered
    <3> QED
      BY <2>1, <2>3, <3>1, <3>2, AnswerLemma, ShowLemma, OwnSeen
  <2> QED
    BY <1>8, <2>2, <2>3 DEF OpenAnswered, at, text
<1>9. ASSUME NEW c \in Clients, SaveAnswered(c) PROVE SeenInv'
  <2> DEFINE d == draft[c]
             text == Written(d.body)
  <2>1. Answers(c)
    BY <1>9 DEF SaveAnswered
  <2>2. CASE UNCHANGED <<draft, seen>>
    BY <1>7, <2>1, <2>2
  <2>3. CASE draft' = [draft EXCEPT ![c] = Saved(d)] /\ Show(c, d.at[2], text)
    <3>1. d \in DraftType
      BY <1>9, <1>a, SavingLemma
    <3>2. d.at[2] \in Files
      BY <1>9, <1>a, DraftLemma DEF SavesHaveDrafts, SaveAnswered
    <3>3. draft'[c].at = d.at /\ draft'[c].base = text /\ \A b \in Clients \ {c} : draft'[b] = draft[b]
      BY <2>3, <3>1 DEF Saved, DraftType, TypeOK
    <3> HIDE DEF text
    <3> QED
      BY <2>1, <2>3, <3>2, <3>3, AnswerLemma, ShowLemma, OwnSeen
  <2> QED
    BY <1>9, <2>2, <2>3 DEF SaveAnswered
<1>10. ASSUME NEW c \in Clients, NEW f \in Files, NEW text, f \notin Ids, Show(c, f, text),
              UNCHANGED draft, request'[c] = None,
              \A b \in Clients \ {c} : request'[b] = request[b]
       PROVE  SeenInv'
  <2>1. draft[c] # None => seen'[c][draft[c].at[2]] = draft[c].base
    BY <1>10, <1>a, DraftLemma, ShowLemma DEF DraftsAreSeen
  <2> QED
    BY <2>1, <1>10, ShowLemma, OwnSeen
<1>11. ASSUME NEW c \in Clients, PromptAnswered(c) PROVE SeenInv'
  <2> DEFINE r == request[c]
  <2>1. r.path \in Prompts /\ r.path \in Files /\ r.path \notin Ids
    BY <1>11, RequestLemma, ConstantsLemma DEF PromptAnswered, TypeOK
  <2>2. Answers(c) /\ UNCHANGED draft /\ (UNCHANGED seen \/ Show(c, r.path, r.text))
    BY <1>11 DEF PromptAnswered
  <2> QED
    BY <1>7, <1>10, <2>1, <2>2, AnswerLemma
<1>12. ASSUME NEW c \in Clients, NEW text, Show(c, Providers, text), UNCHANGED <<draft, request>>, Asks(c)
       PROVE  SeenInv'
  <2>1. Providers \in Files /\ Providers \notin Ids /\ request[c] = None
    BY <1>12, ConstantsLemma DEF Asks, MayAsk
  <2> QED
    BY <1>10, <1>12, <2>1
<1>13. ASSUME NEW c \in Clients, CreateAnswered(c) \/ DeleteAnswered(c) \/ ForkAnswered(c) PROVE SeenInv'
  BY <1>7, <1>13 DEF CreateAnswered, DeleteAnswered, ForkAnswered
<1>14. ASSUME NEW c \in Clients, ReadProviders(c) \/ \E text \in Profiles : PutProviders(c, text)
       PROVE SeenInv'
  BY <1>12, <1>14 DEF ReadProviders, PutProviders
<1>15. ASSUME NEW c \in Clients, NEW b \in Bundles, NEW to \in {"user", "repo"}, NEW over \in BOOLEAN,
              Import(c, b, to, over)
       PROVE SeenInv'
  BY <1>0, <1>15 DEF Import
<1>16. ASSUME NEW e \in HandMade, EditByHand(e[1], e[2], e[3]) PROVE SeenInv'
  BY <1>0, <1>16 DEF EditByHand
<1>17. CASE UNCHANGED vars
  BY <1>0, <1>17 DEF vars
<1> QED
  BY <1>1, <1>2, <1>3, <1>4, <1>5, <1>6, <1>8, <1>9, <1>11, <1>13, <1>14, <1>15, <1>16, <1>17 DEF Next

CanonInv == TypeOK /\ SeenInv

LEMMA CanonInvariant == Spec => []CanonInv
<1>1. Init => CanonInv
  BY InitTypes, InitSeen DEF CanonInv
<1>2. CanonInv /\ [Next]_vars => CanonInv'
  BY StepTypes, StepSeen DEF CanonInv, SeenInv
<1> QED
  BY <1>1, <1>2, PTL DEF Spec

(* For every set of files, texts, bundles, pages and edits by hand: every  *)
(* file holds what it may hold, a draft and a request remember places of   *)
(* the layers and texts of their files, and a fork's source is a place.    *)
THEOREM TypesAreCorrect == Spec => []TypeOK
<1>1. CanonInv => TypeOK
  BY DEF CanonInv
<1> QED
  BY CanonInvariant, <1>1, PTL

(* A draft whose file is what its user saw last never conflicts: what the  *)
(* page showed and what it wrote itself is the base of the next save.      *)
THEOREM ConflictsAreOthers == Spec => []ConflictsAreReal
<1>1. CanonInv => ConflictsAreReal
  BY DEF CanonInv, SeenInv, DraftsAreSeen, ConflictsAreReal, Unchanged
<1> QED
  BY CanonInvariant, <1>1, PTL

(***************************************************************************)
(* What a save replaces, and what it writes.                               *)
(***************************************************************************)
LEMMA ReplacesSeen ==
  ASSUME CanonInv, NEW c \in Clients, WritesOfThePage(c), NEW f \in Files,
         files'["repo"][f] # files["repo"][f]
  PROVE  files["repo"][f] = seen[c][f]
<1>1. TypeOK /\ SavesHaveDrafts /\ DraftsAreSeen /\ PromptsAreSeen
  BY DEF CanonInv, SeenInv
<1>2. \A l \in Layers : files[l] \in [Files -> Texts \cup {None}]
  BY <1>1, ConstantsLemma DEF TypeOK
<1>3. ASSUME NEW l \in Layers, NEW g \in Files, NEW text, files' = [files EXCEPT ![l][g] = text]
      PROVE  l = "repo" /\ g = f
  BY <1>1, <1>2, <1>3 DEF TypeOK, Layers
<1>4. CASE SaveAnswered(c)
  <2>1. draft[c] # None /\ files' = With(draft[c].at, Written(draft[c].body)) /\ Unchanged(draft[c])
    BY <1>1, <1>4 DEF SaveAnswered, SavesHaveDrafts
  <2>2. draft[c].at[1] = "repo" /\ draft[c].at[2] = f
    BY <1>1, <1>3, <2>1, DraftLemma DEF With
  <2> QED
    BY <1>1, <2>1, <2>2 DEF Unchanged, DraftsAreSeen
<1>5. CASE PromptAnswered(c)
  <2> DEFINE r == request[c]
  <2>1. /\ r # None /\ r.kind = "prompt" /\ files[r.at[1]][r.path] = r.match
        /\ files' = [files EXCEPT ![r.at[1]][r.path] = r.text]
    BY <1>5 DEF PromptAnswered
  <2>2. r.at[1] \in Layers /\ r.path \in Files
    BY <1>1, <2>1, RequestLemma, ConstantsLemma DEF TypeOK, Places
  <2>3. r.at[1] = "repo" /\ r.path = f
    BY <1>3, <2>1, <2>2
  <2> QED
    BY <1>1, <2>1, <2>3, SMTT(40) DEF PromptsAreSeen
<1>6. CASE \E text \in Profiles : PutProviders(c, text)
  <2>1. PICK text \in Profiles : PutProviders(c, text)
    BY <1>6
  <2>2. Providers = f
    BY <1>3, <2>1, ConstantsLemma DEF PutProviders, Layers
  <2> QED
    BY <2>1, <2>2 DEF PutProviders
<1> QED
  BY <1>4, <1>5, <1>6 DEF WritesOfThePage

(* For every set of pages, bundles and edits by hand, in every order: no   *)
(* save of a page replaces a text that its user has not seen.              *)
THEOREM SavesLoseNothingUnseen == Spec => NothingUnseenIsLost
<1>1. CanonInv /\ [Next]_vars =>
        [\A c \in Clients : WritesOfThePage(c) =>
           \A f \in Files : files'["repo"][f] # files["repo"][f] => files["repo"][f] = seen[c][f]]_vars
  BY ReplacesSeen
<1> QED
  BY CanonInvariant, <1>1, PTL DEF Spec, NothingUnseenIsLost

(* Whether a pipeline loads does not depend on the form of its text: what  *)
(* the YAML writer makes of a draft loads where the draft does.            *)
LEMMA WrittenLoads ==
  ASSUME TypeOK, NEW at \in Places, NEW body \in Yamls
  PROVE  LoadableBeside(With(at, Written(body)), at[1]) = LoadableBeside(With(at, body), at[1])
<1> DEFINE l == at[1]
           v == With(at, body)
           w == With(at, Written(body))
           child == [n \in Ids |-> <<l, n>>]
           places == {l} \X Ids
<1>1. l \in Layers /\ at[2] \in Ids /\ at[2] \in Files /\ at = <<l, at[2]>> /\ at[2] \notin Prompts
  BY ConstantsLemma DEF Places
<1>2. files[l] \in [Files -> Texts \cup {None}] /\ DOMAIN files = Layers
  BY <1>1, ConstantsLemma DEF TypeOK
<1>3. /\ v[l] = [files[l] EXCEPT ![at[2]] = body] /\ w[l] = [files[l] EXCEPT ![at[2]] = Written(body)]
  BY <1>1, <1>2 DEF With
<1>4. v[l][at[2]] = body /\ w[l][at[2]] = Written(body)
        /\ \A f \in Files \ {at[2]} : v[l][f] = w[l][f]
  BY <1>1, <1>2, <1>3
<1>5. body \in Pipelines /\ Written(body) \in Yamls
  BY CanonAssumption DEF CanonAssumption
<1>6. /\ Written(body).nests = body.nests /\ Written(body).with = body.with
      /\ Written(body).inputs = body.inputs /\ Written(body).prompts = body.prompts
      /\ body.prompts \subseteq Prompts /\ body.nests \subseteq Ids
  BY <1>5 DEF Written, Pipelines
<1>7. Parses(body) /\ Parses(Written(body))
  BY <1>5, CanonAssumption DEF Parses, Texts, CanonAssumption
<1> HIDE DEF v, w, l
<1>8. ASSUME NEW p \in places
      PROVE  /\ Parses(v[p[1]][p[2]]) <=> Parses(w[p[1]][p[2]])
             /\ v[p[1]][p[2]].nests = w[p[1]][p[2]].nests /\ v[p[1]][p[2]].with = w[p[1]][p[2]].with
             /\ v[p[1]][p[2]].inputs = w[p[1]][p[2]].inputs /\ v[p[1]][p[2]].prompts = w[p[1]][p[2]].prompts
  <2>1. p[1] = l /\ p[2] \in Ids /\ p[2] \in Files
    BY <1>8, ConstantsLemma
  <2>2. CASE p[2] = at[2]
    BY <1>4, <1>6, <1>7, <2>1, <2>2
  <2>3. CASE p[2] # at[2]
    BY <1>4, <2>1, <2>3
  <2> QED
    BY <2>2, <2>3
<1>9. ASSUME NEW p \in places, Parses(v[p[1]][p[2]])
      PROVE  v[p[1]][p[2]].prompts \subseteq Prompts /\ v[p[1]][p[2]].nests \subseteq Ids
  <2>1. p[1] = l /\ p[2] \in Ids /\ p[2] \in Files
    BY <1>9, ConstantsLemma
  <2>2. CASE p[2] = at[2]
    BY <1>4, <1>6, <2>1, <2>2
  <2>3. CASE p[2] # at[2]
    <3>1. v[l][p[2]] = files[l][p[2]] /\ files[l] \in Contents
      BY <1>1, <1>2, <1>3, <2>1, <2>3 DEF TypeOK
    <3> QED
      BY <1>9, <2>1, <3>1, YamlLemma DEF Pipelines
  <2> QED
    BY <2>2, <2>3
<1>10. ASSUME NEW p \in places, Parses(v[p[1]][p[2]])
       PROVE  PromptsFit(v, p) <=> PromptsFit(w, p)
  <2>1. \A q \in v[p[1]][p[2]].prompts : v[p[1]][q] = w[p[1]][q]
    BY <1>1, <1>4, <1>9, <1>10, ConstantsLemma
  <2> QED
    BY <1>8, <1>10, <2>1 DEF PromptsFit
<1>11. Fit(v, places) = Fit(w, places)
  BY <1>8, <1>10 DEF Fit
<1>12. \A p \in Fit(v, places) : p \in places /\ Parses(v[p[1]][p[2]])
  BY DEF Fit
<1>13. Whole(v, places, child) = Whole(w, places, child)
  <2>1. ASSUME NEW p \in Fit(v, places)
        PROVE  (\A n \in v[p[1]][p[2]].nests : /\ child[n] \in Fit(v, places)
                                               /\ v[p[1]][p[2]].with \subseteq v[child[n][1]][child[n][2]].inputs)
           <=> (\A n \in w[p[1]][p[2]].nests : /\ child[n] \in Fit(w, places)
                                               /\ w[p[1]][p[2]].with \subseteq w[child[n][1]][child[n][2]].inputs)
    <3>1. \A n \in v[p[1]][p[2]].nests : child[n] \in Fit(v, places) =>
            v[child[n][1]][child[n][2]].inputs = w[child[n][1]][child[n][2]].inputs
      BY <1>8, <1>12
    <3> HIDE DEF places, child
    <3> QED
      BY <1>8, <1>11, <1>12, <2>1, <3>1
  <2> HIDE DEF places, child
  <2> QED
    BY <1>11, <2>1 DEF Whole
<1>14. Whole(v, places, child) \subseteq places
  BY <1>12 DEF Whole
<1> DEFINE whole == Whole(v, places, child)
<1>15. [p \in whole |-> {child[n] : n \in v[p[1]][p[2]].nests}]
         = [p \in whole |-> {child[n] : n \in w[p[1]][p[2]].nests}]
  <2>1. \A p \in whole : v[p[1]][p[2]].nests = w[p[1]][p[2]].nests
    BY <1>8, <1>14
  <2> HIDE DEF places, child, whole
  <2> QED
    BY <2>1
<1>16. Loadable(v, places, child) = Loadable(w, places, child)
  <2> HIDE DEF places, child
  <2> QED
    BY <1>13, <1>15 DEF Loadable
<1> QED
  BY <1>16 DEF LoadableBeside, v, w, l

(* For every set of files, in every order of saves, imports, forks,        *)
(* deletions and edits by hand: what a page writes loads from the files on *)
(* disk, the saved draft in the form the YAML writer gives it.             *)
THEOREM WhatIsSavedLoads == Spec => EditsKeepLoading
<1>1. ASSUME CanonInv, NEW c \in Clients, SaveAnswered(c), files' # files
      PROVE  draft[c].at \in LoadableBeside(files', draft[c].at[1])
  <2> DEFINE d == draft[c]
  <2>1. TypeOK /\ SavesHaveDrafts
    BY <1>1 DEF CanonInv, SeenInv
  <2>2. ValidDraft(d) /\ files' = With(d.at, Written(d.body))
    BY <1>1 DEF SaveAnswered
  <2>3. d \in DraftType /\ d.at \in Places
    BY <1>1, <2>1, SavingLemma DEF DraftType
  <2>4. d.body \in Yamls
    BY <2>1, <2>2, <2>3, ValidLemma
  <2>5. d.at \in LoadableBeside(With(d.at, d.body), d.at[1])
    BY <2>2 DEF ValidDraft
  <2> HIDE DEF d
  <2>6. d.at \in LoadableBeside(files', d.at[1])
    BY <2>1, <2>2, <2>3, <2>4, <2>5, WrittenLoads, SMTT(40)
  <2> QED
    BY <2>6 DEF d
<1>2. ASSUME CanonInv, NEW c \in Clients, PromptAnswered(c), files' # files
      PROVE  request[c].at \in LoadableBeside(files', request[c].at[1])
  BY <1>2 DEF PromptAnswered
<1>3. CanonInv /\ [Next]_vars =>
        [\A c \in Clients :
           /\ SaveAnswered(c) /\ files' # files => draft[c].at \in LoadableBeside(files', draft[c].at[1])
           /\ PromptAnswered(c) /\ files' # files =>
                request[c].at \in LoadableBeside(files', request[c].at[1])]_vars
  BY <1>1, <1>2
<1> QED
  BY CanonInvariant, <1>3, PTL DEF Spec, EditsKeepLoading

(***************************************************************************)
(* Bundles.  What loads through the merged view is closed under nesting,   *)
(* and so is what the closure reaches; each pass of the loader over the    *)
(* merged view is matched by a pass over the unpacked bundle.              *)
(***************************************************************************)
LEMMA IdsLemma == Cardinality(Ids) \in Nat /\ IsFiniteSet(Ids)
BY FS_CardinalityType, CanonAssumption DEF CanonAssumption

(* Places that are grounded wait for grounded ones.                        *)
LEMMA GroundedClosed ==
  ASSUME NEW places, NEW needs, NEW p \in Grounded(places, needs)
  PROVE  needs[p] \subseteq Grounded(places, needs)
<1> DEFINE N == Cardinality(Ids)
<1>0. PICK pass : ArePasses(places, needs, pass)
  BY PassesLemma
<1>1. /\ pass \in [0 .. N -> SUBSET places]
      /\ Grounded(places, needs) = pass[N] /\ pass[0] = {}
      /\ \A n \in 1 .. N : pass[n] = {q \in places : needs[q] \subseteq pass[n - 1]}
  BY <1>0 DEF ArePasses
<1>2. N \in Nat
  BY IdsLemma
<1> HIDE DEF N
<1> DEFINE G == {n \in 0 .. N : n < N => pass[n] \subseteq pass[n + 1]}
<1>3. 0 \in G
  BY <1>1, <1>2
<1>4. ASSUME NEW n \in 0 .. N, n < N, n \in G PROVE n + 1 \in G
  <2>1. n + 1 \in 1 .. N /\ n + 1 \in 0 .. N /\ (n + 1) - 1 = n
    BY <1>2, <1>4
  <2>2. CASE n + 1 < N
    <3>1. (n + 1) + 1 \in 1 .. N /\ ((n + 1) + 1) - 1 = n + 1
      BY <1>2, <2>1, <2>2
    <3>2. pass[n + 1] = {q \in places : needs[q] \subseteq pass[n]}
      BY <1>1, <2>1
    <3>3. pass[(n + 1) + 1] = {q \in places : needs[q] \subseteq pass[n + 1]}
      BY <1>1, <3>1
    <3>4. pass[n] \subseteq pass[n + 1]
      BY <1>4
    <3> QED
      BY <2>1, <3>2, <3>3, <3>4
  <2> QED
    BY <2>1, <2>2
<1> HIDE DEF G
<1>5. 0 .. N \subseteq G
  BY <1>2, <1>3, <1>4, BoundedInduction
<1>6. p \in pass[N] /\ N # 0
  BY <1>1
<1>7. N - 1 \in 0 .. N /\ N - 1 < N /\ (N - 1) + 1 = N /\ N \in 1 .. N
  BY <1>2, <1>6
<1>8. pass[N - 1] \subseteq pass[N]
  BY <1>5, <1>7 DEF G
<1>9. needs[p] \subseteq pass[N - 1]
  BY <1>1, <1>6, <1>7
<1> QED
  BY <1>1, <1>8, <1>9

(* If the places that some of them wait for are among these, and their     *)
(* images wait for images only, the images of grounded ones are grounded.  *)
Follows(P, needs, Q, waits, X, h) ==
  \A p \in P \cap X : h[p] \in Q /\ \A q \in waits[h[p]] : \E r \in needs[p] \cap X : q = h[r]

LEMMA GroundedTransfer ==
  ASSUME NEW P, NEW needs, NEW Q, NEW waits, NEW X, NEW h, Follows(P, needs, Q, waits, X, h),
         NEW p \in Grounded(P, needs) \cap X
  PROVE  h[p] \in Grounded(Q, waits)
<1> DEFINE N == Cardinality(Ids)
<1>1. PICK pass : ArePasses(P, needs, pass)
  BY PassesLemma
<1>2. PICK step : ArePasses(Q, waits, step)
  BY PassesLemma
<1>3. N \in Nat
  BY IdsLemma
<1>p. /\ Grounded(P, needs) = pass[N] /\ pass[0] = {}
      /\ \A n \in 1 .. N : pass[n] = {q \in P : needs[q] \subseteq pass[n - 1]}
  BY <1>1 DEF ArePasses
<1>q. /\ Grounded(Q, waits) = step[N] /\ step[0] = {}
      /\ \A n \in 1 .. N : step[n] = {q \in Q : waits[q] \subseteq step[n - 1]}
  BY <1>2 DEF ArePasses
<1> HIDE DEF N
<1> DEFINE G == {n \in 0 .. N : \A q \in pass[n] \cap X : h[q] \in step[n]}
<1>4. 0 \in G
  BY <1>p, <1>3
<1>5. ASSUME NEW n \in 0 .. N, n < N, n \in G PROVE n + 1 \in G
  <2>1. n + 1 \in 1 .. N /\ n + 1 \in 0 .. N /\ (n + 1) - 1 = n
    BY <1>3, <1>5
  <2>2. ASSUME NEW q \in pass[n + 1] \cap X PROVE h[q] \in step[n + 1]
    <3>1. q \in P /\ needs[q] \subseteq pass[n]
      BY <1>p, <2>1, <2>2
    <3>2. h[q] \in Q /\ \A s \in waits[h[q]] : \E r \in needs[q] \cap X : s = h[r]
      BY <2>2, <3>1 DEF Follows
    <3>3. waits[h[q]] \subseteq step[n]
      BY <1>5, <3>1, <3>2
    <3> QED
      BY <1>q, <2>1, <3>2, <3>3
  <2> QED
    BY <2>1, <2>2
<1> HIDE DEF G
<1>6. 0 .. N \subseteq G
  BY <1>3, <1>4, <1>5, BoundedInduction
<1>7. N \in G
  BY <1>3, <1>6
<1> QED
  BY <1>p, <1>q, <1>7 DEF G

(* The closure: what is reached is closed, and nothing else is reached.    *)
More(nests, ids) == ids \cup UNION {nests[i] : i \in ids}

LEMMA ReachClosed ==
  ASSUME NEW nests \in [Ids -> SUBSET Ids], NEW root \in Ids,
         NEW pass \in [0 .. Cardinality(Ids) -> SUBSET Ids], pass[0] = {root},
         \A n \in 1 .. Cardinality(Ids) : pass[n] = More(nests, pass[n - 1])
  PROVE  More(nests, pass[Cardinality(Ids)]) = pass[Cardinality(Ids)]
<1> DEFINE N == Cardinality(Ids)
           G == {n \in 0 .. N : More(nests, pass[n]) = pass[n] \/ Cardinality(pass[n]) > n}
<1>1. N \in Nat /\ IsFiniteSet(Ids)
  BY IdsLemma
<1>2. \A n \in 0 .. N : IsFiniteSet(pass[n]) /\ Cardinality(pass[n]) \in Nat /\ Cardinality(pass[n]) <= N
  BY <1>1, FS_Subset, FS_CardinalityType
<1> HIDE DEF N
<1>3. 0 \in G
  <2>1. Cardinality({root}) = 1
    BY FS_Singleton
  <2>2. Cardinality(pass[0]) = 1
    BY <2>1, Zenon
  <2>3. 0 \in 0 .. N /\ 1 > 0
    BY <1>1
  <2> QED
    BY <2>2, <2>3
<1>4. ASSUME NEW n \in 0 .. N, n < N, n \in G PROVE n + 1 \in G
  <2>1. n + 1 \in 1 .. N /\ n + 1 \in 0 .. N /\ (n + 1) - 1 = n
    BY <1>1, <1>4
  <2>2. pass[n + 1] = More(nests, pass[n])
    BY <2>1 DEF N
  <2>3. CASE More(nests, pass[n]) = pass[n]
    BY <2>1, <2>2, <2>3
  <2>4. CASE More(nests, pass[n]) # pass[n]
    <3>1. Cardinality(pass[n]) > n
      BY <1>4, <2>4
    <3>2. pass[n] \subseteq pass[n + 1] /\ pass[n] # pass[n + 1]
      BY <2>2, <2>4 DEF More
    <3>3. Cardinality(pass[n]) < Cardinality(pass[n + 1])
      BY <1>2, <2>1, <3>2, FS_Subset, FS_CardinalityType
    <3> QED
      BY <1>2, <2>1, <3>1, <3>3
  <2> QED
    BY <2>3, <2>4
<1> HIDE DEF G
<1>i. 0 .. N \subseteq G
  BY <1>1, <1>3, <1>4, BoundedInduction
<1>5. N \in G
  BY <1>1, <1>i
<1>6. ~ (Cardinality(pass[N]) > N)
  BY <1>1, <1>2
<1> QED
  BY <1>5, <1>6 DEF G, N

LEMMA ReachLeast ==
  ASSUME NEW nests \in [Ids -> SUBSET Ids], NEW root \in Ids,
         NEW pass \in [0 .. Cardinality(Ids) -> SUBSET Ids], pass[0] = {root},
         \A n \in 1 .. Cardinality(Ids) : pass[n] = More(nests, pass[n - 1]),
         NEW X, root \in X, \A i \in X \cap Ids : nests[i] \subseteq X
  PROVE  root \in pass[Cardinality(Ids)] /\ pass[Cardinality(Ids)] \subseteq X
<1> DEFINE N == Cardinality(Ids)
           G == {n \in 0 .. N : root \in pass[n] /\ pass[n] \subseteq X}
<1>1. N \in Nat
  BY IdsLemma
<1>2. 0 \in G
  BY <1>1
<1>3. ASSUME NEW n \in 0 .. N, n < N, n \in G PROVE n + 1 \in G
  <2>1. n + 1 \in 1 .. N /\ n + 1 \in 0 .. N /\ (n + 1) - 1 = n
    BY <1>1, <1>3
  <2>2. pass[n + 1] = More(nests, pass[n])
    BY <2>1
  <2> QED
    BY <1>3, <2>1, <2>2 DEF More
<1> HIDE DEF G
<1> HIDE DEF N
<1>i. 0 .. N \subseteq G
  BY <1>1, <1>2, <1>3, BoundedInduction
<1>4. N \in G
  BY <1>1, <1>i
<1> QED
  BY <1>4 DEF G, N

(* The text of the merged view's entry for an id.                          *)
Text(i) == files[Merged[i][1]][Merged[i][2]]

LEMMA MergedLemma ==
  ASSUME TypeOK, NEW i \in Ids, Merged[i] # None
  PROVE  /\ Merged[i] \in Places /\ Merged[i][1] \in Layers /\ Merged[i][2] \in Ids
         /\ files[Merged[i][1]] \in Contents
         /\ Parses(Text(i)) /\ Text(i) \in Yamls /\ Text(i) \in Pipelines /\ Text(i).id = i
<1>1. Merged[i] = Winner(files, Present, i) /\ Present \in SUBSET Layers
  BY DEF Merged, Present
<1>2. Holders(files, Present, i) # {}
  BY <1>1 DEF Winner
<1>3. Merged[i] \in Holders(files, Present, i)
  BY <1>1, <1>2, WinnerLemma
<1>4. Merged[i] \in Places /\ Parses(Text(i)) /\ Text(i).id = i
  BY <1>1, <1>3 DEF Holders, Places, Text
<1>5. Merged[i][1] \in Layers /\ Merged[i][2] \in Ids /\ files[Merged[i][1]] \in Contents
  BY <1>4 DEF Places, TypeOK
<1> QED
  BY <1>4, <1>5, YamlLemma DEF Text

(* What loads through the merged view.                                     *)
Loaded(i) == Merged[i] \in LoadableMerged(files, Merged)

LEMMA LoadedLemma ==
  ASSUME TypeOK, NEW i \in Ids, Loaded(i)
  PROVE  /\ Merged[i] # None /\ PromptsFit(files, Merged[i])
         /\ \A n \in Text(i).nests : n \in Ids /\ Loaded(n) /\ Text(i).with \subseteq Text(n).inputs
<1> DEFINE places == {Merged[j] : j \in Ids} \ {None}
           whole == Whole(files, places, Merged)
           needs == [p \in whole |-> {Merged[n] : n \in files[p[1]][p[2]].nests}]
<1>1. LoadableMerged(files, Merged) = Grounded(whole, needs)
  BY DEF LoadableMerged, Loadable
<1>2. Merged[i] \in whole
  BY <1>1, GroundedLemma DEF Loaded
<1>3. Merged[i] \in Fit(files, places)
        /\ \A n \in Text(i).nests : Merged[n] \in Fit(files, places) /\ Text(i).with \subseteq Text(n).inputs
  BY <1>2 DEF Whole, Text
<1>4. Merged[i] # None /\ PromptsFit(files, Merged[i])
  BY <1>3 DEF Fit
<1>5. Text(i).nests \subseteq Ids
  BY <1>4, MergedLemma DEF Pipelines
<1>6. needs[Merged[i]] = {Merged[n] : n \in Text(i).nests}
  BY <1>2 DEF Text
<1> HIDE DEF whole, needs
<1>7. needs[Merged[i]] \subseteq Grounded(whole, needs)
  BY <1>1, GroundedClosed DEF Loaded
<1> QED
  BY <1>1, <1>3, <1>4, <1>5, <1>6, <1>7 DEF Loaded

(* The closure over the merged view.                                       *)
NestsOf == [i \in Ids |-> IF Merged[i] # None THEN Text(i).nests ELSE {}]

LEMMA NestsLemma ==
  ASSUME TypeOK
  PROVE  NestsOf \in [Ids -> SUBSET Ids]
<1>1. \A i \in Ids : Merged[i] # None => Text(i).nests \subseteq Ids
  BY MergedLemma DEF Pipelines
<1> QED
  BY <1>1 DEF NestsOf

LEMMA ClosureLemma ==
  ASSUME TypeOK, NEW root \in Ids
  PROVE  \E pass \in [0 .. Cardinality(Ids) -> SUBSET Ids] :
           /\ Closure(Merged, root) = pass[Cardinality(Ids)] /\ pass[0] = {root}
           /\ \A n \in 1 .. Cardinality(Ids) : pass[n] = More(NestsOf, pass[n - 1])
<1> DEFINE N == Cardinality(Ids)
           more(ids) == ids \cup UNION {files[Merged[i][1]][Merged[i][2]].nests : i \in {j \in ids : Merged[j] # None}}
           F == [ids \in SUBSET Ids |-> More(NestsOf, ids)]
           pass[n \in 0 .. N] == IF n = 0 THEN {root} ELSE more(pass[n - 1])
<1>1. N \in Nat
  BY IdsLemma
<1>2. NestsOf \in [Ids -> SUBSET Ids]
  BY NestsLemma
<1>3. F \in [SUBSET Ids -> SUBSET Ids]
  BY <1>2 DEF More
<1>4. \A ids \in SUBSET Ids : more(ids) = More(NestsOf, ids)
  BY DEF More, NestsOf, Text
<1>5. Closure(Merged, root) = pass[N]
  BY DEF Closure
<1> HIDE DEF N, F, more
<1>6. PICK g : Iterates(N, Ids, F, {root}, g)
  <2>1. {root} \in SUBSET Ids
    OBVIOUS
  <2> QED
    BY <1>1, <1>3, <2>1, IterationExists
<1>7. \A n \in 0 .. N : g[n] \in SUBSET Ids
  BY <1>6 DEF Iterates
<1>8. \A n \in 0 .. N : g[n] = IF n = 0 THEN {root} ELSE more(g[n - 1])
  <2> SUFFICES ASSUME NEW n \in 0 .. N, n # 0 PROVE g[n] = more(g[n - 1])
    BY <1>6 DEF Iterates
  <2>1. n - 1 \in 0 .. N /\ n \in 1 .. N
    BY <1>1
  <2>2. g[n] = F[g[n - 1]] /\ g[n - 1] \in SUBSET Ids
    BY <1>6, <1>7, <2>1 DEF Iterates
  <2> QED
    BY <1>4, <2>2 DEF F
<1>9. g = [n \in 0 .. N |-> IF n = 0 THEN {root} ELSE more(g[n - 1])]
  BY <1>6, <1>8 DEF Iterates
<1>10. pass = [n \in 0 .. N |-> IF n = 0 THEN {root} ELSE more(pass[n - 1])]
  BY <1>9
<1> HIDE DEF pass
<1>11. \A n \in 0 .. N : pass[n] = IF n = 0 THEN {root} ELSE more(pass[n - 1])
  BY <1>10
<1> DEFINE G == {n \in 0 .. N : pass[n] \in SUBSET Ids}
<1>12. 0 \in G
  BY <1>1, <1>11
<1>13. ASSUME NEW n \in 0 .. N, n < N, n \in G PROVE n + 1 \in G
  <2>1. n + 1 \in 0 .. N /\ n + 1 # 0 /\ (n + 1) - 1 = n
    BY <1>1, <1>13
  <2>2. pass[n + 1] = More(NestsOf, pass[n]) /\ pass[n] \in SUBSET Ids
    BY <1>4, <1>11, <1>13, <2>1
  <2> QED
    BY <1>2, <2>1, <2>2 DEF More
<1> HIDE DEF G
<1>14. 0 .. N \subseteq G
  BY <1>1, <1>12, <1>13, BoundedInduction
<1>15. \A n \in 0 .. N : pass[n] \in SUBSET Ids
  BY <1>14 DEF G
<1>16. pass \in [0 .. N -> SUBSET Ids]
  BY <1>10, <1>15
<1>17. pass[0] = {root} /\ \A n \in 1 .. N : pass[n] = More(NestsOf, pass[n - 1])
  <2>1. 0 \in 0 .. N /\ \A n \in 1 .. N : n \in 0 .. N /\ n # 0 /\ n - 1 \in 0 .. N
    BY <1>1
  <2> QED
    BY <1>4, <1>11, <1>15, <2>1
<1> QED
  BY <1>5, <1>16, <1>17 DEF N

LEMMA ReachedLemma ==
  ASSUME TypeOK, NEW root \in Ids, Loaded(root)
  PROVE  /\ root \in Closure(Merged, root)
         /\ \A i \in Closure(Merged, root) :
              i \in Ids /\ Loaded(i) /\ Text(i).nests \subseteq Closure(Merged, root)
<1> DEFINE ids == Closure(Merged, root)
           X == {i \in Ids : Loaded(i)}
<1>1. PICK pass \in [0 .. Cardinality(Ids) -> SUBSET Ids] :
        /\ ids = pass[Cardinality(Ids)] /\ pass[0] = {root}
        /\ \A n \in 1 .. Cardinality(Ids) : pass[n] = More(NestsOf, pass[n - 1])
  BY ClosureLemma
<1>2. NestsOf \in [Ids -> SUBSET Ids]
  BY NestsLemma
<1>3. \A i \in Ids : Merged[i] # None => NestsOf[i] = Text(i).nests
  BY DEF NestsOf
<1>4. root \in X /\ \A i \in X \cap Ids : NestsOf[i] \subseteq X
  BY <1>3, LoadedLemma
<1> HIDE DEF X, ids
<1>5. root \in ids /\ ids \subseteq X
  BY <1>1, <1>2, <1>4, ReachLeast
<1>6. More(NestsOf, ids) = ids
  BY <1>1, <1>2, ReachClosed
<1>7. \A i \in ids : i \in Ids /\ Loaded(i)
  BY <1>5 DEF X
<1>8. \A i \in ids : NestsOf[i] \subseteq ids
  BY <1>6 DEF More
<1> QED
  BY <1>3, <1>5, <1>7, <1>8, LoadedLemma DEF ids

(* No two pipelines of these name one prompt path in two layers.           *)
Apart(ids) ==
  \A i, j \in ids : Text(i).prompts \cap Text(j).prompts # {} => Merged[i][1] = Merged[j][1]

(* A prompt of a pipeline that is reached has one text, and it fits.       *)
LEMMA NotesLemma ==
  ASSUME TypeOK, NEW root \in Ids, Loaded(root), Apart(Closure(Merged, root)),
         NEW i \in Closure(Merged, root), NEW q \in Text(i).prompts
  PROVE  /\ NotesFor(Merged, q, Closure(Merged, root)) = {files[Merged[i][1]][q]}
         /\ q \in Prompts
         /\ files[Merged[i][1]][q] \in Notes /\ files[Merged[i][1]][q].asks \subseteq Text(i).inputs
<1> DEFINE ids == Closure(Merged, root)
           naming == {j \in ids : q \in Text(j).prompts}
<1>1. root \in ids /\ i \in ids /\ i \in Ids /\ Loaded(i)
  BY ReachedLemma
<1>2. \A j \in naming : Merged[j][1] = Merged[i][1]
  BY DEF Apart
<1>3. NotesFor(Merged, q, ids) = {files[Merged[j][1]][q] : j \in naming}
  BY DEF NotesFor, Text
<1>4. i \in naming
  BY <1>1
<1>5. NotesFor(Merged, q, ids) = {files[Merged[i][1]][q]}
  <2> HIDE DEF naming, ids
  <2> QED
    BY <1>2, <1>3, <1>4
<1>6. Merged[i] # None /\ PromptsFit(files, Merged[i])
  BY <1>1, LoadedLemma
<1>7. Text(i) \in Pipelines
  BY <1>1, <1>6, MergedLemma
<1>8. q \in Prompts
  BY <1>7 DEF Pipelines
<1>9. files[Merged[i][1]][q] \in Notes /\ files[Merged[i][1]][q].asks \subseteq Text(i).inputs
  BY <1>6 DEF PromptsFit, Text
<1> QED
  BY <1>5, <1>8, <1>9

(* What an export writes.                                                  *)
Holds(b, root) ==
  /\ \A f \in Closure(Merged, root) : b[f] = Text(f)
  /\ \A f \in Ids \ Closure(Merged, root) : b[f] = None
  /\ \A i \in Closure(Merged, root) : \A q \in Text(i).prompts : b[q] = files[Merged[i][1]][q]
  /\ b[Providers] = files[Merged[root][1]][Providers]

LEMMA ExportedLemma ==
  ASSUME TypeOK, NEW root \in Ids, Loaded(root), Apart(Closure(Merged, root))
  PROVE  Exported(Merged, root) # {} /\ \A b \in Exported(Merged, root) : Holds(b, root)
<1> DEFINE ids == Closure(Merged, root)
           named == UNION {Text(i).prompts : i \in ids}
           choices == {n \in [named -> Notes \cup {Broken}] :
                         \A q \in named : n[q] \in NotesFor(Merged, q, ids)}
           bundle(n) == [f \in Files |->
             IF f \in ids THEN Text(f)
             ELSE IF f \in named THEN n[f]
             ELSE IF f = Providers THEN files[Merged[root][1]][f] ELSE None]
<1>1. \A i \in ids : i \in Ids /\ Merged[i] # None
  BY ReachedLemma, LoadedLemma
<1>2. Exported(Merged, root) = {bundle(n) : n \in choices}
  BY <1>1 DEF Exported, Text
<1>3. \A i \in ids : \A q \in Text(i).prompts :
        /\ NotesFor(Merged, q, ids) = {files[Merged[i][1]][q]}
        /\ q \in Prompts /\ files[Merged[i][1]][q] \in Notes
  BY NotesLemma
<1>4. \E n \in choices : TRUE
  <2> DEFINE m == [q \in named |-> files[Merged[CHOOSE i \in ids : q \in Text(i).prompts][1]][q]]
  <2>1. \A q \in named : m[q] \in Notes /\ m[q] \in NotesFor(Merged, q, ids)
    <3> TAKE q \in named
    <3> DEFINE j == CHOOSE i \in ids : q \in Text(i).prompts
    <3>1. j \in ids /\ q \in Text(j).prompts
      OBVIOUS
    <3>2. m[q] = files[Merged[j][1]][q]
      OBVIOUS
    <3> HIDE DEF j, m, ids, named
    <3> QED
      BY <1>3, <3>1, <3>2
  <2>2. m \in [named -> Notes \cup {Broken}]
    <3> HIDE DEF ids
    <3> QED
      BY <2>1
  <2> HIDE DEF m, named
  <2> QED
    BY <2>1, <2>2
<1>5. ASSUME NEW n \in choices PROVE Holds(bundle(n), root)
  <2>0. named \subseteq Prompts /\ \A q \in named : n[q] \in NotesFor(Merged, q, ids)
    BY <1>3, <1>5
  <2> DEFINE b == bundle(n)
  <2>1. \A f \in ids : b[f] = Text(f)
    BY <1>1, ConstantsLemma
  <2>2. \A f \in Ids \ ids : b[f] = None
    BY <2>0, ConstantsLemma
  <2>3. \A q \in named : b[q] = n[q]
    BY <1>1, <2>0, ConstantsLemma
  <2>4. b[Providers] = files[Merged[root][1]][Providers]
    <3>1. Providers \in Files /\ Providers \notin ids /\ Providers \notin named
      <4> HIDE DEF ids, named
      <4> QED
        BY <1>1, <2>0, ConstantsLemma, CanonAssumption DEF CanonAssumption
    <3> HIDE DEF ids, named
    <3> QED
      BY <3>1
  <2>5. \A i \in ids : \A q \in Text(i).prompts : b[q] = files[Merged[i][1]][q]
    <3> TAKE i \in ids
    <3> TAKE q \in Text(i).prompts
    <3>1. q \in named /\ n[q] \in {files[Merged[i][1]][q]}
      BY <1>3, <2>0
    <3> HIDE DEF b, named, ids
    <3> QED
      BY <2>3, <3>1
  <2> HIDE DEF b
  <2> QED
    BY <2>1, <2>2, <2>4, <2>5 DEF Holds, b
<1> HIDE DEF choices, bundle
<1> QED
  BY <1>2, <1>4, <1>5

(* Each pass over the merged view is matched by one over the bundle.       *)
LEMMA ImportLemma ==
  ASSUME TypeOK, NEW root \in Ids, Loaded(root), Apart(Closure(Merged, root)),
         files[Merged[root][1]][Providers] # Broken, NEW b, Holds(b, root)
  PROVE  Importable(b)
<1> DEFINE ids == Closure(Merged, root)
           view == [l \in Layers |-> IF l = "repo" THEN b ELSE NoFiles]
           top == {Merged[j] : j \in Ids} \ {None}
           P == Whole(files, top, Merged)
           needs == [p \in P |-> {Merged[n] : n \in files[p[1]][p[2]].nests}]
           beside == {"repo"} \X Ids
           child == [n \in Ids |-> <<"repo", n>>]
           Q == Whole(view, beside, child)
           waits == [p \in Q |-> {child[n] : n \in view[p[1]][p[2]].nests}]
           X == {Merged[i] : i \in ids}
           h == [p \in X |-> <<"repo", files[p[1]][p[2]].id>>]
<1>1. \A i \in ids : i \in Ids /\ Loaded(i) /\ Text(i).nests \subseteq ids
  BY ReachedLemma
<1>2. \A i \in ids : Merged[i] # None /\ Parses(Text(i)) /\ Text(i).id = i
  BY <1>1, LoadedLemma, MergedLemma
<1>3. \A i \in ids : \A n \in Text(i).nests : Text(i).with \subseteq Text(n).inputs
  BY <1>1, LoadedLemma
<1>4. LoadableMerged(files, Merged) = Grounded(P, needs)
  BY DEF LoadableMerged, Loadable
<1>5. LoadableAlone(b) = Grounded(Q, waits)
  BY DEF LoadableAlone, LoadableBeside, Loadable
<1>6. view["repo"] = b
  BY DEF Layers
<1>7. \A i \in ids : b[i] = Text(i) /\ \A q \in Text(i).prompts : b[q] = files[Merged[i][1]][q]
  BY DEF Holds
<1>8. \A i \in ids : <<"repo", i>> \in Fit(view, beside)
  <2> TAKE i \in ids
  <2>1. <<"repo", i>> \in beside /\ Parses(view["repo"][i]) /\ view["repo"][i] = Text(i)
    BY <1>1, <1>2, <1>6, <1>7
  <2>2. \A q \in Text(i).prompts :
          view["repo"][q] \in Notes /\ view["repo"][q].asks \subseteq Text(i).inputs
    BY <1>6, <1>7, NotesLemma
  <2>3. PromptsFit(view, <<"repo", i>>)
    <3> HIDE DEF view
    <3> QED
      BY <2>1, <2>2 DEF PromptsFit
  <2> HIDE DEF view, beside
  <2> QED
    BY <2>1, <2>3 DEF Fit
<1>9. \A i \in ids : <<"repo", i>> \in Q /\ waits[<<"repo", i>>] = {<<"repo", n>> : n \in Text(i).nests}
  <2> TAKE i \in ids
  <2>1. view["repo"][i] = Text(i) /\ Text(i).nests \subseteq ids /\ Text(i).nests \subseteq Ids
    BY <1>1, <1>6, <1>7
  <2>2. \A n \in Text(i).nests :
          child[n] = <<"repo", n>> /\ child[n] \in Fit(view, beside) /\ view["repo"][n] = Text(n)
    BY <1>6, <1>7, <1>8, <2>1
  <2> HIDE DEF view, beside, child, ids
  <2>3. <<"repo", i>> \in Q
    BY <1>3, <1>8, <2>1, <2>2 DEF Whole
  <2>4. waits[<<"repo", i>>] = {child[n] : n \in view["repo"][i].nests}
    <3> HIDE DEF Q
    <3> QED
      BY <2>3
  <2> HIDE DEF waits, Q
  <2> QED
    BY <2>1, <2>2, <2>3, <2>4
<1>10. \A i \in ids : Merged[i] \in X /\ h[Merged[i]] = <<"repo", i>>
  BY <1>2 DEF Text
<1>11. \A i \in ids : Merged[i] \in P => needs[Merged[i]] = {Merged[n] : n \in Text(i).nests}
  BY DEF Text
<1> HIDE DEF P, needs, Q, waits, X, h, ids
<1>12. Follows(P, needs, Q, waits, X, h)
  <2> SUFFICES ASSUME NEW p \in P \cap X
               PROVE  h[p] \in Q /\ \A q \in waits[h[p]] : \E r \in needs[p] \cap X : q = h[r]
    BY DEF Follows
  <2>1. PICK i \in ids : p = Merged[i]
    BY DEF X
  <2>2. h[p] = <<"repo", i>> /\ h[p] \in Q /\ waits[h[p]] = {<<"repo", n>> : n \in Text(i).nests}
    BY <1>9, <1>10, <2>1
  <2>3. needs[p] = {Merged[n] : n \in Text(i).nests} /\ Text(i).nests \subseteq ids
    BY <1>1, <1>11, <2>1
  <2>4. ASSUME NEW q \in waits[h[p]] PROVE \E r \in needs[p] \cap X : q = h[r]
    <3>1. PICK n \in Text(i).nests : q = <<"repo", n>>
      BY <2>2, <2>4
    <3>2. Merged[n] \in needs[p] /\ Merged[n] \in X /\ h[Merged[n]] = q
      BY <1>10, <2>3, <3>1
    <3> QED
      BY <3>2
  <2> QED
    BY <2>2, <2>4
<1>13. \A i \in ids : <<"repo", i>> \in LoadableAlone(b)
  <2> TAKE i \in ids
  <2>1. Merged[i] \in Grounded(P, needs)
    BY <1>1, <1>4 DEF Loaded
  <2>2. Merged[i] \in X /\ h[Merged[i]] = <<"repo", i>>
    BY <1>10
  <2>3. h[Merged[i]] \in Grounded(Q, waits)
    BY <1>12, <2>1, <2>2, GroundedTransfer
  <2> QED
    BY <1>5, <2>2, <2>3
<1>14. {i \in Ids : b[i] # None} \subseteq ids /\ b[Providers] # Broken
  BY DEF Holds, ids
<1> HIDE DEF view, top, beside, child
<1> QED
  BY <1>13, <1>14 DEF Importable

(* A bundle means what its pipeline means here.  What loads through the    *)
(* merged view is exported, whatever else the layers hold, and each        *)
(* bundle that may result loads by itself, in any number of passes that    *)
(* the loader needed here, with the prompts its pipelines run with here.   *)
THEOREM BundlesAreFaithful == Spec => []BundleIsFaithful
<1>1. ASSUME TypeOK PROVE BundleIsFaithful
  <2> SUFFICES ASSUME NEW id \in Ids, Loaded(id), files[Merged[id][1]][Providers] # Broken,
                      Apart(Closure(Merged, id))
               PROVE  /\ Exported(Merged, id) # {}
                      /\ \A b \in Exported(Merged, id) :
                           /\ Importable(b)
                           /\ \A i \in Closure(Merged, id) : \A q \in Text(i).prompts :
                                b[q] = files[Merged[i][1]][q]
    BY DEF BundleIsFaithful, Loaded, Apart, Text
  <2>1. Exported(Merged, id) # {} /\ \A b \in Exported(Merged, id) : Holds(b, id)
    BY <1>1, ExportedLemma
  <2>2. \A b \in Exported(Merged, id) : Importable(b)
    BY <1>1, <2>1, ImportLemma
  <2> QED
    BY <2>1, <2>2 DEF Holds
<1>2. CanonInv => BundleIsFaithful
  BY <1>1 DEF CanonInv
<1> QED
  BY CanonInvariant, <1>2, PTL
=============================================================================
