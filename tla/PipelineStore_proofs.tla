------------------------ MODULE PipelineStore_proofs ------------------------
(***************************************************************************)
(* Proofs about PipelineStore, for any clients, names and slugs, however   *)
(* their steps interleave and wherever the process dies: files are found   *)
(* under the slug of their names, and, as long as no two requests in       *)
(* flight share a slug, no definition is lost and a rename takes           *)
(* everything along.                                                       *)
(*                                                                         *)
(* NothingIsLost is not inductive: it does not say that a file about to be *)
(* truncated has been archived, nor that the old file of a rename may go.  *)
(* The invariant counts a definition only where the next step cannot       *)
(* destroy it (Kept), and says what the requests have achieved so far      *)
(* (Midway).                                                               *)
(***************************************************************************)
EXTENDS PipelineStore, SequenceTheorems, TLAPS

\* A new definition is filed under its own slug; only a rename unlinks.
Shaped(r) ==
  /\ r.at \in {"archive", "truncate", "fill", "unlink"} =>
       IsWhole(r.new) /\ SlugOf[r.new.def.name] = r.to
  /\ r.at = "archive" => r.op \in {"save", "restore"}
  /\ r.at = "truncate" => r.op \in {"save", "restore", "rename", "inplace"}
  /\ r.at \in {"unlink", "move", "tags", "repoint"} => r.op = "rename"
  /\ r.at # "idle" /\ r.op = "rename" => r.from # r.to

\* How far a request has come.
Midway(r) ==
  /\ r.at = "truncate" /\ r.op = "rename" =>
       file[r.to] = NoFile /\ Bodies(file[r.from]) \subseteq Bodies(r.new)
  /\ r.at = "fill" => file[r.to] = Torn
  /\ r.at = "fill" /\ r.op = "rename" => Bodies(file[r.from]) \subseteq Bodies(r.new)
  /\ r.at = "unlink" => file[r.to] = r.new /\ Bodies(file[r.from]) \subseteq Bodies(r.new)
  /\ r.at \in {"move", "tags", "untag", "repoint"} /\ r.op = "rename" => file[r.from] = NoFile
  /\ r.at \in {"tags", "untag", "repoint"} /\ r.op = "rename" => hist[r.from] = << >>
  /\ r.at = "repoint" => r.from \notin tagged

\* No two requests in flight share a slug.
Apart == \A c, d \in Clients : c # d => Touched(req[c]) \cap Touched(req[d]) = {}

\* The file under s is archived and about to be emptied.
Risky(r, s) == r.at = "truncate" /\ r.op \in {"save", "restore"} /\ r.to = s
AtRisk(s) == \E c \in Clients : Risky(req[c], s)

InHistory(b, s) == \E i \in 1..Len(hist[s]) : b \in Bodies(hist[s][i])
Kept(b) == \E s \in Slugs : InHistory(b, s) \/ (b \in Bodies(file[s]) /\ ~AtRisk(s))
Safe == \A b \in owed : Kept(b)

Calm == Apart /\ (\A c \in Clients : Midway(req[c])) /\ Safe

IInv ==
  /\ TypeOK
  /\ FiledUnderItsName
  /\ \A c \in Clients : Shaped(req[c])
  /\ ~raced => Calm

-----------------------------------------------------------------------------
(* Lemmas about requests.                                                  *)

LEMMA ContentShape ==
  ASSUME NEW f \in {NoFile} \cup Content
  PROVE  /\ IsWhole(f) => f.def \in Definition /\ f = Whole(f.def) /\ Bodies(f) = {f.def.body}
         /\ ~IsWhole(f) => f \in {NoFile, Torn} /\ Bodies(f) = {}
         /\ NoFile # Torn /\ ~IsWhole(NoFile) /\ ~IsWhole(Torn)
  BY DEF NoFile, Content, Torn, Whole, IsWhole, Bodies

LEMMA RequestShape ==
  ASSUME NEW r \in {Idle} \cup Request
  PROVE  /\ r # Idle <=> r \in Request
         /\ r = Idle <=> r.at = "idle"
         /\ r \in Request => /\ r.at \in Places /\ r.from \in Slugs /\ r.to \in Slugs
                             /\ r.new \in {NoFile} \cup Content
                             /\ r.op \in {"save", "restore", "rename", "inplace", "delete", "tag", "schedule"}
                             /\ Touched(r) = {r.from, r.to}
         /\ Touched(Idle) = {}
  BY DEF Idle, Request, Places, Touched, Content

\* What one client does to req and raced.
LEMMA Serving ==
  ASSUME TypeOK, NEW c \in Clients, NEW r \in {Idle} \cup Request, Serve(c, r)
  PROVE  /\ req' \in [Clients -> {Idle} \cup Request]
         /\ req'[c] = r /\ \A d \in Clients \ {c} : req'[d] = req[d]
         /\ raced' \in BOOLEAN
         /\ ~raced' => /\ ~raced
                       /\ \A d \in Clients \ {c} : Touched(req[d]) \cap Touched(r) = {}
<1>1. req' = [req EXCEPT ![c] = r] /\ req \in [Clients -> {Idle} \cup Request]
  BY DEF Serve, TypeOK
<1>2. req' \in [Clients -> {Idle} \cup Request]
  BY <1>1
<1>3. req'[c] = r /\ \A d \in Clients \ {c} : req'[d] = req[d]
  BY <1>1
<1>4. raced' = (raced \/ \E d \in Clients \ {c} : Touched(req[d]) \cap Touched(r) # {})
  BY DEF Serve
<1>5. raced' \in BOOLEAN
  BY <1>4, raced \in BOOLEAN, ZenonT(20) DEF TypeOK
<1>6. ~raced' => ~raced /\ \A d \in Clients \ {c} : Touched(req[d]) \cap Touched(r) = {}
  BY <1>4, ZenonT(20)
<1> QED BY <1>2, <1>3, <1>5, <1>6

LEMMA StaysApart ==
  ASSUME TypeOK, NEW c \in Clients, NEW r \in {Idle} \cup Request, Serve(c, r), Apart, ~raced'
  PROVE  /\ Apart'
         /\ \A d \in Clients \ {c} : /\ Touched(req[d]) \cap Touched(r) = {}
                                     /\ Touched(req[d]) \cap Touched(req[c]) = {}
<1>1. req'[c] = r /\ \A d \in Clients \ {c} : req'[d] = req[d] /\ Touched(req[d]) \cap Touched(r) = {}
  BY Serving
<1>2. \A d \in Clients \ {c} : Touched(req[d]) \cap Touched(req[c]) = {}
  BY DEF Apart
<1>3. ASSUME NEW d \in Clients, NEW e \in Clients, d # e
      PROVE  Touched(req'[d]) \cap Touched(req'[e]) = {}
  <2>1. CASE d = c
    BY <1>1, <1>3, <2>1
  <2>2. CASE e = c
    BY <1>1, <1>3, <2>2
  <2>3. CASE d # c /\ e # c
    BY <1>1, <1>3, <2>3 DEF Apart
  <2> QED BY <2>1, <2>2, <2>3
<1>4. Apart'
  BY <1>3 DEF Apart, Touched
<1> QED BY <1>1, <1>2, <1>4

\* A request is where it was if nobody disturbs its slugs; versions of a slug
\* may be pruned by anyone.
LEMMA Undisturbed ==
  ASSUME TypeOK, NEW r \in {Idle} \cup Request, Midway(r),
         \A s \in Touched(r) : /\ file'[s] = file[s]
                               /\ hist[s] = << >> => hist'[s] = << >>
                               /\ s \in tagged' => s \in tagged
  PROVE  Midway(r)'
<1>1. CASE r = Idle
  BY <1>1 DEF Midway, Idle
<1>2. CASE r \in Request
  <2>1. r.from \in Touched(r) /\ r.to \in Touched(r)
    BY <1>2, RequestShape
  <2>2. /\ file'[r.from] = file[r.from] /\ file'[r.to] = file[r.to]
        /\ hist[r.from] = << >> => hist'[r.from] = << >>
        /\ r.from \in tagged' => r.from \in tagged
    BY <2>1
  <2> QED BY <2>2 DEF Midway, Bodies, IsWhole
<1> QED BY <1>1, <1>2

\* The part of the step that is the same for every action: one request moves
\* on, within its own slugs.
LEMMA OneMoves ==
  ASSUME IInv, NEW c \in Clients, NEW r \in {Idle} \cup Request, Serve(c, r),
         NEW M \in SUBSET Slugs, M \subseteq Touched(req[c]) \cup Touched(r),
         \A s \in Slugs \ M : /\ file'[s] = file[s]
                              /\ hist[s] = << >> => hist'[s] = << >>
                              /\ s \in tagged' => s \in tagged,
         ~raced', Midway(r)'
  PROVE  /\ ~raced /\ Calm /\ Apart'
         /\ \A d \in Clients : Midway(req[d])'
<1>1. TypeOK /\ ~raced /\ Calm
  BY Serving DEF IInv
<1>2. Apart' /\ \A d \in Clients \ {c} : /\ Touched(req[d]) \cap Touched(r) = {}
                                         /\ Touched(req[d]) \cap Touched(req[c]) = {}
  BY <1>1, StaysApart DEF Calm
<1>3. req'[c] = r /\ \A d \in Clients \ {c} : req'[d] = req[d]
  BY <1>1, Serving
<1>4. ASSUME NEW d \in Clients \ {c}
      PROVE  Midway(req[d])'
  <2>1. PICK q : q = req[d]
    OBVIOUS
  <2>2. q \in {Idle} \cup Request /\ Midway(q)
    BY <1>1, <2>1 DEF TypeOK, Calm
  <2>3. Touched(q) \subseteq Slugs \ M
    <3>1. Touched(q) \subseteq Slugs
      BY <2>2, RequestShape
    <3>2. Touched(q) \cap M = {}
      BY <1>2, <2>1
    <3> QED BY <3>1, <3>2
  <2>4. Midway(q)'
    BY <1>1, <2>2, <2>3, Undisturbed
  <2> QED BY <2>1, <2>4, <1>3 DEF Midway
<1>5. Midway(req[c])'
  BY <1>3 DEF Midway
<1> QED BY <1>1, <1>2, <1>4, <1>5

-----------------------------------------------------------------------------
(* Lemmas about what is kept.                                              *)

LEMMA RiskShrinks ==
  ASSUME TypeOK, NEW c \in Clients, NEW r \in {Idle} \cup Request, Serve(c, r),
         \A s \in Slugs : ~Risky(r, s),
         NEW s \in Slugs
  PROVE  AtRisk(s)' => AtRisk(s)
<1>1. req'[c] = r /\ \A d \in Clients \ {c} : req'[d] = req[d]
  BY Serving
<1>2. ASSUME NEW d \in Clients, Risky(req'[d], s)
      PROVE  Risky(req[d], s)
  BY <1>1, <1>2
<1> QED BY <1>2 DEF AtRisk, Risky

LEMMA StillKept ==
  ASSUME NEW b, Kept(b),
         \A s \in Slugs : InHistory(b, s) => InHistory(b, s)',
         \A s \in Slugs : b \in Bodies(file[s]) /\ ~AtRisk(s) => b \in Bodies(file'[s]) /\ ~AtRisk(s)'
  PROVE  Kept(b)'
  BY DEF Kept, Bodies, IsWhole

LEMMA SafeStays ==
  ASSUME Safe, UNCHANGED <<file, hist>>, owed' \subseteq owed,
         \A s \in Slugs : AtRisk(s)' => AtRisk(s)
  PROVE  Safe'
<1>1. ASSUME NEW b \in owed'
      PROVE  Kept(b)'
  <2>1. Kept(b)
    BY <1>1 DEF Safe
  <2>2. \A s \in Slugs : InHistory(b, s) => InHistory(b, s)'
    BY DEF InHistory, Bodies, IsWhole
  <2> QED BY <2>1, <2>2, StillKept
<1> QED BY <1>1 DEF Safe

-----------------------------------------------------------------------------
(* The handlers.                                                           *)

LEMMA AskKeeps ==
  ASSUME IInv, NEW c \in Clients, NEW r \in Request, Ask(c, r),
         UNCHANGED <<files, rows, owed, crashes>>,
         made' \in made..MaxBodies,
         Shaped(r), r.at \in {"archive", "truncate", "keep"},
         r.at = "truncate" => r.op \in {"rename", "inplace"},
         Midway(r)
  PROVE  IInv'
<1>0. TypeOK /\ Serve(c, r) /\ r \in {Idle} \cup Request
  BY DEF IInv, Ask
<1>1. TypeOK'
  <2>1. asked' \in 0..MaxRequests
    BY <1>0, BoundsAssumption DEF Ask, TypeOK
  <2>2. made' \in 0..MaxBodies /\ owed' \subseteq 0..MaxBodies
    BY <1>0, BoundsAssumption DEF TypeOK
  <2>3. req' \in [Clients -> {Idle} \cup Request] /\ raced' \in BOOLEAN
    BY <1>0, Serving
  <2> QED BY <1>0, <2>1, <2>2, <2>3 DEF TypeOK, files, rows
<1>2. FiledUnderItsName'
  BY DEF IInv, FiledUnderItsName, files, IsWhole
<1>3. \A d \in Clients : Shaped(req'[d])
  BY <1>0, Serving DEF IInv
<1>4. ASSUME ~raced'
      PROVE  Calm'
  <2>1. Midway(r)'
    BY DEF Midway, files, rows, Bodies, IsWhole
  <2>2. ~raced /\ Calm /\ Apart' /\ \A d \in Clients : Midway(req[d])'
    <3>1. \A s \in Slugs \ {} : /\ file'[s] = file[s]
                                /\ hist[s] = << >> => hist'[s] = << >>
                                /\ s \in tagged' => s \in tagged
      BY DEF files, rows
    <3> QED BY <1>0, <1>4, <2>1, <3>1, OneMoves
  <2>3. Safe'
    <3>1. \A s \in Slugs : ~Risky(r, s)
      BY DEF Risky
    <3>2. \A s \in Slugs : AtRisk(s)' => AtRisk(s)
      BY <1>0, <3>1, RiskShrinks
    <3> QED BY <2>2, <3>2, SafeStays DEF Calm, files
  <2> QED BY <2>2, <2>3 DEF Calm
<1>5. \A d \in Clients : Shaped(req[d])'
  BY <1>3 DEF Shaped, IsWhole
<1> QED BY <1>1, <1>2, <1>4, <1>5 DEF IInv

LEMMA ComposeKeeps ==
  ASSUME IInv, NEW c \in Clients, NEW n \in Names, Compose(c, n)
  PROVE  IInv'
<1>1. PICK r : r = [at |-> SaveBegins, op |-> "save", from |-> SlugOf[n], to |-> SlugOf[n],
                    new |-> Whole([name |-> n, body |-> made + 1])]
  OBVIOUS
<1>2. made + 1 \in 0..MaxBodies /\ made + 1 \in made..MaxBodies /\ SlugOf[n] \in Slugs
  BY BoundsAssumption, NamingAssumption DEF IInv, TypeOK, Compose
<1>3. [name |-> n, body |-> made + 1] \in Definition
  BY <1>2 DEF Definition
<1>4. r \in Request
  BY <1>1, <1>2, <1>3 DEF Request, SaveBegins, Places
<1>5. Shaped(r) /\ r.at = "archive" /\ Midway(r)
  BY <1>1 DEF Shaped, SaveBegins, Whole, IsWhole, Midway
<1>6. Ask(c, r) /\ made' = made + 1 /\ UNCHANGED <<files, rows, owed, crashes>>
  BY <1>1 DEF Compose
<1> QED BY <1>2, <1>4, <1>5, <1>6, AskKeeps

LEMMA VersionShape ==
  ASSUME TypeOK, NEW s \in Slugs, NEW v \in Versions(s)
  PROVE  v \in Content
  BY DEF TypeOK, Versions

LEMMA RestoreKeeps ==
  ASSUME IInv, NEW c \in Clients, Restore(c)
  PROVE  IInv'
<1>0. PICK s \in Slugs : \E v \in Versions(s) :
        /\ Usable(v)
        /\ Ask(c, [at |-> SaveBegins, op |-> "restore", from |-> s, to |-> SlugOf[v.def.name],
                   new |-> v])
  BY DEF Restore
<1>1. PICK v \in Versions(s) :
        /\ Usable(v)
        /\ Ask(c, [at |-> SaveBegins, op |-> "restore", from |-> s, to |-> SlugOf[v.def.name],
                   new |-> v])
  BY <1>0
<1>2. PICK r : r = [at |-> SaveBegins, op |-> "restore", from |-> s, to |-> SlugOf[v.def.name],
                    new |-> v]
  OBVIOUS
<1>3. v \in Content /\ IsWhole(v) /\ v.def \in Definition
  BY <1>1, VersionShape, ContentShape DEF IInv, Usable
<1>4. v.def.name \in Names /\ SlugOf[v.def.name] \in Slugs
  BY <1>3, NamingAssumption DEF Definition
<1>5. r \in Request
  BY <1>2, <1>3, <1>4 DEF Request, SaveBegins, Places, Content, IsWhole, Torn
<1>6. Shaped(r) /\ r.at = "archive" /\ Midway(r)
  BY <1>2, <1>3 DEF Shaped, SaveBegins, Midway
<1>7. Ask(c, r) /\ UNCHANGED <<files, rows, made, owed, crashes>>
  BY <1>1, <1>2 DEF Restore
<1>8. made' \in made..MaxBodies
  BY <1>7, BoundsAssumption DEF IInv, TypeOK
<1> QED BY <1>5, <1>6, <1>7, <1>8, AskKeeps

LEMMA RenamedShape ==
  ASSUME NEW d \in Definition, NEW n \in Names
  PROVE  /\ Renamed(d, n) \in Definition
         /\ Renamed(d, n).name = n /\ Renamed(d, n).body = d.body
  BY DEF Definition, Renamed

LEMMA CopyKeeps ==
  ASSUME IInv, NEW c \in Clients, NEW s \in Slugs, NEW n \in Names,
         NEW f \in {NoFile} \cup Content, CopyAs(c, s, f, n)
  PROVE  IInv'
<1>1. PICK r : r = [at |-> SaveBegins, op |-> "save", from |-> s, to |-> SlugOf[n],
                    new |-> Whole(Renamed(f.def, n))]
  OBVIOUS
<1>2. f.def \in Definition
  BY ContentShape DEF CopyAs, Usable
<1>3. Renamed(f.def, n) \in Definition /\ Renamed(f.def, n).name = n /\ SlugOf[n] \in Slugs
  BY <1>2, RenamedShape, NamingAssumption
<1>4. r \in Request
  BY <1>1, <1>3 DEF Request, SaveBegins, Places
<1>5. Shaped(r) /\ r.at = "archive" /\ Midway(r)
  BY <1>1, <1>3 DEF Shaped, SaveBegins, Whole, IsWhole, Midway
<1>6. Ask(c, r) /\ UNCHANGED <<files, rows, made, owed, crashes>>
  BY <1>1 DEF CopyAs
<1>7. made' \in made..MaxBodies
  BY <1>6, BoundsAssumption DEF IInv, TypeOK
<1> QED BY <1>4, <1>5, <1>6, <1>7, AskKeeps

LEMMA RenameKeeps ==
  ASSUME IInv, NEW c \in Clients, Rename(c)
  PROVE  IInv'
<1>1. PICK s \in Slugs, n \in Names :
        /\ file[s] # NoFile
        /\ SlugOf[n] # s => file[SlugOf[n]] = NoFile
        /\ Ask(c, [at |-> "truncate", op |-> IF SlugOf[n] = s THEN "inplace" ELSE "rename",
                   from |-> s, to |-> SlugOf[n],
                   new |-> Whole(Renamed(Loaded(file[s], n), n))])
  BY DEF Rename
<1>2. PICK r : r = [at |-> "truncate", op |-> IF SlugOf[n] = s THEN "inplace" ELSE "rename",
                    from |-> s, to |-> SlugOf[n],
                    new |-> Whole(Renamed(Loaded(file[s], n), n))]
  OBVIOUS
<1>3. file[s] \in {NoFile} \cup Content /\ SlugOf[n] \in Slugs
  BY NamingAssumption DEF IInv, TypeOK
<1>4. Loaded(file[s], n) \in Definition
  <2>1. CASE IsWhole(file[s])
    BY <1>3, <2>1, ContentShape DEF Loaded
  <2>2. CASE ~IsWhole(file[s])
    <3>1. 0 \in 0..MaxBodies
      BY BoundsAssumption
    <3> QED BY <2>2, <3>1 DEF Loaded, Definition
  <2> QED BY <2>1, <2>2
<1>5. /\ Renamed(Loaded(file[s], n), n) \in Definition
      /\ Renamed(Loaded(file[s], n), n).name = n
      /\ Renamed(Loaded(file[s], n), n).body = Loaded(file[s], n).body
  BY <1>4, RenamedShape
<1>6. r \in Request
  BY <1>2, <1>3, <1>5 DEF Request, Places
<1>7. Bodies(file[s]) \subseteq Bodies(r.new)
  BY <1>2, <1>5 DEF Bodies, Loaded, Whole, IsWhole
<1>8. Shaped(r) /\ r.at = "truncate" /\ r.op \in {"rename", "inplace"}
  BY <1>2, <1>5 DEF Shaped, Whole, IsWhole
<1>9. Midway(r)
  BY <1>1, <1>2, <1>7 DEF Midway
<1>10. Ask(c, r) /\ UNCHANGED <<files, rows, made, owed, crashes>>
  BY <1>1, <1>2 DEF Rename
<1>11. made' \in made..MaxBodies
  BY <1>10, BoundsAssumption DEF IInv, TypeOK
<1> QED BY <1>6, <1>8, <1>9, <1>10, <1>11, AskKeeps

LEMMA AttachKeeps ==
  ASSUME IInv, NEW c \in Clients, NEW what \in {"tag", "schedule"}, Attach(c, what)
  PROVE  IInv'
<1>1. PICK s \in Slugs :
        Ask(c, [at |-> "keep", op |-> what, from |-> s, to |-> s, new |-> NoFile])
  BY DEF Attach
<1>2. PICK r : r = [at |-> "keep", op |-> what, from |-> s, to |-> s, new |-> NoFile]
  OBVIOUS
<1>3. r \in Request /\ Shaped(r) /\ r.at = "keep" /\ Midway(r)
  BY <1>2 DEF Request, Places, Shaped, Midway
<1>4. Ask(c, r) /\ UNCHANGED <<files, rows, made, owed, crashes>>
  BY <1>1, <1>2 DEF Attach
<1>5. made' \in made..MaxBodies
  BY <1>4, BoundsAssumption DEF IInv, TypeOK
<1> QED BY <1>3, <1>4, <1>5, AskKeeps

\* What remains to be shown of an action, once it is known where it writes.
LEMMA Closing ==
  ASSUME IInv, NEW c \in Clients, NEW r \in {Idle} \cup Request, Serve(c, r),
         Shaped(r), TypeOK', FiledUnderItsName',
         NEW M \in SUBSET Slugs, M \subseteq Touched(req[c]) \cup Touched(r),
         \A s \in Slugs \ M : /\ file'[s] = file[s]
                              /\ hist[s] = << >> => hist'[s] = << >>
                              /\ s \in tagged' => s \in tagged,
         ~raced' => Midway(r)' /\ Safe'
  PROVE  IInv'
<1>1. \A d \in Clients : Shaped(req'[d])
  BY Serving DEF IInv
<1>2. \A d \in Clients : Shaped(req[d])'
  BY <1>1 DEF Shaped, IsWhole
<1>3. ~raced' => Calm'
  BY OneMoves DEF Calm
<1> QED BY <1>2, <1>3 DEF IInv

LEMMA DeleteKeeps ==
  ASSUME IInv, NEW c \in Clients, Delete(c)
  PROVE  IInv'
<1>1. PICK s \in Slugs :
        /\ file[s] # NoFile
        /\ file' = [file EXCEPT ![s] = NoFile]
        /\ owed' = owed \ Bodies(file[s])
        /\ Ask(c, [at |-> "untag", op |-> "delete", from |-> s, to |-> s, new |-> NoFile])
  BY DEF Delete
<1>2. PICK r : r = [at |-> "untag", op |-> "delete", from |-> s, to |-> s, new |-> NoFile]
  OBVIOUS
<1>3. r \in Request /\ Shaped(r) /\ Touched(r) = {s} /\ \A t \in Slugs : ~Risky(r, t)
  BY <1>2 DEF Request, Places, Shaped, Touched, Idle, Risky
<1>4. TypeOK /\ Ask(c, r) /\ Serve(c, r) /\ r \in {Idle} \cup Request
  BY <1>1, <1>2, <1>3 DEF IInv, Ask
<1>5. UNCHANGED <<dirs, hist, tagged, target, made, crashes>>
  BY DEF Delete, rows
<1>6. file'[s] = NoFile /\ \A t \in Slugs \ {s} : file'[t] = file[t]
  BY <1>1, <1>4 DEF TypeOK
<1>7. TypeOK'
  <2>1. asked' \in 0..MaxRequests
    BY <1>4, BoundsAssumption DEF Ask, TypeOK
  <2>2. req' \in [Clients -> {Idle} \cup Request] /\ raced' \in BOOLEAN
    BY <1>4, Serving
  <2>3. file' \in [Slugs -> {NoFile} \cup Content] /\ owed' \subseteq 0..MaxBodies
    BY <1>1, <1>4, <1>5 DEF TypeOK
  <2> QED BY <1>4, <1>5, <2>1, <2>2, <2>3 DEF TypeOK
<1>8. FiledUnderItsName'
  BY <1>6, ContentShape DEF IInv, FiledUnderItsName, IsWhole, NoFile
<1>9. ASSUME ~raced'
      PROVE  Midway(r)' /\ Safe'
  <2>1. Midway(r)'
    BY <1>2 DEF Midway
  <2>2. Safe
    BY <1>4, <1>9, Serving DEF IInv, Calm
  <2>3. ASSUME NEW b \in owed'
        PROVE  Kept(b)'
    <3>1. b \in owed /\ b \notin Bodies(file[s]) /\ Kept(b)
      BY <1>1, <2>2, <2>3 DEF Safe
    <3>2. \A t \in Slugs : InHistory(b, t) => InHistory(b, t)'
      BY <1>5 DEF InHistory, Bodies, IsWhole
    <3>3. \A t \in Slugs : AtRisk(t)' => AtRisk(t)
      BY <1>3, <1>4, RiskShrinks
    <3>4. \A t \in Slugs : b \in Bodies(file[t]) /\ ~AtRisk(t) => b \in Bodies(file'[t]) /\ ~AtRisk(t)'
      BY <1>6, <3>1, <3>3
    <3> QED BY <3>1, <3>2, <3>4, StillKept
  <2> QED BY <2>1, <2>3 DEF Safe
<1>10. \A t \in Slugs \ {s} : /\ file'[t] = file[t]
                              /\ hist[t] = << >> => hist'[t] = << >>
                              /\ t \in tagged' => t \in tagged
  BY <1>5, <1>6
<1>11. {s} \in SUBSET Slugs /\ {s} \subseteq Touched(req[c]) \cup Touched(r)
  BY <1>3
<1> QED BY <1>3, <1>4, <1>7, <1>8, <1>9, <1>10, <1>11, Closing

LEMMA NewestShape ==
  ASSUME NEW h \in Seq(Content), NEW keep \in 0..Len(h)
  PROVE  /\ KeepNewest(h, keep) \in Seq(Content) /\ Len(KeepNewest(h, keep)) = keep
         /\ \A i \in 1..Len(h) : i > Len(h) - keep =>
              /\ i - (Len(h) - keep) \in 1..Len(KeepNewest(h, keep))
              /\ KeepNewest(h, keep)[i - (Len(h) - keep)] = h[i]
<1>1. Len(h) \in Nat /\ Len(h) - keep + 1 \in 1..(Len(h) + 1)
  OBVIOUS
<1>2. SubSeq(h, Len(h) - keep + 1, Len(h)) \in Seq(Content)
  BY <1>1, SubSeqProperties
<1>3. Len(SubSeq(h, Len(h) - keep + 1, Len(h))) = keep
  BY <1>1, SubSeqProperties
<1>4. \A i \in 1..keep : SubSeq(h, Len(h) - keep + 1, Len(h))[i] = h[Len(h) - keep + i]
  BY <1>1, <1>3, SubSeqProperties
<1> QED BY <1>1, <1>2, <1>3, <1>4 DEF KeepNewest

LEMMA PruneKeeps ==
  ASSUME IInv, NEW c \in Clients, PruneVersions(c)
  PROVE  IInv'
<1>1. PICK s \in dirs : \E keep \in 0..Len(hist[s]) :
        /\ hist' = [hist EXCEPT ![s] = KeepNewest(hist[s], keep)]
        /\ owed' = owed \ UNION {Bodies(hist[s][i]) : i \in 1..(Len(hist[s]) - keep)}
  BY DEF PruneVersions
<1>2. PICK keep \in 0..Len(hist[s]) :
        /\ hist' = [hist EXCEPT ![s] = KeepNewest(hist[s], keep)]
        /\ owed' = owed \ UNION {Bodies(hist[s][i]) : i \in 1..(Len(hist[s]) - keep)}
  BY <1>1
<1>3. TypeOK /\ Ask(c, Idle) /\ Serve(c, Idle) /\ Idle \in {Idle} \cup Request
      /\ UNCHANGED <<file, dirs, tagged, target, made, crashes>>
  BY DEF IInv, PruneVersions, Ask, rows
<1>4. s \in Slugs /\ hist[s] \in Seq(Content)
  BY <1>3 DEF TypeOK
<1>5. hist'[s] = KeepNewest(hist[s], keep) /\ \A t \in Slugs \ {s} : hist'[t] = hist[t]
  BY <1>2, <1>3, <1>4 DEF TypeOK
<1>6. KeepNewest(hist[s], keep) \in Seq(Content)
  BY <1>2, <1>4, NewestShape
<1>7. \A t \in Slugs : hist[t] = << >> => hist'[t] = << >>
  <2>1. Len(hist'[s]) = keep /\ hist'[s] \in Seq(Content)
    BY <1>2, <1>4, <1>5, NewestShape
  <2>2. hist[s] = << >> => keep = 0
    BY <1>2
  <2>3. hist[s] = << >> => hist'[s] = << >>
    BY <2>1, <2>2
  <2> QED BY <1>5, <2>3
<1>8. TypeOK'
  <2>1. asked' \in 0..MaxRequests
    BY <1>3, BoundsAssumption DEF Ask, TypeOK
  <2>2. req' \in [Clients -> {Idle} \cup Request] /\ raced' \in BOOLEAN
    BY <1>3, Serving
  <2>3. hist' \in [Slugs -> Seq(Content)]
    BY <1>2, <1>3, <1>4, <1>6 DEF TypeOK
  <2>4. \A t \in Slugs : hist'[t] # << >> => t \in dirs'
    BY <1>1, <1>3, <1>5 DEF TypeOK
  <2>5. owed' \subseteq 0..MaxBodies
    BY <1>2, <1>3 DEF TypeOK
  <2> QED BY <1>3, <2>1, <2>2, <2>3, <2>4, <2>5 DEF TypeOK
<1>9. FiledUnderItsName'
  BY <1>3 DEF IInv, FiledUnderItsName, IsWhole
<1>10. Shaped(Idle) /\ \A t \in Slugs : ~Risky(Idle, t)
  BY DEF Shaped, Idle, Risky
<1>11. ASSUME ~raced'
       PROVE  Midway(Idle)' /\ Safe'
  <2>1. Midway(Idle)'
    BY DEF Midway, Idle
  <2>2. Safe
    BY <1>3, <1>11, Serving DEF IInv, Calm
  <2>3. ASSUME NEW b \in owed'
        PROVE  Kept(b)'
    <3>1. b \in owed /\ Kept(b) /\ \A i \in 1..(Len(hist[s]) - keep) : b \notin Bodies(hist[s][i])
      BY <1>2, <2>2, <2>3 DEF Safe
    <3>2. ASSUME NEW t \in Slugs, InHistory(b, t)
          PROVE  InHistory(b, t)'
      <4>1. PICK i \in 1..Len(hist[t]) : b \in Bodies(hist[t][i])
        BY <3>2 DEF InHistory
      <4>2. CASE t = s
        <5>1. i > Len(hist[s]) - keep
          BY <1>2, <1>4, <3>1, <4>1, <4>2
        <5>2. /\ i - (Len(hist[s]) - keep) \in 1..Len(hist'[s])
              /\ hist'[s][i - (Len(hist[s]) - keep)] = hist[s][i]
          BY <1>2, <1>4, <1>5, <4>1, <4>2, <5>1, NewestShape
        <5> QED BY <4>1, <4>2, <5>2 DEF InHistory, Bodies, IsWhole
      <4>3. CASE t # s
        BY <1>5, <4>1, <4>3 DEF InHistory, Bodies, IsWhole
      <4> QED BY <4>2, <4>3
    <3>3. \A t \in Slugs : AtRisk(t)' => AtRisk(t)
      BY <1>3, <1>10, RiskShrinks
    <3>4. \A t \in Slugs : b \in Bodies(file[t]) /\ ~AtRisk(t) => b \in Bodies(file'[t]) /\ ~AtRisk(t)'
      BY <1>3, <3>3
    <3> QED BY <3>1, <3>2, <3>4, StillKept
  <2> QED BY <2>1, <2>3 DEF Safe
<1>12. \A t \in Slugs \ {} : /\ file'[t] = file[t]
                             /\ hist[t] = << >> => hist'[t] = << >>
                             /\ t \in tagged' => t \in tagged
  BY <1>3, <1>7
<1>13. {} \in SUBSET Slugs /\ {} \subseteq Touched(req[c]) \cup Touched(Idle)
  OBVIOUS
<1> QED BY <1>3, <1>8, <1>9, <1>10, <1>11, <1>12, <1>13, Closing

-----------------------------------------------------------------------------
(* The steps of a request in flight.                                       *)

\* A client with a place is not idle.
LEMMA InFlight ==
  ASSUME TypeOK, NEW c \in Clients, NEW place \in Places, req[c].at = place
  PROVE  /\ req[c] \in Request /\ req[c].from \in Slugs /\ req[c].to \in Slugs
         /\ Touched(req[c]) = {req[c].from, req[c].to}
         /\ req[c].new \in {NoFile} \cup Content
<1>1. req[c] \in {Idle} \cup Request
  BY DEF TypeOK
<1>2. place # "idle"
  BY DEF Places
<1> QED BY <1>1, <1>2, RequestShape

\* The request at its next place.
LEMMA NextPlace ==
  ASSUME NEW q \in Request, NEW place \in Places, NEW r, r = [q EXCEPT !.at = place]
  PROVE  /\ r \in Request /\ r.at = place /\ r.op = q.op
         /\ r.from = q.from /\ r.to = q.to /\ r.new = q.new
         /\ Touched(r) = Touched(q)
<1>1. /\ r \in Request /\ r.at = place /\ r.op = q.op
      /\ r.from = q.from /\ r.to = q.to /\ r.new = q.new
  BY DEF Request
<1> QED BY <1>1, RequestShape

LEMMA Before ==
  ASSUME IInv, NEW c, NEW r, Serve(c, r), ~raced'
  PROVE  ~raced /\ Calm
  BY ZenonT(20) DEF IInv, Serve

\* Of a step that leaves the files alone.
LEMMA RowStepKeeps ==
  ASSUME IInv, NEW c \in Clients, NEW r \in {Idle} \cup Request, Serve(c, r),
         UNCHANGED <<files, history>>, tagged' \subseteq Slugs,
         target' \in [Schedules -> {NoTarget} \cup Slugs],
         Shaped(r), r.at \in {"idle", "untag", "repoint"},
         \A s \in Slugs \ Touched(req[c]) : s \in tagged' => s \in tagged,
         ~raced' => Midway(r)'
  PROVE  IInv'
<1>1. TypeOK
  BY DEF IInv
<1>2. TypeOK'
  <2>1. req' \in [Clients -> {Idle} \cup Request] /\ raced' \in BOOLEAN
    BY <1>1, Serving
  <2> QED BY <1>1, <2>1 DEF TypeOK, files, history
<1>3. FiledUnderItsName'
  BY DEF IInv, FiledUnderItsName, files, IsWhole
<1>4. ASSUME ~raced'
      PROVE  Safe'
  <2>1. Safe
    BY <1>1, <1>4, Serving DEF IInv, Calm
  <2>2. \A s \in Slugs : AtRisk(s)' => AtRisk(s)
    BY <1>1, RiskShrinks DEF Risky
  <2> QED BY <2>1, <2>2, SafeStays DEF files, history
<1>5. Touched(req[c]) \in SUBSET Slugs
  BY <1>1, RequestShape DEF TypeOK
<1>6. \A s \in Slugs \ Touched(req[c]) : /\ file'[s] = file[s]
                                         /\ hist[s] = << >> => hist'[s] = << >>
                                         /\ s \in tagged' => s \in tagged
  BY DEF files
<1> QED BY <1>2, <1>3, <1>4, <1>5, <1>6, Closing

LEMMA TagsKeep ==
  ASSUME IInv, NEW c \in Clients, MoveTags(c)
  PROVE  IInv'
<1>1. TypeOK /\ req[c].at = "tags" /\ "tags" \in Places /\ Shaped(req[c])
  BY DEF IInv, MoveTags, Places
<1>2. /\ req[c] \in Request /\ req[c].from \in Slugs /\ req[c].to \in Slugs
      /\ req[c].op = "rename" /\ Touched(req[c]) = {req[c].from, req[c].to}
  BY <1>1, InFlight DEF Shaped
<1>3. ~raced' => Midway(req[c])
  BY Before DEF MoveTags, GoOn, Calm
<1>4. PICK place \in {"untag", "repoint"} :
        /\ GoOn(c, place)
        /\ tagged' \subseteq Slugs
        /\ \A s \in Slugs \ Touched(req[c]) : s \in tagged' => s \in tagged
        /\ place = "repoint" => req[c].from \notin tagged'
  BY <1>1, <1>2 DEF MoveTags, TypeOK
<1>5. PICK r : r = [req[c] EXCEPT !.at = place]
  OBVIOUS
<1>6. place \in Places
  BY DEF Places
<1>7. /\ r \in Request /\ r.at = place /\ r.op = "rename" /\ r.from = req[c].from
      /\ r.to = req[c].to /\ r.new = req[c].new
  BY <1>2, <1>5, <1>6, NextPlace
<1>8. Shaped(r)
  BY <1>1, <1>2, <1>7 DEF Shaped
<1>9. ~raced' => Midway(r)'
  BY <1>1, <1>2, <1>3, <1>4, <1>7 DEF Midway, MoveTags, files
<1>10. Serve(c, r) /\ UNCHANGED <<files, target, history>>
  BY <1>4, <1>5 DEF GoOn, MoveTags
<1>11. target' \in [Schedules -> {NoTarget} \cup Slugs]
  BY <1>1, <1>10 DEF TypeOK
<1> QED BY <1>4, <1>7, <1>8, <1>9, <1>10, <1>11, RowStepKeeps

LEMMA AnswerShape ==
  /\ Idle \in {Idle} \cup Request /\ Idle.at = "idle"
  /\ Shaped(Idle) /\ Midway(Idle) /\ Midway(Idle)'
  BY DEF Idle, Shaped, Midway

LEMMA DropKeeps ==
  ASSUME IInv, NEW c \in Clients, DropTags(c)
  PROVE  IInv'
<1>1. TypeOK /\ req[c].at = "untag" /\ "untag" \in Places /\ Shaped(req[c])
  BY DEF IInv, DropTags, Places
<1>2. /\ req[c] \in Request /\ req[c].from \in Slugs /\ req[c].to \in Slugs
      /\ Touched(req[c]) = {req[c].from, req[c].to}
  BY <1>1, InFlight
<1>3. /\ tagged' \subseteq Slugs /\ req[c].from \notin tagged'
      /\ \A s \in Slugs : s \in tagged' => s \in tagged
      /\ UNCHANGED <<files, target, history>>
      /\ target' \in [Schedules -> {NoTarget} \cup Slugs]
  BY <1>1 DEF DropTags, TypeOK
<1>4. CASE req[c].op = "rename"
  <2>1. GoOn(c, "repoint") /\ "repoint" \in Places
    BY <1>4 DEF DropTags, Places
  <2>2. PICK r : r = [req[c] EXCEPT !.at = "repoint"]
    OBVIOUS
  <2>3. /\ r \in Request /\ r.at = "repoint" /\ r.op = "rename" /\ r.from = req[c].from
        /\ r.to = req[c].to /\ r.new = req[c].new
    BY <1>2, <1>4, <2>1, <2>2, NextPlace
  <2>4. Serve(c, r)
    BY <2>1, <2>2 DEF GoOn
  <2>5. Shaped(r)
    BY <1>1, <1>2, <1>4, <2>3 DEF Shaped
  <2>6. ~raced' => Midway(r)'
    <3>1. ~raced' => Midway(req[c])
      BY <2>4, Before DEF Calm
    <3> QED BY <1>1, <1>3, <1>4, <2>3, <3>1 DEF Midway, files
  <2> QED BY <1>3, <2>3, <2>4, <2>5, <2>6, RowStepKeeps
<1>5. CASE req[c].op # "rename"
  <2>1. Serve(c, Idle)
    BY <1>5 DEF DropTags, Answer
  <2> QED BY <1>3, <2>1, AnswerShape, RowStepKeeps
<1> QED BY <1>4, <1>5

LEMMA RepointKeeps ==
  ASSUME IInv, NEW c \in Clients, Repoint(c)
  PROVE  IInv'
<1>1. TypeOK /\ req[c].at = "repoint" /\ "repoint" \in Places
  BY DEF IInv, Repoint, Places
<1>2. req[c].from \in Slugs /\ req[c].to \in Slugs
  BY <1>1, InFlight
<1>3. target' \in [Schedules -> {NoTarget} \cup Slugs]
  BY <1>1, <1>2 DEF Repoint, Repointed, TypeOK
<1>4. Serve(c, Idle) /\ UNCHANGED <<files, tagged, history>> /\ tagged' \subseteq Slugs
  BY <1>1 DEF Repoint, Answer, TypeOK
<1> QED BY <1>3, <1>4, AnswerShape, RowStepKeeps

LEMMA SetTagsKeeps ==
  ASSUME IInv, NEW c \in Clients, SetTags(c)
  PROVE  IInv'
<1>1. TypeOK /\ req[c].at = "keep" /\ "keep" \in Places
  BY DEF IInv, SetTags, Places
<1>2. req[c].from \in Slugs /\ req[c].from \in Touched(req[c])
  BY <1>1, InFlight
<1>3. /\ tagged' \subseteq Slugs
      /\ \A s \in Slugs \ Touched(req[c]) : s \in tagged' => s \in tagged
  BY <1>1, <1>2 DEF SetTags, TypeOK
<1>4. Serve(c, Idle) /\ UNCHANGED <<files, target, history>>
      /\ target' \in [Schedules -> {NoTarget} \cup Slugs]
  BY <1>1 DEF SetTags, Answer, TypeOK
<1> QED BY <1>3, <1>4, AnswerShape, RowStepKeeps

LEMMA InsertKeeps ==
  ASSUME IInv, NEW c \in Clients, InsertSchedule(c)
  PROVE  IInv'
<1>1. TypeOK /\ req[c].at = "keep" /\ "keep" \in Places
  BY DEF IInv, InsertSchedule, Places
<1>2. req[c].from \in Slugs
  BY <1>1, InFlight
<1>3. target' \in [Schedules -> {NoTarget} \cup Slugs]
  BY <1>1, <1>2 DEF InsertSchedule, TypeOK
<1>4. Serve(c, Idle) /\ UNCHANGED <<files, tagged, history>> /\ tagged' \subseteq Slugs
  BY <1>1 DEF InsertSchedule, Answer, TypeOK
<1> QED BY <1>3, <1>4, AnswerShape, RowStepKeeps

LEMMA ArchiveKeeps ==
  ASSUME IInv, NEW c \in Clients, Archive(c)
  PROVE  IInv'
<1>1. TypeOK /\ req[c].at = "archive" /\ "archive" \in Places /\ "truncate" \in Places /\ Shaped(req[c])
  BY DEF IInv, Archive, Places
<1>2. /\ req[c] \in Request /\ req[c].to \in Slugs /\ req[c].to \in Touched(req[c])
      /\ req[c].op \in {"save", "restore"}
  BY <1>1, InFlight DEF Shaped
<1>3. PICK s : s = req[c].to
  OBVIOUS
<1>4. PICK r : r = [req[c] EXCEPT !.at = "truncate"]
  OBVIOUS
<1>5. /\ r \in Request /\ r.at = "truncate" /\ r.op = req[c].op /\ r.from = req[c].from
      /\ r.to = s /\ r.new = req[c].new
  BY <1>1, <1>2, <1>3, <1>4, NextPlace
<1>6. Serve(c, r) /\ UNCHANGED <<file, tagged, target, asked, made, owed, crashes>>
  BY <1>4 DEF Archive, GoOn, rows, history
<1>7. s \in Slugs /\ file[s] \in {NoFile} \cup Content /\ hist[s] \in Seq(Content)
  BY <1>1, <1>2, <1>3 DEF TypeOK
<1>8. /\ \A t \in Slugs \ {s} : hist'[t] = hist[t]
      /\ file[s] = NoFile => hist'[s] = hist[s]
      /\ file[s] # NoFile => hist'[s] = Append(hist[s], file[s])
  BY <1>1, <1>3, <1>7 DEF Archive, TypeOK
<1>9. TypeOK'
  <2>1. req' \in [Clients -> {Idle} \cup Request] /\ raced' \in BOOLEAN
    BY <1>1, <1>5, <1>6, Serving
  <2>2. file[s] # NoFile => Append(hist[s], file[s]) \in Seq(Content)
    BY <1>7
  <2>3. hist' \in [Slugs -> Seq(Content)]
    BY <1>1, <1>3, <1>7, <2>2 DEF Archive, TypeOK
  <2>4. dirs' \subseteq Slugs /\ \A t \in Slugs : hist'[t] # << >> => t \in dirs'
    BY <1>1, <1>3, <1>7, <1>8 DEF Archive, TypeOK
  <2> QED BY <1>1, <1>6, <2>1, <2>3, <2>4 DEF TypeOK
<1>10. FiledUnderItsName'
  BY <1>6 DEF IInv, FiledUnderItsName, IsWhole
<1>11. Shaped(r)
  BY <1>1, <1>2, <1>3, <1>5 DEF Shaped
<1>12. ASSUME ~raced'
       PROVE  Midway(r)' /\ Safe'
  <2>1. Midway(r)'
    BY <1>2, <1>5 DEF Midway
  <2>2. Safe
    BY <1>6, <1>12, Before DEF Calm
  <2>3. ASSUME NEW b \in owed'
        PROVE  Kept(b)'
    <3>1. PICK t \in Slugs : InHistory(b, t) \/ (b \in Bodies(file[t]) /\ ~AtRisk(t))
      BY <1>6, <2>2, <2>3 DEF Safe, Kept
    <3>2. CASE InHistory(b, t)
      <4>1. PICK i \in 1..Len(hist[t]) : b \in Bodies(hist[t][i])
        BY <3>2 DEF InHistory
      <4>2. i \in 1..Len(hist'[t]) /\ hist'[t][i] = hist[t][i]
        <5>1. CASE hist'[t] = hist[t]
          BY <4>1, <5>1
        <5>2. CASE t = s /\ hist'[s] = Append(hist[s], file[s])
          BY <1>7, <4>1, <5>2
        <5> QED BY <1>8, <5>1, <5>2
      <4>3. InHistory(b, t)'
        BY <4>1, <4>2 DEF InHistory, Bodies, IsWhole
      <4> QED BY <4>3 DEF Kept
    <3>3. CASE b \in Bodies(file[t]) /\ ~AtRisk(t) /\ t # s
      <4>1. req'[c] = r /\ \A d \in Clients \ {c} : req'[d] = req[d]
        BY <1>1, <1>5, <1>6, Serving
      <4>2. ~AtRisk(t)'
        BY <1>5, <3>3, <4>1 DEF AtRisk, Risky
      <4>3. b \in Bodies(file[t])'
        BY <1>6, <3>3 DEF Bodies, IsWhole
      <4> QED BY <4>2, <4>3 DEF Kept
    <3>4. CASE b \in Bodies(file[t]) /\ t = s
      <4>1. file[s] # NoFile /\ hist'[s] = Append(hist[s], file[s])
        BY <1>8, <3>4, ContentShape DEF Bodies
      <4>2. Len(hist[s]) + 1 \in 1..Len(hist'[s]) /\ hist'[s][Len(hist[s]) + 1] = file[s]
        BY <1>7, <4>1
      <4>3. InHistory(b, s)'
        BY <3>4, <4>2 DEF InHistory, Bodies, IsWhole
      <4> QED BY <1>7, <4>3 DEF Kept
    <3> QED BY <3>1, <3>2, <3>3, <3>4
  <2> QED BY <2>1, <2>3 DEF Safe
<1>13. \A t \in Slugs \ {s} : /\ file'[t] = file[t]
                              /\ hist[t] = << >> => hist'[t] = << >>
                              /\ t \in tagged' => t \in tagged
  BY <1>6, <1>8
<1>14. {s} \in SUBSET Slugs /\ {s} \subseteq Touched(req[c]) \cup Touched(r)
  BY <1>2, <1>3, <1>7
<1> QED BY <1>5, <1>6, <1>9, <1>10, <1>11, <1>12, <1>13, <1>14, Closing

\* Nobody else is about to empty a file this client works on.
LEMMA OwnFileIsSafe ==
  ASSUME IInv, NEW c \in Clients, NEW r \in {Idle} \cup Request, Serve(c, r), ~raced',
         \A t \in Slugs : ~Risky(r, t), NEW s \in Touched(req[c])
  PROVE  ~AtRisk(s)'
<1>1. TypeOK /\ Calm
  BY Before DEF IInv
<1>2. req'[c] = r /\ \A d \in Clients \ {c} : req'[d] = req[d]
  BY <1>1, Serving
<1>3. s \in Slugs
  <2>1. req[c] \in {Idle} \cup Request
    BY <1>1 DEF TypeOK
  <2>2. req[c] \in Request
    BY <2>1, RequestShape
  <2> QED BY <2>2, RequestShape
<1>4. ASSUME NEW d \in Clients \ {c}, Risky(req[d], s)
      PROVE  FALSE
  <2>1. req[d].at = "truncate" /\ req[d].to = s /\ "truncate" \in Places
    BY <1>4 DEF Risky, Places
  <2>2. s \in Touched(req[d])
    BY <1>1, <2>1, InFlight
  <2> QED BY <1>1, <2>2 DEF Calm, Apart
<1> QED BY <1>2, <1>3, <1>4 DEF AtRisk, Risky

LEMMA TruncateKeeps ==
  ASSUME IInv, NEW c \in Clients, Truncate(c)
  PROVE  IInv'
<1>1. TypeOK /\ req[c].at = "truncate" /\ "truncate" \in Places /\ "fill" \in Places /\ Shaped(req[c])
  BY DEF IInv, Truncate, Places
<1>2. /\ req[c] \in Request /\ req[c].to \in Slugs /\ req[c].from \in Slugs
      /\ req[c].to \in Touched(req[c])
      /\ req[c].op \in {"save", "restore", "rename", "inplace"}
  BY <1>1, InFlight DEF Shaped
<1>3. PICK s : s = req[c].to
  OBVIOUS
<1>4. PICK r : r = [req[c] EXCEPT !.at = "fill"]
  OBVIOUS
<1>5. /\ r \in Request /\ r.at = "fill" /\ r.op = req[c].op /\ r.from = req[c].from
      /\ r.to = s /\ r.new = req[c].new
  BY <1>1, <1>2, <1>3, <1>4, NextPlace
<1>6. Serve(c, r) /\ UNCHANGED <<dirs, hist, tagged, target, asked, made, crashes>>
  BY <1>4 DEF Truncate, GoOn, rows
<1>7. s \in Slugs /\ file'[s] = Torn /\ \A t \in Slugs \ {s} : file'[t] = file[t]
  BY <1>1, <1>2, <1>3 DEF Truncate, TypeOK
<1>8. owed' = IF req[c].op = "inplace" THEN owed \ Bodies(file[s]) ELSE owed
  BY <1>3 DEF Truncate
<1>9. TypeOK'
  <2>1. req' \in [Clients -> {Idle} \cup Request] /\ raced' \in BOOLEAN
    BY <1>1, <1>5, <1>6, Serving
  <2>2. file' \in [Slugs -> {NoFile} \cup Content]
    BY <1>1 DEF Truncate, TypeOK, Content
  <2>3. owed' \subseteq 0..MaxBodies
    BY <1>1, <1>8 DEF TypeOK
  <2> QED BY <1>1, <1>6, <2>1, <2>2, <2>3 DEF TypeOK
<1>10. FiledUnderItsName'
  BY <1>7, ContentShape DEF IInv, FiledUnderItsName, IsWhole, Torn
<1>11. Shaped(r)
  BY <1>1, <1>2, <1>3, <1>5 DEF Shaped
<1>12. ASSUME ~raced'
       PROVE  Midway(r)' /\ Safe'
  <2>1. Calm /\ Midway(req[c])
    BY <1>6, <1>12, Before DEF Calm
  <2>2. r.op = "rename" => r.from # s
    BY <1>1, <1>3, <1>5 DEF Shaped
  <2>3. r.op = "rename" => file'[r.from] = file[r.from] /\ Bodies(file[r.from]) \subseteq Bodies(r.new)
    BY <1>1, <1>2, <1>5, <1>7, <2>1, <2>2 DEF Midway
  <2>4. Midway(r)'
    BY <1>5, <1>7, <2>3 DEF Midway, Bodies, IsWhole
  <2>5. ASSUME NEW b \in owed'
        PROVE  Kept(b)'
    <3>1. b \in owed /\ Kept(b)
      BY <1>8, <2>1, <2>5 DEF Calm, Safe
    <3>2. \A t \in Slugs : InHistory(b, t) => InHistory(b, t)'
      BY <1>6 DEF InHistory, Bodies, IsWhole
    <3>3. \A t \in Slugs : AtRisk(t)' => AtRisk(t)
      BY <1>1, <1>5, <1>6, RiskShrinks DEF Risky
    <3>4. ~(b \in Bodies(file[s]) /\ ~AtRisk(s))
      <4>1. CASE req[c].op \in {"save", "restore"}
        BY <1>1, <1>3, <4>1 DEF AtRisk, Risky
      <4>2. CASE req[c].op = "rename"
        BY <1>1, <1>3, <2>1, <4>2, ContentShape DEF Midway
      <4>3. CASE req[c].op = "inplace"
        BY <1>8, <2>5, <4>3
      <4> QED BY <1>2, <4>1, <4>2, <4>3
    <3>5. \A t \in Slugs : b \in Bodies(file[t]) /\ ~AtRisk(t) => b \in Bodies(file'[t]) /\ ~AtRisk(t)'
      BY <1>7, <3>3, <3>4
    <3> QED BY <3>1, <3>2, <3>5, StillKept
  <2> QED BY <2>4, <2>5 DEF Safe
<1>13. \A t \in Slugs \ {s} : /\ file'[t] = file[t]
                              /\ hist[t] = << >> => hist'[t] = << >>
                              /\ t \in tagged' => t \in tagged
  BY <1>6, <1>7
<1>14. {s} \in SUBSET Slugs /\ {s} \subseteq Touched(req[c]) \cup Touched(r)
  BY <1>2, <1>3, <1>7
<1> QED BY <1>5, <1>6, <1>9, <1>10, <1>11, <1>12, <1>13, <1>14, Closing

LEMMA FillKeeps ==
  ASSUME IInv, NEW c \in Clients, Fill(c)
  PROVE  IInv'
<1>1. TypeOK /\ req[c].at = "fill" /\ "fill" \in Places /\ "unlink" \in Places /\ Shaped(req[c])
  BY DEF IInv, Fill, Places
<1>2. /\ req[c] \in Request /\ req[c].to \in Slugs /\ req[c].from \in Slugs
      /\ req[c].to \in Touched(req[c])
      /\ req[c].new \in {NoFile} \cup Content /\ IsWhole(req[c].new)
      /\ SlugOf[req[c].new.def.name] = req[c].to
  BY <1>1, InFlight DEF Shaped
<1>3. PICK s, f : s = req[c].to /\ f = req[c].new
  OBVIOUS
<1>4. PICK r \in {Idle} \cup Request :
        /\ Serve(c, r)
        /\ r = Idle \/ /\ r.at = "unlink" /\ r.op = "rename" /\ req[c].op = "rename"
                       /\ r.from = req[c].from /\ r.to = s /\ r.new = f
  <2>1. CASE req[c].op = "rename"
    <3>1. PICK r : r = [req[c] EXCEPT !.at = "unlink"]
      OBVIOUS
    <3>2. /\ r \in Request /\ r.at = "unlink" /\ r.op = "rename"
          /\ r.from = req[c].from /\ r.to = s /\ r.new = f
      BY <1>1, <1>2, <1>3, <2>1, <3>1, NextPlace
    <3>3. Serve(c, r)
      BY <2>1, <3>1 DEF Fill, GoOn
    <3> QED BY <2>1, <3>2, <3>3
  <2>2. CASE req[c].op # "rename"
    BY <2>2 DEF Fill, Answer
  <2> QED BY <2>1, <2>2
<1>5. UNCHANGED <<dirs, hist, tagged, target, asked, made, crashes>>
  BY DEF Fill, rows
<1>6. /\ s \in Slugs /\ \A t \in Slugs \ {s} : file'[t] = file[t]
      /\ file[s] = NoFile => file'[s] = NoFile /\ owed' = owed
      /\ file[s] # NoFile => file'[s] = f /\ owed' = owed \cup Bodies(f)
  BY <1>1, <1>2, <1>3 DEF Fill, TypeOK
<1>7. f.def \in Definition /\ Bodies(f) \subseteq 0..MaxBodies /\ f \in Content
  BY <1>2, <1>3, ContentShape DEF Definition, IsWhole, NoFile
<1>8. TypeOK'
  <2>1. req' \in [Clients -> {Idle} \cup Request] /\ raced' \in BOOLEAN
    BY <1>1, <1>4, Serving
  <2>2. file' \in [Slugs -> {NoFile} \cup Content]
    BY <1>1, <1>3, <1>7 DEF Fill, TypeOK
  <2>3. owed' \subseteq 0..MaxBodies
    BY <1>1, <1>6, <1>7 DEF TypeOK
  <2> QED BY <1>1, <1>5, <2>1, <2>2, <2>3 DEF TypeOK
<1>9. FiledUnderItsName'
  BY <1>2, <1>3, <1>6, ContentShape DEF IInv, FiledUnderItsName, IsWhole, NoFile
<1>10. Shaped(r) /\ \A t \in Slugs : ~Risky(r, t)
  BY <1>1, <1>2, <1>3, <1>4 DEF Shaped, Risky, Idle
<1>11. ASSUME ~raced'
       PROVE  Midway(r)' /\ Safe'
  <2>1. Calm /\ Midway(req[c])
    BY <1>4, <1>11, Before DEF Calm
  <2>2. file[s] = Torn /\ file'[s] = f /\ owed' = owed \cup Bodies(f) /\ Bodies(file[s]) = {}
    BY <1>1, <1>3, <1>6, <2>1, ContentShape DEF Midway, Content
  <2>3. Midway(r)'
    <3>1. CASE r = Idle
      BY <3>1, AnswerShape
    <3>2. CASE r.at = "unlink"
      <4>1. r.op = "rename" /\ req[c].op = "rename" /\ r.from = req[c].from /\ r.to = s /\ r.new = f
        BY <1>4, <3>2 DEF Idle
      <4>2. r.from # s /\ file'[r.from] = file[r.from]
        BY <1>1, <1>2, <1>3, <1>6, <4>1 DEF Shaped
      <4>3. Bodies(file[r.from]) \subseteq Bodies(f)
        BY <1>1, <1>3, <2>1, <4>1 DEF Midway
      <4> QED BY <2>2, <3>2, <4>1, <4>2, <4>3 DEF Midway, Bodies, IsWhole
    <3> QED BY <1>4, <3>1, <3>2
  <2>4. ~AtRisk(s)'
    BY <1>2, <1>3, <1>4, <1>10, <1>11, OwnFileIsSafe
  <2>5. ASSUME NEW b \in owed'
        PROVE  Kept(b)'
    <3>1. CASE b \in Bodies(f)
      <4>1. b \in Bodies(file[s])'
        BY <2>2, <3>1 DEF Bodies, IsWhole
      <4> QED BY <1>6, <2>4, <4>1 DEF Kept
    <3>2. CASE b \in owed
      <4>1. Kept(b)
        BY <2>1, <3>2 DEF Calm, Safe
      <4>2. \A t \in Slugs : InHistory(b, t) => InHistory(b, t)'
        BY <1>5 DEF InHistory, Bodies, IsWhole
      <4>3. \A t \in Slugs : AtRisk(t)' => AtRisk(t)
        BY <1>1, <1>4, <1>10, RiskShrinks
      <4>4. \A t \in Slugs : b \in Bodies(file[t]) /\ ~AtRisk(t) => b \in Bodies(file'[t]) /\ ~AtRisk(t)'
        BY <1>6, <2>2, <4>3
      <4> QED BY <4>1, <4>2, <4>4, StillKept
    <3> QED BY <2>2, <2>5, <3>1, <3>2
  <2> QED BY <2>3, <2>5 DEF Safe
<1>12. \A t \in Slugs \ {s} : /\ file'[t] = file[t]
                              /\ hist[t] = << >> => hist'[t] = << >>
                              /\ t \in tagged' => t \in tagged
  BY <1>5, <1>6
<1>13. {s} \in SUBSET Slugs /\ {s} \subseteq Touched(req[c]) \cup Touched(r)
  BY <1>2, <1>3, <1>6
<1> QED BY <1>4, <1>8, <1>9, <1>10, <1>11, <1>12, <1>13, Closing

LEMMA UnlinkKeeps ==
  ASSUME IInv, NEW c \in Clients, Unlink(c)
  PROVE  IInv'
<1>1. TypeOK /\ req[c].at = "unlink" /\ "unlink" \in Places /\ "move" \in Places /\ Shaped(req[c])
  BY DEF IInv, Unlink, Places
<1>2. /\ req[c] \in Request /\ req[c].to \in Slugs /\ req[c].from \in Slugs
      /\ req[c].from \in Touched(req[c]) /\ req[c].to \in Touched(req[c])
      /\ req[c].op = "rename" /\ req[c].from # req[c].to
  BY <1>1, InFlight DEF Shaped
<1>3. PICK s, t : s = req[c].from /\ t = req[c].to
  OBVIOUS
<1>4. PICK r \in {Idle} \cup Request :
        /\ Serve(c, r)
        /\ \/ r = Idle
           \/ r.at = "move" /\ r.op = "rename" /\ r.from = s /\ r.to = t
  <2>1. CASE file[s] # NoFile
    <3>1. PICK r : r = [req[c] EXCEPT !.at = "move"]
      OBVIOUS
    <3>2. r \in Request /\ r.at = "move" /\ r.op = "rename" /\ r.from = s /\ r.to = t
      BY <1>1, <1>2, <1>3, <3>1, NextPlace
    <3>3. Serve(c, r)
      BY <1>3, <2>1, <3>1 DEF Unlink, GoOn
    <3> QED BY <3>2, <3>3
  <2>2. CASE file[s] = NoFile
    BY <1>3, <2>2 DEF Unlink, Answer
  <2> QED BY <2>1, <2>2
<1>5. UNCHANGED <<dirs, hist, tagged, target, asked, made, owed, crashes>>
  BY DEF Unlink, rows, history
<1>6. s \in Slugs /\ t \in Slugs /\ file'[s] = NoFile /\ \A u \in Slugs \ {s} : file'[u] = file[u]
  BY <1>1, <1>2, <1>3 DEF Unlink, TypeOK
<1>7. TypeOK'
  <2>1. req' \in [Clients -> {Idle} \cup Request] /\ raced' \in BOOLEAN
    BY <1>1, <1>4, Serving
  <2>2. file' \in [Slugs -> {NoFile} \cup Content]
    BY <1>1 DEF Unlink, TypeOK
  <2> QED BY <1>1, <1>5, <2>1, <2>2 DEF TypeOK
<1>8. FiledUnderItsName'
  BY <1>6, ContentShape DEF IInv, FiledUnderItsName, IsWhole, NoFile
<1>9. Shaped(r) /\ \A u \in Slugs : ~Risky(r, u)
  BY <1>2, <1>3, <1>4 DEF Shaped, Risky, Idle
<1>10. ASSUME ~raced'
       PROVE  Midway(r)' /\ Safe'
  <2>1. Calm /\ Midway(req[c])
    BY <1>4, <1>10, Before DEF Calm
  <2>2. Bodies(file[s]) \subseteq Bodies(file[t])
    BY <1>1, <1>3, <2>1 DEF Midway
  <2>3. Midway(r)'
    <3>1. CASE r = Idle
      BY <3>1, AnswerShape
    <3>2. CASE r.at = "move" /\ r.op = "rename" /\ r.from = s /\ r.to = t
      BY <1>6, <3>2 DEF Midway
    <3> QED BY <1>4, <3>1, <3>2
  <2>4. ~AtRisk(t)'
    BY <1>2, <1>3, <1>4, <1>9, <1>10, OwnFileIsSafe
  <2>5. ASSUME NEW b \in owed'
        PROVE  Kept(b)'
    <3>1. Kept(b)
      BY <1>5, <2>1, <2>5 DEF Calm, Safe
    <3>2. CASE b \in Bodies(file[s])
      <4>1. b \in Bodies(file[t])'
        BY <1>2, <1>3, <1>6, <2>2, <3>2 DEF Bodies, IsWhole
      <4> QED BY <1>6, <2>4, <4>1 DEF Kept
    <3>3. CASE b \notin Bodies(file[s])
      <4>1. \A u \in Slugs : InHistory(b, u) => InHistory(b, u)'
        BY <1>5 DEF InHistory, Bodies, IsWhole
      <4>2. \A u \in Slugs : AtRisk(u)' => AtRisk(u)
        BY <1>1, <1>4, <1>9, RiskShrinks
      <4>3. \A u \in Slugs : b \in Bodies(file[u]) /\ ~AtRisk(u) => b \in Bodies(file'[u]) /\ ~AtRisk(u)'
        BY <1>6, <3>3, <4>2
      <4> QED BY <3>1, <4>1, <4>3, StillKept
    <3> QED BY <3>2, <3>3
  <2> QED BY <2>3, <2>5 DEF Safe
<1>11. \A u \in Slugs \ {s} : /\ file'[u] = file[u]
                              /\ hist[u] = << >> => hist'[u] = << >>
                              /\ u \in tagged' => u \in tagged
  BY <1>5, <1>6
<1>12. {s} \in SUBSET Slugs /\ {s} \subseteq Touched(req[c]) \cup Touched(r)
  BY <1>2, <1>3, <1>6
<1> QED BY <1>4, <1>7, <1>8, <1>9, <1>10, <1>11, <1>12, Closing

\* The directory of versions changes its slug; nothing else happens to it.
LEMMA MoveKeeps ==
  ASSUME IInv, NEW c \in Clients, MoveHistory(c)
  PROVE  IInv'
<1>1. TypeOK /\ req[c].at = "move" /\ "move" \in Places /\ "tags" \in Places /\ Shaped(req[c])
  BY DEF IInv, MoveHistory, Places
<1>2. /\ req[c] \in Request /\ req[c].to \in Slugs /\ req[c].from \in Slugs
      /\ Touched(req[c]) = {req[c].from, req[c].to}
      /\ req[c].op = "rename" /\ req[c].from # req[c].to
  BY <1>1, InFlight DEF Shaped
<1>3. PICK s, t : s = req[c].from /\ t = req[c].to
  OBVIOUS
<1>4. PICK q : q = [req[c] EXCEPT !.at = "tags"]
  OBVIOUS
<1>5. q \in Request /\ q.at = "tags" /\ q.op = "rename" /\ q.from = s /\ q.to = t
  BY <1>1, <1>2, <1>3, <1>4, NextPlace
<1>6. s \in Slugs /\ t \in Slugs /\ s # t /\ hist[s] \in Seq(Content)
  BY <1>1, <1>2, <1>3 DEF TypeOK
<1>7. UNCHANGED <<file, tagged, target, asked, made, owed, crashes>>
  BY DEF MoveHistory, rows, history
<1>8. PICK r \in {Idle, q} :
        /\ Serve(c, r)
        /\ \/ /\ UNCHANGED <<dirs, hist>>
              /\ r = q => s \notin dirs
           \/ /\ dirs' = MovedDirs(s, t)
              /\ hist' = [hist EXCEPT ![t] = hist[s], ![s] = << >>]
              /\ hist[t] = << >>
  <2>1. CASE s \notin dirs
    <3>1. Serve(c, q) /\ UNCHANGED <<dirs, hist>>
      BY <1>3, <1>4, <2>1 DEF MoveHistory, GoOn
    <3> QED BY <2>1, <3>1
  <2>2. CASE s \in dirs /\ hist[t] # << >>
    <3>1. Serve(c, Idle) /\ UNCHANGED <<dirs, hist>>
      BY <1>3, <2>2 DEF MoveHistory, Answer
    <3>2. Idle # q
      BY <1>5 DEF Idle
    <3> QED BY <3>1, <3>2
  <2>3. CASE s \in dirs /\ hist[t] = << >>
    <3>1. /\ Serve(c, q) /\ dirs' = MovedDirs(s, t)
          /\ hist' = [hist EXCEPT ![t] = hist[s], ![s] = << >>]
      BY <1>3, <1>4, <2>3 DEF MoveHistory, GoOn
    <3> QED BY <2>3, <3>1
  <2> QED BY <2>1, <2>2, <2>3
<1>9. r \in {Idle} \cup Request
  BY <1>5
<1>10. \A u \in Slugs \ {s, t} : hist'[u] = hist[u]
  BY <1>1, <1>8 DEF TypeOK
<1>11. \/ UNCHANGED <<dirs, hist>>
       \/ hist'[t] = hist[s] /\ hist'[s] = << >> /\ hist[t] = << >>
  BY <1>1, <1>6, <1>8 DEF TypeOK
<1>12. hist' \in [Slugs -> Seq(Content)]
  <2>1. << >> \in Seq(Content)
    OBVIOUS
  <2> QED BY <1>1, <1>6, <1>8, <2>1 DEF TypeOK
<1>13. TypeOK'
  <2>1. req' \in [Clients -> {Idle} \cup Request] /\ raced' \in BOOLEAN
    BY <1>1, <1>8, <1>9, Serving
  <2>2. dirs' \subseteq Slugs
    BY <1>1, <1>6, <1>8 DEF TypeOK, MovedDirs
  <2>3. ASSUME NEW u \in Slugs, hist'[u] # << >>
        PROVE  u \in dirs'
    BY <1>1, <1>6, <1>8, <1>10, <1>11, <2>3 DEF TypeOK, MovedDirs
  <2> QED BY <1>1, <1>7, <1>12, <2>1, <2>2, <2>3 DEF TypeOK
<1>14. FiledUnderItsName'
  BY <1>7 DEF IInv, FiledUnderItsName, IsWhole
<1>15. Shaped(r) /\ \A u \in Slugs : ~Risky(r, u)
  BY <1>5, <1>6, <1>8 DEF Shaped, Risky, Idle
<1>16. ASSUME ~raced'
       PROVE  Midway(r)' /\ Safe'
  <2>1. Calm /\ Midway(req[c])
    BY <1>8, <1>16, Before DEF Calm
  <2>2. Midway(r)'
    <3>1. CASE r = Idle
      BY <3>1, AnswerShape
    <3>2. CASE r = q
      <4>1. file'[s] = NoFile
        BY <1>1, <1>2, <1>3, <1>7, <2>1 DEF Midway
      <4>2. hist'[s] = << >>
        BY <1>1, <1>6, <1>8, <1>11, <3>2, AnswerShape, <1>5 DEF TypeOK
      <4> QED BY <1>5, <3>2, <4>1, <4>2 DEF Midway
    <3> QED BY <1>8, <3>1, <3>2
  <2>3. \A u \in Slugs : AtRisk(u)' => AtRisk(u)
    BY <1>1, <1>8, <1>9, <1>15, RiskShrinks
  <2>4. ASSUME NEW b \in owed'
        PROVE  Kept(b)'
    <3>1. PICK u \in Slugs : InHistory(b, u) \/ (b \in Bodies(file[u]) /\ ~AtRisk(u))
      BY <1>7, <2>1, <2>4 DEF Calm, Safe, Kept
    <3>2. CASE b \in Bodies(file[u]) /\ ~AtRisk(u)
      <4>1. b \in Bodies(file[u])'
        BY <1>7, <3>2 DEF Bodies, IsWhole
      <4> QED BY <2>3, <3>2, <4>1 DEF Kept
    <3>3. CASE InHistory(b, u)
      <4>1. PICK i \in 1..Len(hist[u]) : b \in Bodies(hist[u][i])
        BY <3>3 DEF InHistory
      <4>2. CASE hist'[u] = hist[u]
        <5>1. InHistory(b, u)'
          BY <4>1, <4>2 DEF InHistory, Bodies, IsWhole
        <5> QED BY <5>1 DEF Kept
      <4>3. CASE hist'[t] = hist[s] /\ u = s
        <5>1. InHistory(b, t)'
          BY <4>1, <4>3 DEF InHistory, Bodies, IsWhole
        <5> QED BY <1>6, <5>1 DEF Kept
      <4>4. CASE hist[t] = << >> /\ u = t
        BY <4>1, <4>4
      <4> QED BY <1>10, <1>11, <4>2, <4>3, <4>4
    <3> QED BY <3>1, <3>2, <3>3
  <2> QED BY <2>2, <2>4 DEF Safe
<1>17. \A u \in Slugs \ {s, t} : /\ file'[u] = file[u]
                                 /\ hist[u] = << >> => hist'[u] = << >>
                                 /\ u \in tagged' => u \in tagged
  BY <1>7, <1>10
<1>18. {s, t} \in SUBSET Slugs /\ {s, t} \subseteq Touched(req[c]) \cup Touched(r)
  BY <1>2, <1>3, <1>6
<1> QED BY <1>8, <1>9, <1>13, <1>14, <1>15, <1>16, <1>17, <1>18, Closing

-----------------------------------------------------------------------------
(* The invariant.                                                          *)

\* Death leaves no request in flight, so nothing is at risk.
LEMMA CrashKeeps ==
  ASSUME IInv, Crash
  PROVE  IInv'
<1>1. TypeOK /\ req' = [c \in Clients |-> Idle] /\ UNCHANGED <<files, rows, asked, made, owed, raced>>
  BY DEF IInv, Crash
<1>2. \A c \in Clients : req'[c] = Idle
  BY <1>1
<1>3. TypeOK'
  <2>1. crashes' \in 0..MaxCrashes
    BY <1>1, BoundsAssumption DEF Crash, TypeOK
  <2>2. req' \in [Clients -> {Idle} \cup Request]
    BY <1>1
  <2> QED BY <1>1, <2>1, <2>2 DEF TypeOK, files, rows
<1>4. FiledUnderItsName'
  BY <1>1 DEF IInv, FiledUnderItsName, files, IsWhole
<1>5. \A c \in Clients : Shaped(req[c])'
  BY <1>2 DEF Shaped, Idle
<1>6. ASSUME ~raced'
      PROVE  Calm'
  <2>1. Safe
    BY <1>1, <1>6 DEF IInv, Calm
  <2>2. \A s \in Slugs : ~AtRisk(s)'
    BY <1>2 DEF AtRisk, Risky, Idle
  <2>3. Safe'
    BY <1>1, <2>1, <2>2, SafeStays DEF files
  <2>4. Apart' /\ \A c \in Clients : Midway(req[c])'
    BY <1>2 DEF Apart, Touched, Midway, Idle
  <2> QED BY <2>3, <2>4 DEF Calm
<1> QED BY <1>3, <1>4, <1>5, <1>6 DEF IInv

LEMMA StutterKeeps ==
  ASSUME IInv, UNCHANGED vars
  PROVE  IInv'
<1>1. UNCHANGED <<file, dirs, hist, tagged, target, req, asked, made, owed, crashes, raced>>
  BY DEF vars, files, rows, history
<1>2. TypeOK' /\ FiledUnderItsName'
  BY <1>1 DEF IInv, TypeOK, FiledUnderItsName, IsWhole
<1>3. \A c \in Clients : Shaped(req[c])'
  BY <1>1 DEF IInv, Shaped, IsWhole
<1>4. ASSUME ~raced'
      PROVE  Calm'
  <2>1. Apart /\ (\A c \in Clients : Midway(req[c])) /\ Safe
    BY <1>1, <1>4 DEF IInv, Calm
  <2>2. Apart'
    BY <1>1, <2>1 DEF Apart, Touched
  <2>3. \A c \in Clients : Midway(req[c])'
    BY <1>1, <2>1 DEF Midway, Bodies, IsWhole
  <2>4. \A s \in Slugs : AtRisk(s)' => AtRisk(s)
    BY <1>1 DEF AtRisk, Risky
  <2>5. Safe'
    BY <1>1, <2>1, <2>4, SafeStays
  <2> QED BY <2>2, <2>3, <2>5 DEF Calm
<1> QED BY <1>2, <1>3, <1>4 DEF IInv

LEMMA InitIInv == Init => IInv
<1> SUFFICES ASSUME Init PROVE IInv
  OBVIOUS
<1>1. TypeOK
  <2>1. << >> \in Seq(Content)
    OBVIOUS
  <2>2. hist \in [Slugs -> Seq(Content)] /\ \A s \in Slugs : hist[s] # << >> => s \in dirs
    BY <2>1 DEF Init
  <2>3. file \in [Slugs -> {NoFile} \cup Content] /\ req \in [Clients -> {Idle} \cup Request]
    BY DEF Init
  <2>4. tagged \subseteq Slugs /\ target \in [Schedules -> {NoTarget} \cup Slugs] /\ dirs \subseteq Slugs
    BY DEF Init
  <2>5. 0 \in 0..MaxRequests /\ 0 \in 0..MaxBodies /\ 0 \in 0..MaxCrashes
    BY BoundsAssumption
  <2>6. asked \in 0..MaxRequests /\ made \in 0..MaxBodies /\ owed \subseteq 0..MaxBodies
    BY <2>5 DEF Init
  <2>7. raced \in BOOLEAN /\ crashes \in 0..MaxCrashes
    BY <2>5 DEF Init
  <2> QED BY <2>2, <2>3, <2>4, <2>6, <2>7 DEF TypeOK
<1>2. FiledUnderItsName
  BY ContentShape DEF Init, FiledUnderItsName
<1>3. \A c \in Clients : Shaped(req[c]) /\ Midway(req[c])
  BY DEF Init, Shaped, Midway, Idle
<1>4. Apart /\ Safe
  BY DEF Init, Apart, Touched, Safe
<1> QED BY <1>1, <1>2, <1>3, <1>4 DEF IInv, Calm

LEMMA StepIInv == IInv /\ [Next]_vars => IInv'
<1> SUFFICES ASSUME IInv, [Next]_vars PROVE IInv'
  OBVIOUS
<1>1. CASE UNCHANGED vars
  BY <1>1, StutterKeeps
<1>2. CASE Crash
  BY <1>2, CrashKeeps
<1>3. ASSUME NEW c \in Clients, Handler(c)
      PROVE  IInv'
  <2>1. CASE Save(c) \/ CloneTemplate(c)
    BY <2>1, ComposeKeeps DEF Save, CloneTemplate
  <2>2. CASE Duplicate(c)
    <3>1. \A s \in Slugs : file[s] \in {NoFile} \cup Content
      BY DEF IInv, TypeOK
    <3> QED BY <2>2, <3>1, CopyKeeps DEF Duplicate
  <2>3. CASE Branch(c)
    <3>1. \A s \in Slugs : \A v \in Versions(s) : v \in {NoFile} \cup Content
      BY VersionShape DEF IInv
    <3> QED BY <2>3, <3>1, CopyKeeps DEF Branch
  <2>4. CASE Tag(c) \/ Schedule(c)
    BY <2>4, AttachKeeps DEF Tag, Schedule
  <2>5. CASE Restore(c) \/ Rename(c) \/ Delete(c) \/ PruneVersions(c)
    BY <2>5, RestoreKeeps, RenameKeeps, DeleteKeeps, PruneKeeps
  <2> QED BY <1>3, <2>1, <2>2, <2>3, <2>4, <2>5 DEF Handler
<1>4. ASSUME NEW c \in Clients, Step(c)
      PROVE  IInv'
  <2>1. CASE Archive(c) \/ Truncate(c) \/ Fill(c) \/ Unlink(c) \/ MoveHistory(c)
    BY <2>1, ArchiveKeeps, TruncateKeeps, FillKeeps, UnlinkKeeps, MoveKeeps
  <2>2. CASE MoveTags(c) \/ DropTags(c) \/ Repoint(c) \/ SetTags(c) \/ InsertSchedule(c)
    BY <2>2, TagsKeep, DropKeeps, RepointKeeps, SetTagsKeeps, InsertKeeps
  <2> QED BY <1>4, <2>1, <2>2 DEF Step
<1> QED BY <1>1, <1>2, <1>3, <1>4 DEF Next

\* The inductive invariant.
THEOREM Invariant == Spec => []IInv
  BY InitIInv, StepIInv, PTL DEF Spec

-----------------------------------------------------------------------------

\* pipelines.py: files, versions, tags, schedules and requests keep their types.
THEOREM TypeCorrect == Spec => []TypeOK
<1>1. IInv => TypeOK
  BY DEF IInv
<1> QED BY <1>1, Invariant, PTL

\* pipelines.py: whatever races and wherever the process dies, a readable file
\* holds the pipeline whose slug it is filed under.
THEOREM FilesMatchNames == Spec => []FiledUnderItsName
<1>1. IInv => FiledUnderItsName
  BY DEF IInv
<1> QED BY <1>1, Invariant, PTL

\* pipelines.py, save, rename, delete, prune: no definition that was written
\* whole becomes unreadable before its user gives it up, through any
\* interleaving of requests on different slugs and any death of the process.
THEOREM DefinitionsAreSafe == Spec => []NothingIsLost
<1>1. IInv => NothingIsLost
  <2> SUFFICES ASSUME IInv, ~raced, NEW b \in owed
               PROVE  b \in UNION {Bodies(file[s]) \cup UNION {Bodies(v) : v \in Versions(s)} : s \in Slugs}
    BY DEF NothingIsLost
  <2>1. PICK s \in Slugs : InHistory(b, s) \/ b \in Bodies(file[s])
    BY DEF IInv, Calm, Safe, Kept
  <2>2. InHistory(b, s) => b \in UNION {Bodies(v) : v \in Versions(s)}
    BY DEF InHistory, Versions
  <2> QED BY <2>1, <2>2
<1> QED BY <1>1, Invariant, PTL

\* pipelines.py and main.py, rename: when its last step is done nothing is left
\* under the old slug.
THEOREM RenamesAreComplete == Spec => RenameTakesEverything
<1>1. ASSUME IInv, [Next]_vars, NEW c \in Clients, Repoint(c), ~raced
      PROVE  /\ file'[req[c].from] = NoFile /\ hist'[req[c].from] = << >>
             /\ req[c].from \notin tagged'
             /\ \A k \in Schedules : target'[k] # req[c].from
  <2>1. TypeOK /\ Midway(req[c]) /\ Shaped(req[c]) /\ req[c].at = "repoint" /\ "repoint" \in Places
    BY <1>1 DEF IInv, Calm, Repoint, Places
  <2>2. req[c].op = "rename" /\ req[c].from # req[c].to /\ UNCHANGED <<files, tagged>>
    BY <1>1, <2>1 DEF Shaped, Repoint
  <2>3. \A k \in Schedules : target'[k] # req[c].from
    BY <1>1, <2>2 DEF Repoint, Repointed
  <2> QED BY <2>1, <2>2, <2>3 DEF Midway, files
<1>2. IInv /\ [Next]_vars =>
        [\A c \in Clients :
           Repoint(c) /\ ~raced =>
             LET old == req[c].from
             IN  /\ file'[old] = NoFile /\ hist'[old] = << >> /\ old \notin tagged'
                 /\ \A k \in Schedules : target'[k] # old]_vars
  BY <1>1
<1> QED BY <1>2, Invariant, PTL DEF Spec, RenameTakesEverything
=============================================================================
