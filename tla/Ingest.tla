------------------------------- MODULE Ingest -------------------------------
(***************************************************************************)
(* add_url and add_pdf: `vault-engine add` retains the bytes it was given  *)
(* at raw/_originals/<slug><suffix> and then writes raw/<slug>.md, whose   *)
(* frontmatter records that path and the hash of the bytes.  Each Procs is *)
(* one such command at a time.  Nothing locks the vault: both existence    *)
(* tests are separate from the writes that follow them, and no write is    *)
(* atomic (write_bytes and write_text truncate the file first).            *)
(*                                                                         *)
(* The slug is made of the title and the day, so two documents may have    *)
(* the same one; the suffix comes from the media type.  Fetching and       *)
(* extracting change no file: a call that fails there is a call that never *)
(* began.  A document stands for its bytes and for their hash.             *)
(***************************************************************************)
CONSTANTS Procs,
          Slugs, Suffixes, Docs,
          Absent,  \* no such file
          Torn     \* a file cut short: no document's bytes, no frontmatter

Names == Slugs \X Suffixes
\* A page that has its frontmatter; its body may be cut short.
PageRecords == [source_artifact : Names, source_sha256 : Docs, whole : BOOLEAN]

ASSUME FilesAssumption ==
  Absent # Torn /\ {Absent, Torn} \cap (Docs \cup PageRecords) = {}

VARIABLES originals,  \* raw/_originals/
          pages,      \* raw/*.md
          abandoned,  \* history: originals that an event below has left alone
          call,       \* the command each process is running
          overlapped  \* history: slugs that two commands at a time were about

vars == <<originals, pages, abandoned, call, overlapped>>

Idle  == [at |-> "idle"]
Calls == [at : {"check_original", "write_original", "check_page",
                "write_page", "unlink"},
          slug : Slugs, suffix : Suffixes, doc : Docs, overwrite : BOOLEAN]

TypeOK == /\ originals \in [Names -> Docs \cup {Absent, Torn}]
          /\ pages \in [Slugs -> PageRecords \cup {Absent, Torn}]
          /\ abandoned \subseteq Names
          /\ call \in [Procs -> Calls \cup {Idle}]
          /\ overlapped \subseteq Slugs

Init == /\ originals = [n \in Names |-> Absent]
        /\ pages = [s \in Slugs |-> Absent]
        /\ abandoned = {}
        /\ call = [p \in Procs |-> Idle]
        /\ overlapped = {}
-----------------------------------------------------------------------------
NameOf(c) == <<c.slug, c.suffix>>

\* Not the code: the hash of the original that the page had before.
PageStale(c, w) ==
  [source_artifact |-> NameOf(c), whole |-> w,
   source_sha256 |-> IF pages[c.slug] \in PageRecords
                     THEN pages[c.slug].source_sha256 ELSE c.doc]

\* Not the code: two frontmatter values in each other's place.
PageSwapped(c, w) ==
  [source_artifact |-> c.doc, source_sha256 |-> NameOf(c), whole |-> w]

\* The page, with what it records of the original.
Page(c, w) ==
  [source_artifact |-> NameOf(c), source_sha256 |-> c.doc, whole |-> w]

\* `vault-engine source`: the verdict on the original of a page.
Integrity(s) ==
  IF pages[s] \notin PageRecords THEN "none"
  ELSE LET found == originals[pages[s].source_artifact] IN
       IF found = Absent THEN "MISSING"
       ELSE IF found = pages[s].source_sha256 THEN "ok" ELSE "MISMATCH"

References(s, n) == pages[s] \in PageRecords /\ pages[s].source_artifact = n

\* The originals whose page ceases to reference them in this step.
Lost(s) ==
  {n \in Names : /\ References(s, n)
                 /\ ~ (pages'[s] \in PageRecords /\ pages'[s].source_artifact = n)}

\* p has written its original, and neither its page nor its end has come.
Holds(p, n) == /\ call[p] # Idle /\ NameOf(call[p]) = n
               /\ call[p].at \in {"check_page", "write_page", "unlink"}

Goto(p, at) == call' = [call EXCEPT ![p].at = at] /\ UNCHANGED overlapped
Leave(p)    == call' = [call EXCEPT ![p] = Idle] /\ UNCHANGED overlapped

\* The document is fetched or read, and extracted.
Fetched(p, s, x, d, o) ==
  /\ call[p] = Idle
  /\ call' = [call EXCEPT ![p] = [at |-> "check_original", slug |-> s,
                                  suffix |-> x, doc |-> d, overwrite |-> o]]
  /\ overlapped' = IF \E q \in Procs : call[q] # Idle /\ call[q].slug = s
                   THEN overlapped \cup {s} ELSE overlapped
  /\ UNCHANGED <<originals, pages, abandoned>>

\* Not the code: only the page is protected from being overwritten.
CheckOriginalNever(p) == /\ call[p].at = "check_original"
                         /\ Goto(p, "write_original")
                         /\ UNCHANGED <<originals, pages, abandoned>>

\* `if dest.exists() and not overwrite: raise FileExistsError`, which reaches
\* the user: nothing has been written.
CheckOriginal(p) ==
  /\ call[p].at = "check_original"
  /\ IF originals[NameOf(call[p])] # Absent /\ ~ call[p].overwrite
     THEN Leave(p) ELSE Goto(p, "write_original")
  /\ UNCHANGED <<originals, pages, abandoned>>

WriteOriginal(p) ==
  /\ call[p].at = "write_original"
  /\ originals' = [originals EXCEPT ![NameOf(call[p])] = call[p].doc]
  /\ Goto(p, "check_page")
  /\ UNCHANGED <<pages, abandoned>>

\* write_bytes raises, perhaps half-way: it is not inside the try statement.
WriteOriginalRaises(p) ==
  /\ call[p].at = "write_original"
  /\ originals' \in {originals, [originals EXCEPT ![NameOf(call[p])] = Torn]}
  /\ abandoned' = abandoned \cup {n \in Names : originals'[n] # originals[n]}
  /\ Leave(p)
  /\ UNCHANGED pages

CheckPage(p) ==
  /\ call[p].at = "check_page"
  /\ IF pages[call[p].slug] # Absent /\ ~ call[p].overwrite
     THEN Goto(p, "unlink") ELSE Goto(p, "write_page")
  /\ UNCHANGED <<originals, pages, abandoned>>

\* The page that is replaced may have had an original of another suffix,
\* which stays.
WritePage(p) ==
  /\ call[p].at = "write_page"
  /\ LET c == call[p]
     IN /\ pages' = [pages EXCEPT ![c.slug] = Page(c, TRUE)]
        /\ abandoned' = (abandoned \cup Lost(c.slug)) \ {NameOf(c)}
  /\ Leave(p)
  /\ UNCHANGED originals

\* write_raw_file raises, or the user presses Ctrl-C: before the page file is
\* opened, when it has been truncated, or when the frontmatter, which comes
\* first, has reached the disk already (a disk that fills up, say).
WritePageRaises(p) ==
  /\ call[p].at \in {"check_page", "write_page"}
  /\ \E left \in {pages[call[p].slug]} \cup
                 (IF call[p].at = "check_page" THEN {}
                  ELSE {Torn, Page(call[p], FALSE)}) :
       pages' = [pages EXCEPT ![call[p].slug] = left]
  /\ abandoned' = abandoned \cup Lost(call[p].slug)
  /\ Goto(p, "unlink")
  /\ UNCHANGED originals

\* Not the code: the handler before `except BaseException` was added.
UnlinkNothing(p) == /\ call[p].at = "unlink"
                    /\ Leave(p)
                    /\ UNCHANGED <<originals, pages, abandoned>>

\* `except BaseException: original.unlink(missing_ok=True); raise`
Unlink(p) ==
  /\ call[p].at = "unlink"
  /\ originals' = [originals EXCEPT ![NameOf(call[p])] = Absent]
  /\ Leave(p)
  /\ UNCHANGED <<pages, abandoned>>

\* The process is killed, perhaps in the middle of a write.
Killed(p) ==
  /\ call[p] # Idle
  /\ LET c == call[p]
     IN /\ originals' \in {originals} \cup
             (IF c.at = "write_original"
              THEN {[originals EXCEPT ![NameOf(c)] = Torn]} ELSE {})
        /\ pages' \in {pages} \cup
             (IF c.at = "write_page"
              THEN {[pages EXCEPT ![c.slug] = w] : w \in {Torn, Page(c, FALSE)}}
              ELSE {})
        /\ abandoned' = abandoned \cup Lost(c.slug)
             \cup {n \in Names : Holds(p, n) \/ originals'[n] # originals[n]}
  /\ Leave(p)

\* The user, or `/vault ingest`, removes a page of raw/.
RemovePage(s) ==
  /\ pages[s] # Absent
  /\ pages' = [pages EXCEPT ![s] = Absent]
  /\ abandoned' = abandoned \cup Lost(s)
  /\ UNCHANGED <<originals, call, overlapped>>

Next == \/ \E p \in Procs :
             \/ \E s \in Slugs, x \in Suffixes, d \in Docs, o \in BOOLEAN :
                  Fetched(p, s, x, d, o)
             \/ CheckOriginal(p) \/ WriteOriginal(p) \/ WriteOriginalRaises(p)
             \/ CheckPage(p) \/ WritePage(p) \/ WritePageRaises(p)
             \/ Unlink(p) \/ Killed(p)
        \/ \E s \in Slugs : RemovePage(s)

Spec == Init /\ [][Next]_vars
-----------------------------------------------------------------------------
\* Who may spoil the page of s, by the step it is at: a command that is about
\* to write, with --overwrite, or past a test that it made while another
\* command was about s as well; and one that takes away the original it has
\* written, after its own page failed.
Verified(s) == Integrity(s) = "ok" /\ pages[s].whole

MaySpoil(p, s) ==
  /\ call[p] # Idle /\ call[p].slug = s
  /\ \/ /\ call[p].at \in {"write_original", "write_page"}
        /\ call[p].overwrite \/ s \in overlapped
     \/ call[p].at = "unlink" /\ NameOf(call[p]) = pages[s].source_artifact

\* Nobody else does: a page that verifies does so after the next step, unless
\* that step removes the page or is taken by such a command.  A command without
\* --overwrite that is alone with its slug replaces neither a page nor an
\* original that was there when it looked; two at once do replace each other's,
\* the tests and the writes being apart, and unlink each other's originals.
StaysVerified ==
  [][\A s \in Slugs :
       Verified(s) /\ pages'[s] # Absent /\ ~ Verified(s)'
         => \E p \in Procs : MaySpoil(p, s) /\ call'[p] # call[p]]_vars

\* A page that is complete was, when it was written, a page whose original
\* verifies, also when the command replaced both, as long as no two commands
\* were about its slug at once.
WrittenVerified ==
  [][\A s \in Slugs \ overlapped : /\ pages'[s] # pages[s]
                                   /\ pages'[s] \in PageRecords
                                   /\ pages'[s].whole
                                   => Integrity(s)' = "ok"]_vars

\* "a retained artifact no page references is an orphan": a command leaves
\* none, whether it succeeds or raises, and whatever another command does
\* between its steps.  The exceptions are the originals of a page that was
\* removed, replaced or torn, one that was torn itself, and what a command had
\* written when it was killed.
NoOrphans ==
  \A n \in Names : originals[n] # Absent =>
    \/ n \in abandoned
    \/ \E s \in Slugs : References(s, n)
    \/ \E p \in Procs : call[p] # Idle /\ NameOf(call[p]) = n
-----------------------------------------------------------------------------
\* The inductive invariant.  A page's original goes by the page's slug.  Calls
\* about one slug at a time are known to have overlapped.  An original is
\* accounted for by a call only from the moment that call has written it: what
\* a command finds before that must be justified without it.  And as long as no
\* other command is about the slug, what a command found, or wrote, is still so.
OwnOriginal == \A s \in Slugs :
  pages[s] \in PageRecords => \E x \in Suffixes : pages[s].source_artifact = <<s, x>>

OverlapKnown == \A p, q \in Procs :
  p # q /\ call[p] # Idle /\ call[q] # Idle /\ call[p].slug = call[q].slug
    => call[p].slug \in overlapped

Justified == \A n \in Names : originals[n] # Absent =>
  \/ n \in abandoned
  \/ \E s \in Slugs : References(s, n)
  \/ \E p \in Procs : Holds(p, n)

StillSo == \A p \in Procs : call[p] # Idle /\ call[p].slug \notin overlapped =>
  /\ call[p].at = "write_original" /\ ~ call[p].overwrite =>
       originals[NameOf(call[p])] = Absent
  /\ call[p].at = "write_page" /\ ~ call[p].overwrite => pages[call[p].slug] = Absent
  /\ call[p].at \in {"check_page", "write_page"} =>
       originals[NameOf(call[p])] = call[p].doc

Inv == TypeOK /\ OwnOriginal /\ OverlapKnown /\ Justified /\ StillSo
-----------------------------------------------------------------------------
\* What the comment on the handler says of it: what it unlinks is an orphan,
\* "a retained artifact no page references" (pages cut short left aside).
UnlinksOrphansOnly ==
  [][\A n \in Names : originals[n] # Absent /\ originals'[n] = Absent
       => \A s \in Slugs : ~ (References(s, n) /\ pages[s].whole)]_vars
=============================================================================
