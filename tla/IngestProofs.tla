----------------------------- MODULE IngestProofs -----------------------------
(***************************************************************************)
(* What Ingest promises, for any commands at a time, slugs, types of       *)
(* original and documents.  Inv is inductive; the two action properties    *)
(* follow from it and from one step of Next.                               *)
(***************************************************************************)
EXTENDS Ingest, TLAPS

LEMMA IdleIsNoCall == \A c \in Calls : c # Idle /\ c.at # "idle"
BY DEF Calls, Idle

\* A process that is at some step of a command is in a call, about a file.
LEMMA BusyCall ==
  ASSUME TypeOK, NEW p \in Procs, call[p] # Idle
  PROVE  /\ call[p] \in Calls /\ NameOf(call[p]) \in Names
         /\ NameOf(call[p]) = <<call[p].slug, call[p].suffix>>
BY DEF TypeOK, Calls, NameOf, Names

Moves == {"write_original", "check_page", "write_page", "unlink"}

\* What a command's own step does to the calls: it moves on, or ends.
LEMMA GotoCalls ==
  ASSUME TypeOK, NEW p \in Procs, call[p] # Idle, NEW at \in Moves, Goto(p, at)
  PROVE  /\ call' \in [Procs -> Calls \cup {Idle}]
         /\ call'[p] \in Calls /\ call'[p] # Idle /\ call'[p].at = at
         /\ call'[p].slug = call[p].slug /\ call'[p].suffix = call[p].suffix
         /\ call'[p].doc = call[p].doc /\ call'[p].overwrite = call[p].overwrite
         /\ NameOf(call'[p]) = NameOf(call[p])
         /\ \A q \in Procs \ {p} : call'[q] = call[q]
         /\ overlapped' = overlapped
<1> DEFINE c == [call[p] EXCEPT !.at = at]
<1>1. call[p] \in Calls
  BY BusyCall
<1>2. /\ c \in Calls /\ c.at = at /\ c.slug = call[p].slug /\ c.suffix = call[p].suffix
      /\ c.doc = call[p].doc /\ c.overwrite = call[p].overwrite
  BY <1>1 DEF Calls, Moves
<1>3. call' = [call EXCEPT ![p] = c] /\ overlapped' = overlapped
  BY DEF Goto
<1> HIDE DEF c
<1>4. call'[p] = c /\ \A q \in Procs \ {p} : call'[q] = call[q]
  BY <1>3 DEF TypeOK
<1> QED
  BY <1>2, <1>3, <1>4, IdleIsNoCall DEF TypeOK, NameOf

LEMMA LeaveCalls ==
  ASSUME TypeOK, NEW p \in Procs, Leave(p)
  PROVE  /\ call' \in [Procs -> Calls \cup {Idle}]
         /\ call'[p] = Idle
         /\ \A q \in Procs \ {p} : call'[q] = call[q]
         /\ overlapped' = overlapped
BY DEF TypeOK, Leave

LEMMA PageRecord ==
  ASSUME NEW c \in Calls, NEW w \in BOOLEAN
  PROVE  /\ Page(c, w) \in PageRecords
         /\ Page(c, w).source_artifact = NameOf(c)
         /\ Page(c, w).source_sha256 = c.doc /\ Page(c, w).whole = w
         /\ NameOf(c) \in Names /\ NameOf(c) = <<c.slug, c.suffix>>
BY DEF Page, PageRecords, Calls, NameOf, Names

LEMMA NoRecord == Absent # Torn /\ Absent \notin PageRecords /\ Torn \notin PageRecords
BY FilesAssumption

LEMMA InitInv == Init => Inv
BY FilesAssumption, IdleIsNoCall
   DEF Init, Inv, TypeOK, OwnOriginal, OverlapKnown, Justified, StillSo, PageRecords

LEMMA FetchedStep ==
  ASSUME Inv, NEW p \in Procs, NEW s \in Slugs, NEW x \in Suffixes, NEW d \in Docs,
         NEW o \in BOOLEAN, Fetched(p, s, x, d, o)
  PROVE  Inv'
<1> DEFINE c == [at |-> "check_original", slug |-> s, suffix |-> x, doc |-> d, overwrite |-> o]
<1>1. c \in Calls /\ c.at = "check_original" /\ c.slug = s
  BY DEF Calls
<1>2. call' = [call EXCEPT ![p] = c] /\ call[p] = Idle
  BY DEF Fetched
<1> HIDE DEF c
<1>3. call'[p] = c /\ \A q \in Procs \ {p} : call'[q] = call[q]
  BY <1>2 DEF Inv, TypeOK
<1>4. /\ UNCHANGED <<originals, pages, abandoned>>
      /\ overlapped \subseteq overlapped' /\ overlapped' \subseteq Slugs
      /\ (\E q \in Procs : call[q] # Idle /\ call[q].slug = s) => s \in overlapped'
  BY DEF Fetched, Inv, TypeOK
<1>5. TypeOK'
  BY <1>1, <1>2, <1>4 DEF Inv, TypeOK
<1>6. OwnOriginal'
  BY <1>4 DEF Inv, OwnOriginal
<1>7. OverlapKnown'
  BY <1>1, <1>2, <1>3, <1>4 DEF Inv, OverlapKnown
<1>8. \A q \in Procs, n \in Names : Holds(q, n) => Holds(q, n)'
  BY <1>2, <1>3 DEF Holds, NameOf
<1>9. Justified'
  BY <1>4, <1>8 DEF Inv, Justified, References
<1>10. StillSo'
  BY <1>1, <1>3, <1>4 DEF Inv, StillSo, NameOf
<1> QED
  BY <1>5, <1>6, <1>7, <1>9, <1>10 DEF Inv

\* A command's test changes no file; one that it fails has left no file either.
LEMMA CheckStep ==
  ASSUME Inv, NEW p \in Procs, CheckOriginal(p) \/ CheckPage(p)
  PROVE  Inv'
<1>1. /\ call[p] # Idle /\ call[p] \in Calls /\ NameOf(call[p]) \in Names
      /\ UNCHANGED <<originals, pages, abandoned>>
  BY BusyCall DEF CheckOriginal, CheckPage, Idle, Inv
<1>2. CASE Leave(p)
  <2>1. call[p].at = "check_original"
    BY <1>1, <1>2, GotoCalls, LeaveCalls DEF CheckOriginal, CheckPage, Inv, Moves
  <2>2. \A q \in Procs, n \in Names : Holds(q, n) => Holds(q, n)'
    BY <1>2, <2>1, LeaveCalls DEF Holds, NameOf, Inv
  <2>3. TypeOK' /\ OwnOriginal'
    BY <1>1, <1>2, LeaveCalls DEF Inv, TypeOK, OwnOriginal
  <2>4. OverlapKnown'
    BY <1>2, LeaveCalls DEF Inv, OverlapKnown
  <2>5. Justified'
    BY <1>1, <2>2 DEF Inv, Justified, References
  <2>6. StillSo'
    BY <1>1, <1>2, LeaveCalls DEF Inv, StillSo, NameOf
  <2> QED
    BY <2>3, <2>4, <2>5, <2>6 DEF Inv
<1>3. ASSUME NEW at \in Moves, Goto(p, at),
             \/ call[p].at = "check_original" /\ at = "write_original"
                /\ (originals[NameOf(call[p])] = Absent \/ call[p].overwrite)
             \/ call[p].at = "check_page" /\ at = "unlink"
             \/ call[p].at = "check_page" /\ at = "write_page"
                /\ (pages[call[p].slug] = Absent \/ call[p].overwrite)
      PROVE  Inv'
  <2>2. \A q \in Procs, n \in Names : Holds(q, n) => Holds(q, n)'
    BY <1>1, <1>3, GotoCalls DEF Holds, NameOf, Inv
  <2>3. TypeOK' /\ OwnOriginal'
    BY <1>1, <1>3, GotoCalls DEF Inv, TypeOK, OwnOriginal
  <2>4. OverlapKnown'
    BY <1>1, <1>3, GotoCalls DEF Inv, OverlapKnown
  <2>5. Justified'
    BY <1>1, <2>2 DEF Inv, Justified, References
  <2>6. StillSo'
    BY <1>1, <1>3, GotoCalls DEF Inv, StillSo
  <2> QED
    BY <2>3, <2>4, <2>5, <2>6 DEF Inv
<1> QED
  BY <1>2, <1>3 DEF CheckOriginal, CheckPage, Moves

\* The step by which a command writes its original.
LEMMA WriteOriginalStep ==
  ASSUME Inv, NEW p \in Procs, WriteOriginal(p)
  PROVE  Inv'
<1> DEFINE c == call[p]
<1>1. /\ c # Idle /\ c \in Calls /\ NameOf(c) \in Names /\ c.doc \in Docs
      /\ NameOf(c) = <<c.slug, c.suffix>> /\ c.at = "write_original"
  BY BusyCall DEF WriteOriginal, Idle, Inv, Calls
<1>2. /\ originals' = [originals EXCEPT ![NameOf(c)] = c.doc]
      /\ Goto(p, "check_page") /\ UNCHANGED <<pages, abandoned>>
  BY DEF WriteOriginal
<1>3. /\ originals'[NameOf(c)] = c.doc
      /\ \A n \in Names : n # NameOf(c) => originals'[n] = originals[n]
  BY <1>1, <1>2 DEF Inv, TypeOK
<1>4. \A q \in Procs, n \in Names : Holds(q, n) => Holds(q, n)'
  BY <1>1, <1>2, GotoCalls DEF Holds, NameOf, Inv, Moves
<1>5. \A n \in Names : n = NameOf(c) => Holds(p, n)'
  BY <1>1, <1>2, GotoCalls DEF Holds, Inv, Moves
<1>6. TypeOK' /\ OwnOriginal'
  BY <1>1, <1>2, GotoCalls DEF Inv, TypeOK, OwnOriginal, Moves
<1>7. OverlapKnown'
  BY <1>1, <1>2, GotoCalls DEF Inv, OverlapKnown, Moves
<1>8. Justified'
  <2>1. SUFFICES ASSUME NEW n \in Names, originals'[n] # Absent
                 PROVE  \/ n \in abandoned'
                        \/ \E s \in Slugs : References(s, n)'
                        \/ \E q \in Procs : Holds(q, n)'
    BY DEF Justified
  <2>2. CASE n = NameOf(c)
    BY <1>5, <2>2
  <2>3. CASE n # NameOf(c)
    BY <1>2, <1>3, <1>4, <2>1, <2>3 DEF Inv, Justified, References
  <2> QED
    BY <2>2, <2>3
<1>9. \A q \in Procs \ {p} : call[q] # Idle /\ call[q].slug \notin overlapped =>
        NameOf(call[q]) # NameOf(c)
  BY <1>1, BusyCall DEF Inv, OverlapKnown
<1>10. StillSo'
  BY <1>1, <1>2, <1>3, <1>9, GotoCalls, BusyCall DEF Inv, StillSo, Moves
<1> QED
  BY <1>6, <1>7, <1>8, <1>10 DEF Inv

\* Commands about one slug are known to overlap, so what another is about, when
\* it is not known to, are another page and another original.
LEMMA OtherFiles ==
  ASSUME Inv, NEW p \in Procs, NEW q \in Procs \ {p}, call[p] # Idle, call[q] # Idle,
         call[q].slug \notin overlapped
  PROVE  call[q].slug # call[p].slug /\ NameOf(call[q]) # NameOf(call[p])
BY BusyCall DEF Inv, OverlapKnown

LEMMA NothingLost ==
  ASSUME pages' = pages, NEW s
  PROVE  Lost(s) = {}
<1>1. \A n \in Names : References(s, n) => pages'[s] \in PageRecords
                                           /\ pages'[s].source_artifact = n
  BY DEF References
<1> QED
  BY <1>1 DEF Lost

\* A command ends having touched no page and no original but its own, and it
\* leaves its original absent, abandoned, referenced, or as it was before the
\* command had written it.
LEMMA EndStep ==
  ASSUME Inv, NEW p \in Procs, call[p] # Idle, Leave(p),
         originals' \in [Names -> Docs \cup {Absent, Torn}],
         pages' \in [Slugs -> PageRecords \cup {Absent, Torn}],
         abandoned' \subseteq Names, OwnOriginal',
         \A n \in Names \ {NameOf(call[p])} : originals'[n] = originals[n],
         \A s \in Slugs \ {call[p].slug} : pages'[s] = pages[s],
         abandoned \ {NameOf(call[p])} \subseteq abandoned',
         Lost(call[p].slug) \ {NameOf(call[p])} \subseteq abandoned',
         \/ originals'[NameOf(call[p])] = Absent
         \/ /\ UNCHANGED <<originals, pages>> /\ abandoned \subseteq abandoned'
            /\ ~ Holds(p, NameOf(call[p]))
         \/ NameOf(call[p]) \in abandoned'
         \/ \E s \in Slugs : pages'[s] \in PageRecords
                             /\ pages'[s].source_artifact = NameOf(call[p])
  PROVE  Inv'
<1>1. /\ call' \in [Procs -> Calls \cup {Idle}] /\ call'[p] = Idle
      /\ \A q \in Procs \ {p} : call'[q] = call[q]
      /\ overlapped' = overlapped
  BY LeaveCalls DEF Inv
<1>2. call[p] \in Calls /\ call[p].slug \in Slugs /\ NameOf(call[p]) \in Names
  BY BusyCall DEF Inv, Calls
<1>3. TypeOK'
  BY <1>1 DEF Inv, TypeOK
<1>4. OverlapKnown'
  BY <1>1 DEF Inv, OverlapKnown
<1>5. Justified'
  <2>1. SUFFICES ASSUME NEW n \in Names, originals'[n] # Absent
                 PROVE  \/ n \in abandoned'
                        \/ \E s \in Slugs : References(s, n)'
                        \/ \E q \in Procs : Holds(q, n)'
    BY DEF Justified
  <2>2. CASE /\ n = NameOf(call[p])
             /\ \/ n \in abandoned'
                \/ \E s \in Slugs : pages'[s] \in PageRecords
                                    /\ pages'[s].source_artifact = n
    BY <2>1, <2>2 DEF References
  <2>3. CASE \/ n # NameOf(call[p])
             \/ /\ UNCHANGED <<originals, pages>> /\ abandoned \subseteq abandoned'
                /\ ~ Holds(p, NameOf(call[p]))
    <3>1. originals[n] # Absent
      BY <2>1, <2>3
    <3>2. CASE n \in abandoned
      BY <2>3, <3>2
    <3>3. ASSUME NEW s \in Slugs, References(s, n)
          PROVE  n \in abandoned' \/ \E r \in Slugs : References(r, n)'
      <4>1. CASE s = call[p].slug /\ n # NameOf(call[p])
        BY <3>3, <4>1 DEF Lost, References
      <4>2. CASE s # call[p].slug \/ UNCHANGED pages
        BY <3>3, <4>2 DEF References
      <4> QED
        BY <2>3, <4>1, <4>2
    <3>4. ASSUME NEW q \in Procs, Holds(q, n)
          PROVE  Holds(q, n)'
      <4>1. q # p
        BY <2>3, <3>4 DEF Holds
      <4> QED
        BY <1>1, <3>4, <4>1 DEF Holds, NameOf
    <3> QED
      BY <3>1, <3>2, <3>3, <3>4 DEF Inv, Justified
  <2> QED
    BY <2>1, <2>2, <2>3
<1>6. StillSo'
  <2>1. SUFFICES ASSUME NEW q \in Procs \ {p}, call[q] # Idle, call[q].slug \notin overlapped
                 PROVE  /\ originals'[NameOf(call[q])] = originals[NameOf(call[q])]
                        /\ pages'[call[q].slug] = pages[call[q].slug]
    BY <1>1 DEF Inv, StillSo, NameOf
  <2>2. call[q] \in Calls /\ call[q].slug \in Slugs /\ NameOf(call[q]) \in Names
    BY <2>1, BusyCall DEF Inv, Calls
  <2> QED
    BY <2>1, <2>2, OtherFiles
<1> QED
  BY <1>3, <1>4, <1>5, <1>6 DEF Inv

\* Every way in which a command ends, but for the tests that it fails.
LEMMA LastStep ==
  ASSUME Inv, NEW p \in Procs,
         WriteOriginalRaises(p) \/ WritePage(p) \/ Unlink(p) \/ Killed(p)
  PROVE  Inv'
<1> DEFINE c == call[p]
<1>1. /\ c # Idle /\ c \in Calls /\ NameOf(c) \in Names /\ c.slug \in Slugs
      /\ c.suffix \in Suffixes /\ NameOf(c) = <<c.slug, c.suffix>>
  <2>1. Killed(p) => c # Idle
    BY DEF Killed
  <2>2. WriteOriginalRaises(p) \/ WritePage(p) \/ Unlink(p) => c.at # "idle"
    BY DEF WriteOriginalRaises, WritePage, Unlink
  <2> QED
    BY <2>1, <2>2, BusyCall DEF Inv, Calls, Idle
<1>2. /\ originals \in [Names -> Docs \cup {Absent, Torn}]
      /\ pages \in [Slugs -> PageRecords \cup {Absent, Torn}] /\ abandoned \subseteq Names
  BY DEF Inv, TypeOK
<1>3. \A w \in BOOLEAN : /\ Page(c, w) \in PageRecords
                         /\ Page(c, w).source_artifact = NameOf(c)
  BY <1>1, PageRecord
<1>4. CASE WriteOriginalRaises(p)
  <2>1. /\ Leave(p) /\ UNCHANGED pages /\ c.at = "write_original"
        /\ originals' \in {originals, [originals EXCEPT ![NameOf(c)] = Torn]}
        /\ abandoned' = abandoned \cup {n \in Names : originals'[n] # originals[n]}
    BY <1>4 DEF WriteOriginalRaises
  <2>2. OwnOriginal' /\ Lost(c.slug) = {}
    BY <2>1, NothingLost DEF Inv, OwnOriginal
  <2>3. originals' = originals => ~ Holds(p, NameOf(c)) /\ abandoned' = abandoned
    BY <2>1 DEF Holds
  <2>4. /\ originals' \in [Names -> Docs \cup {Absent, Torn}]
        /\ \A n \in Names \ {NameOf(c)} : originals'[n] = originals[n]
        /\ abandoned' \subseteq Names /\ abandoned \subseteq abandoned'
    BY <1>1, <1>2, <2>1
  <2>5. originals'[NameOf(c)] # originals[NameOf(c)] => NameOf(c) \in abandoned'
    BY <1>1, <2>1
  <2>6. originals'[NameOf(c)] = originals[NameOf(c)] => originals' = originals
    BY <1>1, <1>2, <2>1
  <2> QED
    BY <1>1, <1>2, <2>1, <2>2, <2>3, <2>4, <2>5, <2>6, EndStep
<1>5. CASE WritePage(p)
  <2>1. Leave(p) /\ UNCHANGED originals /\ pages' = [pages EXCEPT ![c.slug] = Page(c, TRUE)]
        /\ abandoned' = (abandoned \cup Lost(c.slug)) \ {NameOf(c)}
    BY <1>5 DEF WritePage
  <2>2. pages'[c.slug] = Page(c, TRUE) /\ \A s \in Slugs \ {c.slug} : pages'[s] = pages[s]
    BY <1>1, <1>2, <2>1
  <2>3. OwnOriginal'
    BY <1>1, <1>3, <2>2 DEF Inv, OwnOriginal
  <2>4. pages' \in [Slugs -> PageRecords \cup {Absent, Torn}] /\ Lost(c.slug) \subseteq Names
    BY <1>1, <1>2, <1>3, <2>1 DEF Lost
  <2> QED
    BY <1>1, <1>2, <1>3, <2>1, <2>2, <2>3, <2>4, EndStep
<1>6. CASE Unlink(p)
  <2>1. Leave(p) /\ UNCHANGED <<pages, abandoned>>
        /\ originals' = [originals EXCEPT ![NameOf(c)] = Absent]
    BY <1>6 DEF Unlink
  <2>2. OwnOriginal' /\ Lost(c.slug) = {}
    BY <2>1, NothingLost DEF Inv, OwnOriginal
  <2>3. originals'[NameOf(c)] = Absent
    BY <1>1, <1>2, <2>1
  <2>4. /\ originals' \in [Names -> Docs \cup {Absent, Torn}]
        /\ \A n \in Names \ {NameOf(c)} : originals'[n] = originals[n]
    BY <1>1, <1>2, <2>1
  <2> QED
    BY <1>1, <1>2, <2>1, <2>2, <2>3, <2>4, EndStep
<1>7. CASE Killed(p)
  <2>1. Leave(p)
        /\ originals' \in {originals, [originals EXCEPT ![NameOf(c)] = Torn]}
        /\ (pages' = pages \/ \E w \in {Torn, Page(c, FALSE)} :
                                pages' = [pages EXCEPT ![c.slug] = w])
    BY <1>7 DEF Killed
  <2>2. /\ pages' \in [Slugs -> PageRecords \cup {Absent, Torn}]
        /\ \A s \in Slugs \ {c.slug} : pages'[s] = pages[s]
        /\ pages'[c.slug] \in {pages[c.slug], Torn, Page(c, FALSE)}
    <3>1. CASE pages' = pages
      BY <1>2, <3>1
    <3>2. ASSUME NEW w \in {Torn, Page(c, FALSE)}, pages' = [pages EXCEPT ![c.slug] = w]
          PROVE  /\ pages' \in [Slugs -> PageRecords \cup {Absent, Torn}]
                 /\ pages'[c.slug] = w
                 /\ \A s \in Slugs \ {c.slug} : pages'[s] = pages[s]
      <4>1. w \in PageRecords \cup {Absent, Torn}
        BY <1>3, <3>2
      <4> HIDE DEF c
      <4> QED
        BY <1>1, <1>2, <3>2, <4>1
    <3> QED
      BY <2>1, <3>1, <3>2
  <2>3. OwnOriginal'
    BY <1>1, <1>3, <2>2, NoRecord DEF Inv, OwnOriginal
  <2>4. /\ originals' \in [Names -> Docs \cup {Absent, Torn}]
        /\ \A n \in Names \ {NameOf(c)} : originals'[n] = originals[n]
    BY <1>1, <1>2, <2>1
  <2>5. /\ Lost(c.slug) \subseteq abandoned' /\ abandoned \subseteq abandoned'
        /\ abandoned' \subseteq Names
        /\ Holds(p, NameOf(c)) => NameOf(c) \in abandoned'
        /\ originals'[NameOf(c)] # originals[NameOf(c)] => NameOf(c) \in abandoned'
    <3>1. abandoned' = abandoned \cup Lost(c.slug)
            \cup {n \in Names : Holds(p, n) \/ originals'[n] # originals[n]}
      BY <1>7 DEF Killed
    <3>2. Lost(c.slug) \subseteq Names
      BY DEF Lost
    <3> HIDE DEF c
    <3> QED
      BY <1>1, <1>2, <3>1, <3>2
  <2>6. ~ Holds(p, NameOf(c)) => pages' = pages
    BY <1>1, <1>7 DEF Killed, Holds
  <2>7. originals' = originals \/ originals'[NameOf(c)] # originals[NameOf(c)]
    <3>1. originals[NameOf(c)] = Torn => [originals EXCEPT ![NameOf(c)] = Torn] = originals
      BY <1>1, <1>2
    <3>2. [originals EXCEPT ![NameOf(c)] = Torn][NameOf(c)] = Torn
      BY <1>1, <1>2
    <3> QED
      BY <2>1, <3>1, <3>2
  <2> QED
    BY <1>1, <1>2, <2>1, <2>2, <2>3, <2>4, <2>5, <2>6, <2>7, EndStep
<1> QED
  BY <1>4, <1>5, <1>6, <1>7

LEMMA WritePageRaisesStep ==
  ASSUME Inv, NEW p \in Procs, WritePageRaises(p)
  PROVE  Inv'
<1> DEFINE c == call[p]
<1>1. /\ c # Idle /\ c \in Calls /\ NameOf(c) \in Names /\ c.slug \in Slugs
      /\ c.suffix \in Suffixes /\ NameOf(c) = <<c.slug, c.suffix>>
      /\ c.at \in {"check_page", "write_page"}
  BY BusyCall DEF WritePageRaises, Idle, Inv, Calls
<1>2. /\ Goto(p, "unlink") /\ UNCHANGED originals
      /\ abandoned' = abandoned \cup Lost(c.slug)
      /\ \E left \in {pages[c.slug], Torn, Page(c, FALSE)} :
           pages' = [pages EXCEPT ![c.slug] = left]
  BY DEF WritePageRaises
<1>3. Page(c, FALSE) \in PageRecords /\ Page(c, FALSE).source_artifact = NameOf(c)
  BY <1>1, PageRecord
<1>4. /\ pages' \in [Slugs -> PageRecords \cup {Absent, Torn}]
      /\ \A s \in Slugs \ {c.slug} : pages'[s] = pages[s]
      /\ pages'[c.slug] \in {pages[c.slug], Torn, Page(c, FALSE)}
  <2>1. PICK left \in {pages[c.slug], Torn, Page(c, FALSE)} :
          pages' = [pages EXCEPT ![c.slug] = left]
    BY <1>2
  <2>2. pages \in [Slugs -> PageRecords \cup {Absent, Torn}]
    BY DEF Inv, TypeOK
  <2>3. left \in PageRecords \cup {Absent, Torn}
    BY <1>1, <1>3, <2>2
  <2> HIDE DEF c
  <2> QED
    BY <1>1, <2>1, <2>2, <2>3
<1>5. TypeOK'
  BY <1>1, <1>2, <1>4, GotoCalls DEF Inv, TypeOK, Moves, Lost
<1>6. OwnOriginal'
  <2>1. SUFFICES ASSUME NEW s \in Slugs, pages'[s] \in PageRecords
                 PROVE  \E x \in Suffixes : pages'[s].source_artifact = <<s, x>>
    BY DEF OwnOriginal
  <2>2. CASE pages'[s] = pages[s]
    BY <2>1, <2>2 DEF Inv, OwnOriginal
  <2>3. CASE s = c.slug /\ pages'[s] = Page(c, FALSE)
    BY <1>1, <1>3, <2>3
  <2> QED
    BY <1>4, <2>1, <2>2, <2>3, NoRecord
<1>7. OverlapKnown'
  BY <1>1, <1>2, GotoCalls DEF Inv, OverlapKnown, Moves
<1>8. \A q \in Procs, n \in Names : Holds(q, n) => Holds(q, n)'
  BY <1>1, <1>2, GotoCalls DEF Holds, NameOf, Inv, Moves
<1>9. \A s \in Slugs, n \in Names : References(s, n) => n \in abandoned' \/ References(s, n)'
  BY <1>2, <1>4 DEF References, Lost
<1>10. Justified'
  BY <1>2, <1>8, <1>9 DEF Inv, Justified
<1>11. StillSo'
  BY <1>1, <1>2, <1>4, GotoCalls, BusyCall, OtherFiles DEF Inv, StillSo, Moves, Calls
<1> QED
  BY <1>5, <1>6, <1>7, <1>10, <1>11 DEF Inv

LEMMA RemovePageStep ==
  ASSUME Inv, NEW s \in Slugs, RemovePage(s)
  PROVE  Inv'
<1>1. /\ pages' = [pages EXCEPT ![s] = Absent] /\ UNCHANGED <<originals, call, overlapped>>
      /\ abandoned' = abandoned \cup Lost(s)
  BY DEF RemovePage
<1>2. pages'[s] = Absent /\ \A r \in Slugs \ {s} : pages'[r] = pages[r]
  BY <1>1 DEF Inv, TypeOK
<1>3. TypeOK'
  BY <1>1 DEF Inv, TypeOK, Lost
<1>4. OwnOriginal'
  BY <1>2, NoRecord DEF Inv, OwnOriginal
<1>5. OverlapKnown'
  BY <1>1 DEF Inv, OverlapKnown
<1>6. \A r \in Slugs, n \in Names : References(r, n) => n \in abandoned' \/ References(r, n)'
  BY <1>1, <1>2 DEF References, Lost
<1>7. \A q \in Procs, n \in Names : Holds(q, n) => Holds(q, n)'
  BY <1>1 DEF Holds, NameOf
<1>8. Justified'
  BY <1>1, <1>6, <1>7 DEF Inv, Justified
<1>9. StillSo'
  BY <1>1, <1>2, BusyCall DEF Inv, StillSo, Calls, NameOf
<1> QED
  BY <1>3, <1>4, <1>5, <1>8, <1>9 DEF Inv

LEMMA Step == Inv /\ [Next]_vars => Inv'
<1>1. SUFFICES ASSUME Inv, [Next]_vars
               PROVE  Inv'
  OBVIOUS
<1>2. ASSUME NEW p \in Procs, NEW s \in Slugs, NEW x \in Suffixes, NEW d \in Docs,
             NEW o \in BOOLEAN, Fetched(p, s, x, d, o)
      PROVE  Inv'
  BY <1>1, <1>2, FetchedStep
<1>3. ASSUME NEW p \in Procs, CheckOriginal(p) \/ CheckPage(p)
      PROVE  Inv'
  BY <1>1, <1>3, CheckStep
<1>4. ASSUME NEW p \in Procs, WriteOriginal(p)
      PROVE  Inv'
  BY <1>1, <1>4, WriteOriginalStep
<1>5. ASSUME NEW p \in Procs,
             WriteOriginalRaises(p) \/ WritePage(p) \/ Unlink(p) \/ Killed(p)
      PROVE  Inv'
  BY <1>1, <1>5, LastStep
<1>6. ASSUME NEW p \in Procs, WritePageRaises(p)
      PROVE  Inv'
  BY <1>1, <1>6, WritePageRaisesStep
<1>7. ASSUME NEW s \in Slugs, RemovePage(s)
      PROVE  Inv'
  BY <1>1, <1>7, RemovePageStep
<1>8. CASE UNCHANGED vars
  BY <1>1, <1>8 DEF vars, Inv, TypeOK, OwnOriginal, OverlapKnown, Justified, Holds,
       References, StillSo, NameOf
<1> QED
  BY <1>1, <1>2, <1>3, <1>4, <1>5, <1>6, <1>7, <1>8 DEF Next

\* Inv is inductive: what follows is drawn from it.
THEOREM Invariance == Spec => []Inv
BY InitInv, Step, PTL DEF Spec

\* Files, calls and histories keep their types.
THEOREM TypeCorrect == Spec => []TypeOK
<1>1. Inv => TypeOK
  BY DEF Inv
<1> QED
  BY <1>1, Invariance, PTL

\* No command leaves an original that nothing accounts for, however commands
\* overlap, fail or are killed: the handler in add_url and add_pdf is enough.
THEOREM NeverOrphans == Spec => []NoOrphans
<1>1. Inv => NoOrphans
  BY DEF Inv, Justified, NoOrphans, Holds
<1> QED
  BY <1>1, Invariance, PTL

\* What a process may touch: the file that its command is at.
LEMMA FilesStep ==
  ASSUME Inv, NEW p \in Procs,
         \/ \E s \in Slugs, x \in Suffixes, d \in Docs, o \in BOOLEAN :
              Fetched(p, s, x, d, o)
         \/ CheckOriginal(p) \/ WriteOriginal(p) \/ WriteOriginalRaises(p)
         \/ CheckPage(p) \/ WritePage(p) \/ WritePageRaises(p)
         \/ Unlink(p) \/ Killed(p)
  PROVE  /\ \A n \in Names : originals'[n] # originals[n] =>
              call[p].at \in {"write_original", "unlink"} /\ n = NameOf(call[p])
         /\ \A s \in Slugs : pages'[s] # pages[s] =>
              call[p].at = "write_page" /\ s = call[p].slug
<1>1. /\ originals \in [Names -> Docs \cup {Absent, Torn}]
      /\ pages \in [Slugs -> PageRecords \cup {Absent, Torn}]
  BY DEF Inv, TypeOK
<1>2. CASE \/ \E s \in Slugs, x \in Suffixes, d \in Docs, o \in BOOLEAN :
                Fetched(p, s, x, d, o)
           \/ CheckOriginal(p) \/ CheckPage(p)
  BY <1>2 DEF Fetched, CheckOriginal, CheckPage
<1>3. CASE WriteOriginal(p) \/ WriteOriginalRaises(p)
  BY <1>1, <1>3 DEF WriteOriginal, WriteOriginalRaises
<1>4. CASE WritePage(p)
  BY <1>1, <1>4 DEF WritePage
<1>5. CASE WritePageRaises(p)
  BY <1>1, <1>5 DEF WritePageRaises
<1>6. CASE Unlink(p)
  BY <1>1, <1>6 DEF Unlink
<1>7. CASE Killed(p)
  <2>1. \A n \in Names : originals'[n] # originals[n] =>
          call[p].at = "write_original" /\ n = NameOf(call[p])
    BY <1>1, <1>7 DEF Killed
  <2>2. \A s \in Slugs : pages'[s] # pages[s] =>
          call[p].at = "write_page" /\ s = call[p].slug
    BY <1>1, <1>7 DEF Killed
  <2> QED
    BY <2>1, <2>2
<1> QED
  BY <1>2, <1>3, <1>4, <1>5, <1>6, <1>7

\* What Integrity = "ok" says of the files.
LEMMA VerifiedFiles ==
  ASSUME TypeOK, NEW s \in Slugs
  PROVE  Integrity(s) = "ok" <=>
           /\ pages[s] \in PageRecords
           /\ originals[pages[s].source_artifact] = pages[s].source_sha256
<1>1. pages[s] \in PageRecords =>
        pages[s].source_sha256 \in Docs /\ pages[s].source_sha256 # Absent
  BY FilesAssumption DEF PageRecords
<1> QED
  BY <1>1 DEF Integrity

\* ... and how a step establishes it.
LEMMA VerifiedNext ==
  ASSUME NEW s \in Slugs, pages'[s] \in PageRecords,
         originals'[pages'[s].source_artifact] = pages'[s].source_sha256
  PROVE  Integrity(s)' = "ok"
<1>1. pages'[s].source_sha256 # Absent
  BY FilesAssumption DEF PageRecords
<1> QED
  BY <1>1 DEF Integrity

\* Who may touch the files of a page that verifies, its original a included.
LEMMA Spoilers ==
  ASSUME Inv, NEW s \in Slugs, Verified(s), NEW p \in Procs, call[p] # Idle,
         ~ MaySpoil(p, s)
  PROVE  /\ call[p].at \in {"write_original", "unlink"} =>
              NameOf(call[p]) # pages[s].source_artifact
         /\ call[p].at = "write_page" => call[p].slug # s
<1> DEFINE a == pages[s].source_artifact
<1>1. /\ pages[s] \in PageRecords /\ a \in Names /\ originals[a] # Absent
  BY VerifiedFiles, FilesAssumption DEF Verified, Inv, PageRecords
<1>2. NameOf(call[p]) = a => call[p].slug = s
  BY <1>1, BusyCall DEF Inv, OwnOriginal
<1>3. CASE call[p].at = "unlink"
  BY <1>2, <1>3 DEF MaySpoil
<1>4. CASE call[p].at = "write_original"
  BY <1>1, <1>2, <1>4 DEF MaySpoil, Inv, StillSo
<1>5. CASE call[p].at = "write_page"
  BY <1>1, <1>5, NoRecord DEF MaySpoil, Inv, StillSo
<1> QED
  BY <1>3, <1>4, <1>5

\* A page that verifies is spoilt only by a command with --overwrite, by one
\* that tested for its files while another was about the same slug, or by one
\* that takes back the original it has written: for a command that is alone
\* with its slug the two existence tests protect what is there, although each
\* is separate from the write that it guards.
THEOREM SpoiltBySomeOnly == Spec => StaysVerified
<1>1. ASSUME Inv, [Next]_vars, NEW s \in Slugs, Verified(s), pages'[s] # Absent,
             \A p \in Procs : MaySpoil(p, s) => call'[p] = call[p]
      PROVE  Verified(s)'
  <2> DEFINE a == pages[s].source_artifact
  <2>1. /\ pages[s] \in PageRecords /\ pages[s].whole /\ a \in Names
        /\ originals[a] = pages[s].source_sha256
    BY <1>1, VerifiedFiles, FilesAssumption DEF Verified, Inv, PageRecords
  <2>2. SUFFICES pages'[s] = pages[s] /\ originals'[a] = originals[a]
    BY <2>1, <2>2, VerifiedNext DEF Verified
  <2>3. CASE \E r \in Slugs : RemovePage(r)
    BY <1>1, <2>3 DEF RemovePage, Inv, TypeOK
  <2>4. CASE UNCHANGED vars
    BY <2>4 DEF vars
  <2>5. ASSUME NEW p \in Procs,
               \/ \E r \in Slugs, y \in Suffixes, d \in Docs, o \in BOOLEAN :
                    Fetched(p, r, y, d, o)
               \/ CheckOriginal(p) \/ WriteOriginal(p) \/ WriteOriginalRaises(p)
               \/ CheckPage(p) \/ WritePage(p) \/ WritePageRaises(p)
               \/ Unlink(p) \/ Killed(p)
        PROVE  pages'[s] = pages[s] /\ originals'[a] = originals[a]
    <3>1. /\ originals'[a] # originals[a] =>
               call[p].at \in {"write_original", "unlink"} /\ a = NameOf(call[p])
          /\ pages'[s] # pages[s] => call[p].at = "write_page" /\ s = call[p].slug
      BY <1>1, <2>1, <2>5, FilesStep
    <3>2. call[p].at \in {"write_original", "unlink", "write_page"} => call[p] # Idle
      BY DEF Idle
    <3>3. call[p].at \in {"write_original", "unlink", "write_page"} => call'[p] # call[p]
      <4>1. ASSUME NEW at \in Moves, call[p] # Idle, Goto(p, at), call[p].at # at
            PROVE  call'[p] # call[p]
        BY <1>1, <4>1, GotoCalls DEF Inv
      <4>2. ASSUME call[p] # Idle, Leave(p)
            PROVE  call'[p] # call[p]
        BY <1>1, <4>2, LeaveCalls DEF Inv
      <4> QED
        BY <2>5, <3>2, <4>1, <4>2
           DEF Fetched, CheckOriginal, WriteOriginal, WriteOriginalRaises, CheckPage,
               WritePage, WritePageRaises, Unlink, Killed, Moves, Idle
    <3> QED
      BY <1>1, <3>1, <3>2, <3>3, Spoilers
  <2> QED
    BY <1>1, <2>3, <2>4, <2>5 DEF Next
<1>2. Inv /\ [Next]_vars =>
        [\A s \in Slugs :
           Verified(s) /\ pages'[s] # Absent /\ ~ Verified(s)'
             => \E p \in Procs : MaySpoil(p, s) /\ call'[p] # call[p]]_vars
  BY <1>1
<1> QED
  BY <1>2, Invariance, PTL DEF Spec, StaysVerified

\* A page that a command completes, alone about its slug, has an original that
\* verifies, also when it replaced both.
THEOREM WritesVerified == Spec => WrittenVerified
<1>1. ASSUME Inv, [Next]_vars, NEW s \in Slugs \ overlapped, pages'[s] # pages[s],
             pages'[s] \in PageRecords, pages'[s].whole
      PROVE  Integrity(s)' = "ok"
  <2>1. ASSUME NEW p \in Procs, WritePage(p), call[p].slug = s
        PROVE  Integrity(s)' = "ok"
    <3>1. call[p] # Idle /\ call[p] \in Calls
      BY <1>1, <2>1, BusyCall DEF WritePage, Idle, Inv
    <3>2. pages'[s] = Page(call[p], TRUE) /\ UNCHANGED originals
      BY <1>1, <2>1 DEF WritePage, Inv, TypeOK
    <3>3. originals[NameOf(call[p])] = call[p].doc
      BY <1>1, <2>1, <3>1 DEF Inv, StillSo, WritePage
    <3>4. /\ pages'[s].source_artifact = NameOf(call[p])
          /\ pages'[s].source_sha256 = call[p].doc
      BY <3>1, <3>2, PageRecord
    <3>5. originals'[pages'[s].source_artifact] = pages'[s].source_sha256
      BY <3>2, <3>3, <3>4
    <3> QED
      BY <1>1, <3>5, VerifiedNext
  <2>2. ASSUME NEW p \in Procs, WritePageRaises(p)
        PROVE  FALSE
    <3>1. \E left \in {pages[call[p].slug], Torn, Page(call[p], FALSE)} :
             pages' = [pages EXCEPT ![call[p].slug] = left]
      BY <2>2 DEF WritePageRaises
    <3>2. call[p] \in Calls
      BY <1>1, <2>2, BusyCall DEF WritePageRaises, Idle, Inv
    <3> QED
      BY <1>1, <3>1, <3>2, PageRecord, NoRecord DEF Inv, TypeOK
  <2>3. ASSUME NEW p \in Procs, Killed(p)
        PROVE  FALSE
    <3>1. pages' = pages \/ \E w \in {Torn, Page(call[p], FALSE)} :
                              pages' = [pages EXCEPT ![call[p].slug] = w]
      BY <2>3 DEF Killed
    <3>2. call[p] \in Calls
      BY <1>1, <2>3, BusyCall DEF Killed, Inv
    <3> QED
      BY <1>1, <3>1, <3>2, PageRecord, NoRecord DEF Inv, TypeOK
  <2>4. ASSUME NEW r \in Slugs, RemovePage(r)
        PROVE  FALSE
    BY <1>1, <2>4, NoRecord DEF RemovePage, Inv, TypeOK
  <2>5. ASSUME NEW p \in Procs,
               \/ \E r \in Slugs, x \in Suffixes, d \in Docs, o \in BOOLEAN :
                    Fetched(p, r, x, d, o)
               \/ CheckOriginal(p) \/ WriteOriginal(p) \/ WriteOriginalRaises(p)
               \/ CheckPage(p) \/ Unlink(p)
        PROVE  FALSE
    BY <1>1, <2>5 DEF Fetched, CheckOriginal, WriteOriginal, WriteOriginalRaises,
                      CheckPage, Unlink
  <2>6. \A p \in Procs : WritePage(p) => call[p].slug = s
    BY <1>1 DEF WritePage, Inv, TypeOK
  <2> QED
    BY <1>1, <2>1, <2>2, <2>3, <2>4, <2>5, <2>6 DEF Next, vars
<1>2. Inv /\ [Next]_vars =>
        [\A s \in Slugs \ overlapped : /\ pages'[s] # pages[s]
                                       /\ pages'[s] \in PageRecords
                                       /\ pages'[s].whole
                                       => Integrity(s)' = "ok"]_vars
  BY <1>1
<1> QED
  BY <1>2, Invariance, PTL DEF Spec, WrittenVerified
=============================================================================
