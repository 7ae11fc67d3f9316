---------------------------- MODULE Segmentation ----------------------------
(***************************************************************************)
(* From the lines of a book to its units, words and examples:              *)
(* segmentStructure in tools/content-compiler/src/normalize/               *)
(* segmentation.ts.  Every page is given to a unit first, from what its    *)
(* banner or side tab reads (attributePages); then the lines are walked in *)
(* reading order, each appended to the word that is open; last, examples   *)
(* move to a word of their page that they name.                            *)
(*                                                                         *)
(* A line is [kind, number, names]: what the patterns make of its text, in *)
(* the order in which the walk tries them, the number that it reads and    *)
(* the headword that it is (head) or mentions.  Split headwords, sections  *)
(* of phrases and their glosses have been joined and wording repaired      *)
(* before; the lines of an example are joined here.  A page has one        *)
(* column: a line is below another of the same height or less.             *)
(***************************************************************************)
EXTENDS Integers, Sequences, FiniteSets, SequencesExt

CONSTANTS Books     \* [lines, printed]: pages of lines, and the <<chapter, unit>> of each

VARIABLES
  pages,     \* the book
  printed,   \* history: the chapter and unit that each page is of
  units,     \* attributions: what attributePages says of every page
  page, line,\* the next line to read; 0 is the top of a page
  walk,      \* WalkState
  outcome    \* "reading", "emitted" or "failed"

segVars == <<pages, printed, units, page, line, walk, outcome>>

Kinds == {"opener", "back", "banner", "tab", "note", "note_all", "ref", "numbered",
          "head", "exam", "exam_list", "sense", "gloss", "phrase",
          "rest",      \* text of no pattern, close below the line before
          "joined"}    \* a line that has become part of an example

ASSUME SegmentationAssumption ==
  \A book \in Books :
    /\ DOMAIN book.lines = DOMAIN book.printed
    /\ \A p \in DOMAIN book.lines : book.lines[p] # <<>> /\ \A l \in DOMAIN book.lines[p] :
         book.lines[p][l].kind \in Kinds \ {"joined"} /\ book.lines[p][l].number \in Nat

-------------------------------------------------------------------------------
(* Before the walk, the sentences of examples are found and joined.        *)

Places(book) == UNION {{p} \X DOMAIN book[p] : p \in DOMAIN book}
KindAt(book, at) == book[at[1]][at[2]].kind
NamesAt(book, at) == book[at[1]][at[2]].names

(* The line before, if need be the last of the page before.                *)
LineBefore(book, at) ==
  IF at[2] > 1 THEN <<at[1], at[2] - 1>> ELSE <<at[1] - 1, Len(book[at[1] - 1])>>

(* markImplicitExamples: English below a numbered source is an example     *)
(* whose marker was not recognised.                                        *)
Implicit(book, at) ==
  /\ KindAt(book, at) \in {"phrase", "rest"} /\ at # <<1, 1>>
  /\ KindAt(book, LineBefore(book, at)) \in {"numbered", "ref"}

MarkImplicitExamples(book) ==
  [p \in DOMAIN book |-> [l \in DOMAIN book[p] |->
     IF Implicit(book, <<p, l>>) THEN [book[p][l] EXCEPT !.kind = "exam"] ELSE book[p][l]]]

(* From an example on, the lines that go on with it join it one by one,    *)
(* from the top of the next page too: the line at which each line begins.  *)
GoesOn(book, at) == KindAt(book, at) = "rest" /\ at # <<1, 1>>

BeginningOf(book) ==
  LET begin[at \in Places(book)] ==
        IF KindAt(book, at) \in {"exam", "exam_list"} THEN {at}
        ELSE IF GoesOn(book, at) THEN begin[LineBefore(book, at)] ELSE {}
  IN  begin

(* mergeBlocks: the merged text names what its first naming line does.     *)
MergedNames(book, at, begin) ==
  LET naming == {b \in DOMAIN begin : begin[b] = {at} /\ NamesAt(book, b) # "none"}
  IN  IF naming = {} THEN "none"
      ELSE NamesAt(book, CHOOSE b \in naming : \A c \in naming :
                           b[1] < c[1] \/ (b[1] = c[1] /\ b[2] <= c[2]))

AssembleMultilineExamples(book) ==
  LET begin == BeginningOf(book) IN
  [p \in DOMAIN book |-> [l \in DOMAIN book[p] |->
     IF begin[<<p, l>>] = {} THEN book[p][l]
     ELSE IF begin[<<p, l>>] = {<<p, l>>}
          THEN [book[p][l] EXCEPT !.names = MergedNames(book, <<p, l>>, begin)]
     ELSE [book[p][l] EXCEPT !.kind = "joined"]]]

-------------------------------------------------------------------------------
(* Chapters.                                                               *)

LinesOf(book, p, kind) == {l \in DOMAIN book[p] : book[p][l].kind = kind}
NumberAt(book, at) == book[at[1]][at[2]].number
PagesOf(book) == [p \in DOMAIN book |-> p]

(* chapterTimeline: one opener on a page opens the next chapter, any other *)
(* number stops the stage; from the back matter on there is no chapter.    *)
ChapterPage(book, now, p) ==
  LET back == now.back \/ LinesOf(book, p, "back") # {}
      openers == LinesOf(book, p, "opener")
      opens == ~back /\ Cardinality(openers) = 1
      opener == <<p, CHOOSE l \in openers : TRUE>>
      chapter == IF opens THEN NumberAt(book, opener) ELSE now.chapter
  IN  [chapter |-> chapter, back |-> back,
       chapters |-> Append(now.chapters, IF back THEN 0 ELSE chapter),
       openers |-> IF opens THEN now.openers \cup {opener} ELSE now.openers,
       broken |-> now.broken \/ (opens /\ chapter # now.chapter + 1)]

ChapterTimeline(book) ==
  FoldLeft(LAMBDA now, p : ChapterPage(book, now, p),
           [chapter |-> 0, back |-> FALSE, chapters |-> <<>>, openers |-> {}, broken |-> FALSE],
           PagesOf(book))

-------------------------------------------------------------------------------
(* Signals: the first banner of a page, else its last tab.                 *)

Silent(p) == [kind |-> "none", number |-> 0, at |-> <<p, 1>>]
Heard(book, kind, at) == [kind |-> kind, number |-> NumberAt(book, at), at |-> at]

PageSignal(book, p) ==
  LET banners == LinesOf(book, p, "banner")
      tabs == LinesOf(book, p, "tab")
  IN  IF banners # {} THEN Heard(book, "banner", <<p, CHOOSE l \in banners : \A m \in banners : l <= m>>)
      ELSE IF tabs # {} THEN Heard(book, "tab", <<p, CHOOSE l \in tabs : \A m \in tabs : m <= l>>)
      ELSE Silent(p)

IsSilent(signals, p) == signals[p].kind = "none"
Signaled(signals) == {p \in DOMAIN signals : ~IsSilent(signals, p)}
Rewritten(signals, p, number) == [signals EXCEPT ![p].kind = "tab", ![p].number = number]

(* Runs of signaled pages of one number; silent pages do not part them.    *)
SignalRuns(signals) ==
  FoldLeft(LAMBDA runs, p :
             IF runs # <<>> /\ Last(runs).value = signals[p].number
             THEN [runs EXCEPT ![Len(runs)].end = p]
             ELSE Append(runs, [start |-> p, end |-> p, value |-> signals[p].number]),
           <<>>, SelectSeq([p \in DOMAIN signals |-> p], LAMBDA p : ~IsSilent(signals, p)))

Inner(runs) == 2 .. Len(runs) - 1
IsSingle(run) == run.start = run.end

(* A single page between two runs of one number is a misread of it.        *)
Collapse(signals) ==
  LET runs == SignalRuns(signals)
      misread == {k \in Inner(runs) : /\ IsSingle(runs[k])
                                      /\ runs[k - 1].value = runs[k + 1].value}
  IN  FoldLeft(LAMBDA now, k : IF k \in misread THEN Rewritten(now, runs[k].start, runs[k - 1].value)
                               ELSE now,
               signals, [k \in DOMAIN runs |-> k])

(* tabCandidates: the number, its digits backwards, and upside down.       *)
Turned(digit) == CASE digit = 6 -> 9 [] digit = 9 -> 6 [] OTHER -> digit
TabReadings(n) ==
  {n, IF n < 10 THEN n ELSE 10 * (n % 10) + n \div 10,
   IF n < 10 THEN Turned(n) ELSE 10 * Turned(n % 10) + Turned(n \div 10)} \ {0}

(* A single tab joins the neighbour that it may be a reading of, the       *)
(* earlier first; neighbours are taken as rewritten so far.                *)
Overlap(m, n) == TabReadings(m) \cap TabReadings(n) # {}

MergeRun(signals, runs, k) ==
  LET here == signals[runs[k].start]
      before == signals[runs[k - 1].start]
      after == signals[runs[k + 1].end]
  IN  IF ~IsSingle(runs[k]) \/ {here.kind, before.kind, after.kind} # {"tab"} THEN signals
      ELSE IF Overlap(here.number, before.number)
           THEN Rewritten(signals, runs[k].start, before.number)
      ELSE IF Overlap(here.number, after.number)
           THEN Rewritten(signals, runs[k].start, after.number)
      ELSE signals

Merge(signals) ==
  LET runs == SignalRuns(signals) IN
  FoldLeft(LAMBDA now, k : IF k \in Inner(runs) THEN MergeRun(now, runs, k) ELSE now,
           signals, [k \in DOMAIN runs |-> k])

(* A chapter without any signal is one unit, numbered 1.                   *)
ChapterFallback(signals, timeline) ==
  [p \in DOMAIN signals |->
     LET opener == {o \in timeline.openers : o[1] = p}
         chapter == {q \in DOMAIN signals : timeline.chapters[q] = timeline.chapters[p]}
     IN  IF opener # {} /\ \A q \in chapter : IsSilent(signals, q)
         THEN [kind |-> "banner", number |-> 1, at |-> CHOOSE o \in opener : TRUE]
         ELSE signals[p]]

Signals(book, timeline) ==
  ChapterFallback(
    Merge(Collapse([p \in DOMAIN book |-> IF timeline.chapters[p] = 0 THEN Silent(p)
                                          ELSE PageSignal(book, p)])),
    timeline)

-------------------------------------------------------------------------------
(* attributePages: a silent page belongs to the nearest signal, the        *)
(* earlier at equal distance; a page outside the chapters to none.         *)

Nearest(signals, p) ==
  LET dist(q) == IF q < p THEN p - q ELSE q - p
      near == {q \in Signaled(signals) : \A r \in Signaled(signals) : dist(q) <= dist(r)}
  IN  CHOOSE q \in near : \A r \in near : q <= r

Nowhere(p) == [number |-> 0, chapter |-> 0, kind |-> "tab", at |-> <<p, 1>>]

AttributePages(book) ==
  LET timeline == ChapterTimeline(book)
      signals == Signals(book, timeline)
      of(p) == IF timeline.chapters[p] = 0 \/ Signaled(signals) = {} THEN Nowhere(p)
               ELSE LET q == IF IsSilent(signals, p) THEN Nearest(signals, p) ELSE p IN
                    [number |-> signals[q].number, chapter |-> timeline.chapters[q],
                     kind |-> signals[q].kind, at |-> signals[q].at]
  IN  [of |-> [p \in DOMAIN book |-> of(p)],
       has_chapters |-> timeline.openers # {},
       broken |-> timeline.broken]

-------------------------------------------------------------------------------
(* The walk.                                                               *)

NoUnit == <<0, 0>>            \* "u0"

Start(book) ==
  /\ pages = AssembleMultilineExamples(MarkImplicitExamples(book.lines))
  /\ printed = book.printed
  /\ units = AttributePages(pages)
  /\ page = 1 /\ line = 0
  /\ walk = [unit |-> NoUnit, opened |-> <<>>, words |-> <<>>, attached |-> <<>>,
             word |-> 0, pending |-> 0, tail |-> "none", deferred |-> FALSE, broken |-> FALSE]
  /\ outcome = IF units.broken THEN "failed" ELSE "reading"

SegInit == \E book \in Books : Start(book)

Opened(w) == {w.opened[i] : i \in DOMAIN w.opened}

(* Fault: the open word lives on in the next unit.                         *)
KeepWord(w) == w

CloseWord(w) == [w EXCEPT !.word = 0, !.pending = 0, !.tail = "none"]

(* startUnit: a unit opens once, and within a chapter numbers only grow;   *)
(* anything else stops the stage.                                          *)
StartUnit(w, unit, reset) ==
  IF unit \in Opened(w) THEN [w EXCEPT !.broken = w.unit # unit]
  ELSE LET closed == IF reset THEN CloseWord(w) ELSE w IN
       IF w.unit[1] = unit[1] /\ unit[2] < w.unit[2] /\ w.unit # NoUnit
       THEN [closed EXCEPT !.broken = TRUE]
       ELSE [closed EXCEPT !.unit = unit, !.opened = Append(@, unit)]

(* Fault: tabs are taken as they read.                                     *)
AsItReads(w, a) == a.number

(* A tab that may be the open unit's number is; the first tab of a chapter *)
(* is the least that it may be; any other is what it reads.                *)
Resolved(w, a) ==
  IF a.kind # "tab" THEN a.number
  ELSE IF w.unit[1] = a.chapter /\ w.unit # NoUnit /\ w.unit[2] \in TabReadings(a.number)
       THEN w.unit[2]
  ELSE IF w.unit[1] # a.chapter
       THEN CHOOSE n \in TabReadings(a.number) : \A m \in TabReadings(a.number) : n <= m
  ELSE a.number

(* The top of a page opens the unit of the page; under a banner the open   *)
(* word stays until the lines below the banner.                            *)
OpenPage ==
  /\ outcome = "reading" /\ page <= Len(pages) /\ line = 0
  /\ LET a == units.of[page]
         unit == <<a.chapter, Resolved(walk, a)>>
     IN  \/ /\ a.chapter = 0 /\ units.has_chapters
            /\ page' = page + 1
            /\ UNCHANGED <<line, walk>>
         \/ /\ a.chapter > 0 \/ ~units.has_chapters
            /\ walk' = IF a.number = 0 \/ unit = walk.unit THEN [walk EXCEPT !.deferred = FALSE]
                       ELSE [StartUnit(walk, unit, a.kind # "banner") EXCEPT
                               !.deferred = a.kind = "banner" /\ walk.unit # NoUnit]
            /\ line' = 1
            /\ UNCHANGED page
  /\ outcome' = IF walk'.broken THEN "failed" ELSE outcome
  /\ UNCHANGED <<pages, printed, units>>

(* "block !== anchor && block.bbox[1] >= anchor.bbox[3]"                   *)
Deferred(w) ==
  LET anchor == units.of[page].at IN
  IF w.deferred /\ <<page, line>> # anchor /\ line > anchor[2]
  THEN [w EXCEPT !.word = 0, !.pending = 0, !.deferred = FALSE]
  ELSE w

Attach(w, kind, owner, ref) ==
  [w EXCEPT !.attached = Append(@, [kind |-> kind, word |-> owner, page |-> page, line |-> line,
                                    names |-> pages[page][line].names, ref |-> ref])]

(* An inner banner re-points the unit and leaves the word.                 *)
ReadBanner(w, l) ==
  IF units.of[page].chapter = 0 \/ <<units.of[page].chapter, l.number>> = w.unit THEN w
  ELSE StartUnit(w, <<units.of[page].chapter, l.number>>, FALSE)

(* startWord                                                               *)
ReadHead(w, l) ==
  [w EXCEPT !.words = Append(@, [unit |-> w.unit, page |-> page, name |-> l.names]),
            !.word = Len(w.words) + 1, !.pending = l.number, !.tail = "none"]

(* addExample: the latest word of the unit, of this page or the one        *)
(* before, that the sentence names, or else the open word.                 *)
Named(w, names) ==
  {i \in DOMAIN w.words : /\ w.words[i].unit = w.words[w.word].unit
                          /\ w.words[i].page \in {page - 1, page}
                          /\ w.words[i].name = names}

ReadExample(w, l) ==
  LET named == Named(w, l.names)
      owner == IF named = {} THEN w.word ELSE CHOOSE i \in named : \A j \in named : j <= i
  IN  IF w.word = 0 THEN w
      ELSE [Attach(w, "exam", owner, w.pending) EXCEPT !.pending = 0]

(* addPhrase: a phrase that does not have the open headword in it is left. *)
ReadPhrase(w, l) ==
  IF w.word = 0 \/ w.words[w.word].name # l.names THEN w ELSE Attach(w, "phrase", w.word, 0)

ReadSense(w) == IF w.word = 0 THEN w ELSE Attach(w, "sense", w.word, 0)

(* The branches of the loop over the lines, in their order.                *)
Resumes(l) == l.kind \in {"exam", "exam_list", "numbered", "ref", "sense"}

ReadBlock(w, l) ==
  CASE l.kind = "banner" -> ReadBanner(w, l)
    [] l.kind = "tab" -> w
    [] l.kind = "note" -> [w EXCEPT !.tail = "some"]
    [] l.kind = "note_all" -> [w EXCEPT !.tail = "all"]
    [] l.kind = "head" -> ReadHead(w, l)
    [] l.kind \notin {"banner", "tab", "note", "note_all", "head"} ->
         IF w.tail = "all" \/ (w.tail = "some" /\ ~Resumes(l)) THEN w
         ELSE LET r == [w EXCEPT !.tail = "none"] IN
              CASE l.kind = "ref" -> IF r.word = 0 THEN r ELSE [r EXCEPT !.pending = l.number]
                [] l.kind = "numbered" -> IF r.word = 0 THEN r
                                          ELSE ReadSense([r EXCEPT !.pending = l.number])
                [] l.kind = "exam" -> ReadExample(r, l)
                [] l.kind \in {"exam_list", "phrase", "rest"} -> ReadPhrase(r, l)
                [] l.kind \in {"sense", "gloss"} -> ReadSense(r)
                [] OTHER -> r                             \* openers and prose

ReadLine ==
  /\ outcome = "reading" /\ page <= Len(pages) /\ line > 0
  /\ walk' = IF pages[page][line].kind = "joined" THEN walk
              ELSE ReadBlock(Deferred(walk), pages[page][line])
  /\ IF line = Len(pages[page]) THEN page' = page + 1 /\ line' = 0
     ELSE line' = line + 1 /\ UNCHANGED page
  /\ outcome' = IF walk'.broken THEN "failed" ELSE outcome
  /\ UNCHANGED <<pages, printed, units>>

(* reassignExamplesByHeadword: the nearest word of the unit that the page  *)
(* of the example prints and the sentence names.                           *)
Candidates(e) ==
  {i \in DOMAIN walk.words : /\ walk.words[i].unit = walk.words[e.word].unit
                             /\ walk.words[i].page = e.page
                             /\ walk.words[i].name = e.names}

Reassigned(e) ==
  LET dist(i) == IF i < e.word THEN e.word - i ELSE i - e.word
      near == {i \in Candidates(e) : \A j \in Candidates(e) : dist(i) <= dist(j)}
  IN  IF e.kind # "exam" \/ near = {} THEN e
      ELSE [e EXCEPT !.word = CHOOSE i \in near : \A j \in near : i <= j]

(* The stage fails on words outside every unit (DANGLING_UNIT_REFERENCE).  *)
Emit ==
  /\ outcome = "reading" /\ page > Len(pages)
  /\ walk' = [walk EXCEPT !.attached = [i \in DOMAIN @ |-> Reassigned(@[i])]]
  /\ outcome' = IF \E i \in DOMAIN walk.words : walk.words[i].unit = NoUnit THEN "failed"
                ELSE "emitted"
  /\ UNCHANGED <<pages, printed, units, page, line>>

SegNext == OpenPage \/ ReadLine \/ Emit

SegSpec == SegInit /\ [][SegNext]_segVars

-------------------------------------------------------------------------------
(* What the pages read before any repair, and after the chapter fallback.  *)
Timeline == ChapterTimeline(pages)
Read == [p \in DOMAIN pages |-> IF Timeline.chapters[p] = 0 THEN Silent(p) ELSE PageSignal(pages, p)]
Given == ChapterFallback(Read, Timeline)

(* The known ways to misread a printed tab, which has two digits.          *)
MayReadAs(n) == IF n < 10 THEN {n, 10 * n, 10 * Turned(n)} ELSE TabReadings(n)

(* The recogniser keeps to them, and what it loses is nearer to its own    *)
(* unit than to another (segmentation.ts:2489-2495 and 2524-2530).         *)
Calibrated ==
  /\ Signaled(Given) # {}
  /\ \A p \in DOMAIN pages :
       CASE Read[p].kind = "banner" -> Read[p].number = printed[p][2]
         [] Read[p].kind = "tab" -> Read[p].number \in MayReadAs(printed[p][2])
         [] OTHER -> printed[Nearest(Given, p)] = printed[p]

(* A unit signaled once between two units of one number, which a restart   *)
(* of the numbers brings about.                                            *)
Interleaved ==
  \E p, q, r \in Signaled(Given) :
    /\ p < q /\ q < r
    /\ printed[p][2] = printed[r][2] /\ printed[q] \notin {printed[p], printed[r]}
    /\ \A s \in Signaled(Given) : printed[s] = printed[q] => s = q

(* Numbers that the readings of the tabs tell apart: they go up one by one *)
(* within a chapter, which begins with the least that its misreads may be, *)
(* and the tabs of a unit are not misread in two ways.                     *)
Distinguishable ==
  /\ \A p \in DOMAIN pages :
       IF p > 1 /\ printed[p - 1][1] = printed[p][1]
       THEN printed[p][2] - printed[p - 1][2] \in {0, 1}
       ELSE \A m \in MayReadAs(printed[p][2]) : \A n \in TabReadings(m) : printed[p][2] <= n
  /\ \A p, q \in DOMAIN pages :
       printed[p] = printed[q] /\ Read[p].kind = "tab" /\ Read[q].kind = "tab" =>
         Read[p].number = Read[q].number \/ printed[p][2] \in {Read[p].number, Read[q].number}

(* Misread tabs, lost signals and banners may stop the stage or leave a    *)
(* unit with another number, but never split a unit of the book or make    *)
(* two of them one (segmentation.ts:1559-1645, 2499-2680).                 *)
UnitsAsPrinted ==
  outcome = "emitted" /\ Calibrated /\ Distinguishable /\ ~Interleaved =>
    \A i, j \in DOMAIN walk.words :
      walk.words[i].unit = walk.words[j].unit
        <=> printed[walk.words[i].page] = printed[walk.words[j].page]

(* A line over the banner at which a unit opens is of the unit before.     *)
OpensUnit(p) == p > 1 /\ printed[p - 1] # printed[p]
OverBanner(e) ==
  OpensUnit(e.page) /\ \E l \in LinesOf(pages, e.page, "banner") : e.line < l
LinesInTheirUnit ==
  \A i \in DOMAIN walk.attached : LET e == walk.attached[i] IN
    printed[walk.words[e.word].page] = printed[IF OverBanner(e) THEN e.page - 1 ELSE e.page]

(* A banner is on its own page and has a line below it.                    *)
BannersHaveLines ==
  \A p \in DOMAIN pages :
    LET q == Nearest(Given, p) IN
    Given[q].kind = "banner" => q <= p /\ (q = p => Given[p].at[2] < Len(pages[p]))

(* An example, phrase or gloss is of a word of the unit that prints it,    *)
(* also when the recogniser missed the unit's first headwords and after    *)
(* the examples have moved (segmentation.ts:1603-1611, 1796-1890, 2779-    *)
(* 2850).                                                                  *)
LinesStayInTheirUnit ==
  outcome = "emitted" /\ Calibrated /\ Distinguishable /\ ~Interleaved /\ BannersHaveLines =>
    LinesInTheirUnit

=============================================================================
