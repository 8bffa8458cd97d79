----------------------------- MODULE ListingPoll -----------------------------
(***************************************************************************)
(* The Binance listing poller binance_listing_bot/BinanceListingBot.py.    *)
(*                                                                         *)
(* The constructor polls the announcement page once (or page after page    *)
(* with dump_old_listings) and takes what it finds as old.  Then           *)
(* poll_loop() starts a process per poll, with the ids it knows at that    *)
(* moment, and announces every listing that comes back through             *)
(* poll_result_queue.                                                      *)
(*                                                                         *)
(* Articles are numbered as they are published; a page shows the newest    *)
(* first.  An answer may come from a server that is MaxLag articles        *)
(* behind, and may end early: poll() catches every exception and keeps     *)
(* what it has put.                                                        *)
(***************************************************************************)
EXTENDS Integers, Sequences, FiniteSets

CONSTANTS
  MaxArticle,        \* bound: articles published in a run
  Old,               \* articles published before the bot starts
  Others,            \* articles whose title has no "will list"
  Odd,               \* articles whose title has no symbol in brackets
  MinPage, MaxPage,  \* pageSize is random between them (5 and 20)
  DumpPages,         \* pages read at the start with dump_old_listings (49)
  MaxLag,            \* articles the server that answers may be behind
  Pollers            \* bound: polls under way at a time

Articles == 1 .. MaxArticle
Listings == Articles \ Others

ASSUME ListingAssumption ==
  /\ MaxArticle \in Nat /\ Old \in 0 .. MaxArticle
  /\ Others \subseteq Articles /\ Odd \subseteq Articles
  /\ MinPage \in Nat \ {0} /\ MaxPage \in Nat /\ MinPage <= MaxPage
  /\ DumpPages \in Nat \ {0} /\ MaxLag \in Nat
  /\ IsFiniteSet(Pollers)

VARIABLES
  published,  \* articles there are
  dump,       \* config dump_old_listings
  phase,      \* "first", "drain" (the constructor), "read", "poll" (poll_loop), "raised"
  page,       \* the page the constructor asks for next
  count,      \* initial_article_cnt
  queue,      \* poll_result_queue
  known,      \* the keys of article_dict
  poll,       \* what each poll process is at
  seen,       \* history: how often process_new_article has had an article
  initial,    \* history: articles the constructor has processed
  announced,  \* history: articles announced as new
  origin,     \* history: newest article of the first page, 0 if it was not read to its end
  wentBack    \* history: a later answer was older than the first page

constructor == <<dump, page, count, origin>>
results == <<known, seen, initial, announced>>
pollVars == <<published, phase, constructor, queue, results, poll, wentBack>>

\* What poll() works on: the ids it was given, then the articles it has yet to put.
Idle == [pc |-> "idle", known |-> {}, todo |-> <<>>]
Jobs == [pc : {"asked", "puts"}, known : SUBSET Articles, todo : Seq(Listings)]

PollInit == /\ published = Old
            /\ dump \in BOOLEAN
            /\ phase = "first" /\ page = 1 /\ count = 0
            /\ queue = <<>> /\ known = {}
            /\ poll = [p \in Pollers |-> Idle]
            /\ seen = [a \in Articles |-> 0] /\ initial = {} /\ announced = {}
            /\ origin = 0 /\ wentBack = FALSE

Publish == /\ published < MaxArticle
           /\ published' = published + 1
           /\ UNCHANGED <<phase, constructor, queue, results, poll, wentBack>>
-----------------------------------------------------------------------------
(* poll *)

\* The list the server that answers goes by ends at one of these.
Tops == {t \in 0 .. published : t >= published - MaxLag}

NewOnNext(top, no, size, ids) ==            \* fault: the page starts one article late
  {a \in Listings \ ids : a > top - no * size - 1 /\ a <= top - (no - 1) * size - 1}

\* The listings of a page that are not in known_article_ids ...
NewOn(top, no, size, ids) ==
  {a \in Listings \ ids : a > top - no * size /\ a <= top - (no - 1) * size}

\* ... and the order poll() meets them in.
NewestFirst(S) ==
  {s \in [1 .. Cardinality(S) -> S] : \A i, j \in DOMAIN s : i < j => s[i] > s[j]}

Prefixes(s) == {SubSeq(s, 1, n) : n \in 0 .. Len(s)}
-----------------------------------------------------------------------------
(* The constructor *)

LastPage == ~dump \/ page = DumpPages

\* A poll that raises counts what it has put, which may be nothing.
FirstPoll ==
  /\ phase = "first"
  /\ \E top \in Tops : \E all \in NewestFirst(NewOn(top, page, MaxPage, {})) :
       \E got \in Prefixes(all) :
         /\ queue' = queue \o got
         /\ count' = count + Len(got)
         /\ origin' = IF page > 1 THEN origin ELSE IF got = all THEN top ELSE 0
  /\ page' = page + 1
  /\ phase' = IF LastPage THEN "drain" ELSE "first"
  /\ UNCHANGED <<published, dump, results, poll, wentBack>>

\* poll() returns None, which is no count: the constructor goes on as if there
\* were nothing, but cannot add it to the count of the pages before.
FirstPollRefused ==
  /\ phase = "first"
  /\ phase' = IF dump THEN "raised" ELSE "drain"
  /\ UNCHANGED <<published, constructor, queue, results, poll, wentBack>>

\* article_parser: a title without a symbol has the page scraped, which may
\* fail or give none either.
MayHaveNoSymbol(a) == a \in Odd

\* process_new_article: the id is known before the article is parsed.
Process(a) ==
  /\ known' = known \cup {a}
  /\ seen' = [seen EXCEPT ![a] = @ + 1]
  /\ IF phase = "drain" THEN initial' = initial \cup {a} /\ UNCHANGED announced
                        ELSE /\ UNCHANGED initial
                             /\ \/ announced' = announced \cup {a}
                                \/ MayHaveNoSymbol(a) /\ UNCHANGED announced

TakeOne == queue # <<>> /\ Process(Head(queue)) /\ queue' = Tail(queue)

DrainFirst == /\ phase = "drain" /\ count > 0
              /\ TakeOne
              /\ count' = count - 1
              /\ UNCHANGED <<published, phase, dump, page, origin, poll, wentBack>>

Initialized == /\ phase = "drain" /\ count = 0
               /\ phase' = "read"
               /\ UNCHANGED <<published, constructor, queue, results, poll, wentBack>>
-----------------------------------------------------------------------------
(* poll_loop *)

ReadResult == /\ phase = "read" /\ TakeOne
              /\ UNCHANGED <<published, phase, constructor, poll, wentBack>>

ReadEndAnyway == /\ phase = "read"          \* fault: one result per turn of the loop
                 /\ phase' = "poll"
                 /\ UNCHANGED <<published, constructor, queue, results, poll, wentBack>>

ReadEnd == /\ phase = "read" /\ queue = <<>>
           /\ phase' = "poll"
           /\ UNCHANGED <<published, constructor, queue, results, poll, wentBack>>

FewerKnown == {a \in known : a + MaxPage > published}    \* fault: forgets what it thinks is off the page

\* list(article_dict.keys()), never shortened.
KnownArticles == known

StartPoll(p) == /\ phase = "poll" /\ poll[p] = Idle
                /\ poll' = [poll EXCEPT ![p] =
                              [pc |-> "asked", known |-> KnownArticles, todo |-> <<>>]]
                /\ phase' = "read"
                /\ UNCHANGED <<published, constructor, queue, results, wentBack>>

\* poll_interval has not passed.
NotYet == /\ phase = "poll" /\ phase' = "read"
          /\ UNCHANGED <<published, constructor, queue, results, poll, wentBack>>

\* The answer comes, whole or up to what poll() cannot read.  todo is what the
\* process puts before it ends.
Answered(p, top, todo) ==
  /\ poll' = [poll EXCEPT ![p] = IF todo = <<>> THEN Idle
                                 ELSE [pc |-> "puts", known |-> @.known, todo |-> todo]]
  /\ wentBack' = (wentBack \/ top < origin)
  /\ UNCHANGED <<published, phase, constructor, queue, results>>

Answer(p) == /\ poll[p].pc = "asked"
             /\ \E top \in Tops, size \in MinPage .. MaxPage :
                  \E all \in NewestFirst(NewOn(top, 1, size, poll[p].known)) :
                    \E todo \in Prefixes(all) : Answered(p, top, todo)

\* The whole list, on the longest page.
AnswerInFull(p) ==
  /\ poll[p].pc = "asked"
  /\ \E all \in NewestFirst(NewOn(published, 1, MaxPage, poll[p].known)) :
       Answered(p, published, all)

Put(p) == /\ poll[p].pc = "puts"
          /\ queue' = Append(queue, Head(poll[p].todo))
          /\ poll' = [poll EXCEPT ![p] = IF Len(@.todo) = 1 THEN Idle
                                         ELSE [pc |-> "puts", known |-> @.known,
                                               todo |-> Tail(@.todo)]]
          /\ UNCHANGED <<published, phase, constructor, results, wentBack>>
-----------------------------------------------------------------------------
Constructor == FirstPoll \/ DrainFirst \/ Initialized
LoopTurn == ReadResult \/ ReadEnd \/ NotYet

\* The constructor has raised: there is no bot.
Raised == phase = "raised" /\ UNCHANGED pollVars

PollNext == \/ Publish \/ Constructor \/ FirstPollRefused \/ LoopTurn \/ Raised
            \/ \E p \in Pollers : StartPoll(p) \/ Answer(p) \/ Put(p)

PollSpec == PollInit /\ [][PollNext]_pollVars

\* The bot and its processes run, requests come to an end, poll_interval passes
\* again and again.  Of the answers only this is asked: they are not for ever
\* short, old or broken.
PollFairSpec == /\ PollSpec
                /\ WF_pollVars(Constructor) /\ WF_pollVars(LoopTurn)
                /\ SF_pollVars(\E p \in Pollers : StartPoll(p))
                /\ SF_pollVars(\E p \in Pollers : AnswerInFull(p))
                /\ \A p \in Pollers : WF_pollVars(Answer(p)) /\ WF_pollVars(Put(p))
-----------------------------------------------------------------------------
(* Properties *)

PollTypeOK ==
  /\ published \in 0 .. MaxArticle /\ dump \in BOOLEAN
  /\ phase \in {"first", "drain", "read", "poll", "raised"}
  /\ page \in Nat \ {0} /\ count \in Nat
  /\ queue \in Seq(Listings)
  /\ known \in SUBSET Listings
  /\ poll \in [Pollers -> Jobs \cup {Idle}]
  /\ seen \in [Articles -> Nat]
  /\ initial \in SUBSET Listings /\ announced \in SUBSET Listings
  /\ origin \in Nat /\ wentBack \in BOOLEAN

\* What the constructor has taken as old is never announced, however the polls
\* that follow overlap; and an article from before the first page is only
\* announced when that page was not read to its end, or a later answer was
\* older than it.
OldStaysSilent ==
  /\ initial \cap announced = {}
  /\ \A a \in announced : a > origin \/ wentBack

\* The constructor waits for as many articles as its polls have put, so
\* poll_result_queue.get() never blocks and nothing is left to poll_loop.
CountFits == phase \in {"first", "drain"} => count = Len(queue)

\* process_new_article does not look whether it knows the article.  An article of
\* the constructor may be on every page it reads, when newer ones push it down.
\* What limits the copies of a later one is that the queue is read empty before a
\* poll takes the known ids: each poll under way may bring one, and one more poll
\* may have started between that reading and the first copy.
Places(s, a) == {i \in DOMAIN s : s[i] = a}

Copies(a) == seen[a] + Cardinality(Places(queue, a))

FirstPages == IF dump THEN DumpPages ELSE 1

CopiesAreFew ==
  \A a \in Articles :
    Copies(a) <= IF phase \in {"first", "drain", "raised"} \/ a \in initial
                 THEN FirstPages ELSE Cardinality(Pollers) + 1

\* What every state of the bot keeps to: the types, the count of the constructor
\* and the bound on the copies.
PollInv == PollTypeOK /\ CountFits /\ CopiesAreFew

\* A listing is announced, unless newer articles push it off the page first,
\* its symbol is not found, it was old when the bot started, or there is no
\* bot: lost, late and broken answers are made up for.
Reported ==
  \A a \in Listings :
    published >= a ~> \/ a \in announced \cup initial
                      \/ a \in Odd /\ seen[a] > 0
                      \/ published >= a + MaxPage \/ phase = "raised"
=============================================================================
