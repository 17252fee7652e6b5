----------------------------- MODULE ReadersProofs -----------------------------
(* Four properties of Readers, from the theorems about its components: an        *)
(* instance of a component's proofs has the same operators as the instance in   *)
(* Readers, which one lemma for each says; what is proved of it in one step is  *)
(* then proved of every step of Readers, where the subject moves or none.  What  *)
(* BrokerSchema assumes of its constants goes with each fact of an instance.    *)
EXTENDS Readers, TLAPS

\* The relay with workers in tmux editors, a pane that is a terminal, the events
\* of a run with a broker, and one session with more runs than a page.
TmuxP == INSTANCE ReaderPartsProofs WITH
    Reports <- {"handoff", "probe"}, Roles <- {"implementer", "reviewer"},
    Recipients <- Announced, Rpc <- FALSE, PostFaults <- 2,
    Handlers <- {1, 2}, Looks <- {"active", "ready", "waiting"},
    Animated <- {"active"}, Interactive <- TRUE, Turns <- 3, MaxWrites <- 3,
    PaneFaults <- 2, MaxResizes <- 1,
    FeedRoles <- {"implementer", "reviewer"}, Brokered <- TRUE, Retained <- 2,
    Segment <- 1, Limit <- 2, MaxEvents <- 5,
    Sessions <- {1}, MaxRuns <- 4, ScanLimit <- 4, SessionScan <- 4,
    PageLimit <- 2

\* The relay with workers that have an RPC inbox, a pane that prints lines, the
\* events of a run with journals, and more runs than a scan looks at.
RpcP == INSTANCE ReaderPartsProofs WITH
    Reports <- {"handoff", "probe"}, Roles <- {"implementer", "reviewer"},
    Recipients <- Announced, Rpc <- TRUE, PostFaults <- 2,
    Handlers <- {1, 2}, Looks <- {"active", "ready", "waiting"},
    Animated <- {"active"}, Interactive <- FALSE, Turns <- 3, MaxWrites <- 3,
    PaneFaults <- 2, MaxResizes <- 1,
    FeedRoles <- {"implementer"}, Brokered <- FALSE, Retained <- 1,
    Segment <- 2, Limit <- 1, MaxEvents <- 6,
    Sessions <- {1, 2}, MaxRuns <- 2, ScanLimit <- 1, SessionScan <- 1,
    PageLimit <- 1

\* Two specialists and slow readers, and a reviewer whose context is retained.
RoutedP == INSTANCE RunStateProofs WITH
    Specialists <- {"probe", "django"}, Early <- "probe", Retained <- {},
    Files <- 2, MaxReports <- 4, MaxEdits <- 0, MaxGuidance <- 0, MaxStalls <- 1,
    MaxBreaks <- 1
HintedP == INSTANCE RunStateProofs WITH
    Specialists <- {"probe"}, Early <- "probe", Retained <- {"reviewer"},
    Files <- 2, MaxReports <- 2, MaxEdits <- 1, MaxGuidance <- 1, MaxStalls <- 0,
    MaxBreaks <- 1

-----------------------------------------------------------------------------
(* The components and their proofs.                                             *)

LEMMA TypingIsProved ==
  /\ Typing!RelayAssumption <=> TmuxP!Post!RelayAssumption
  /\ Typing!Init <=> TmuxP!Post!Init
  /\ Typing!Next <=> TmuxP!Post!Next
  /\ Typing!vars = TmuxP!Post!vars
  /\ Typing!TypeOK <=> TmuxP!Post!TypeOK
  /\ Typing!SeenIsDelivered <=> TmuxP!Post!SeenIsDelivered
  /\ Typing!RepeatsAreFaults <=> TmuxP!Post!RepeatsAreFaults
<1>1. Typing!RelayAssumption <=> TmuxP!Post!RelayAssumption
  BY DEF Typing!RelayAssumption, TmuxP!Post!RelayAssumption
<1>2. Typing!Init <=> TmuxP!Post!Init
  BY DEF Typing!Init, TmuxP!Post!Init, Typing!Pairs, TmuxP!Post!Pairs, Typing!Idle,
     TmuxP!Post!Idle
<1>3. Typing!Next <=> TmuxP!Post!Next
  BY DEF Typing!Next, TmuxP!Post!Next, Typing!Relays, TmuxP!Post!Relays, Typing!Die,
     TmuxP!Post!Die, Typing!WriteReport, TmuxP!Post!WriteReport, Typing!RewriteReport,
     TmuxP!Post!RewriteReport, Typing!WriteMarker, TmuxP!Post!WriteMarker, Typing!Wake,
     TmuxP!Post!Wake, Typing!SendRpc, TmuxP!Post!SendRpc, Typing!TypeText,
     TmuxP!Post!TypeText, Typing!Enter, TmuxP!Post!Enter, Typing!MarkRecipient,
     TmuxP!Post!MarkRecipient, Typing!CloseMarker, TmuxP!Post!CloseMarker, Typing!Sleep,
     TmuxP!Post!Sleep, Typing!Respawn, TmuxP!Post!Respawn, Typing!PassOver,
     TmuxP!Post!PassOver, Typing!Deliver, TmuxP!Post!Deliver, Typing!NextRecipient,
     TmuxP!Post!NextRecipient, Typing!Idle, TmuxP!Post!Idle, Typing!files, TmuxP!Post!files,
     Typing!tokens, TmuxP!Post!tokens, Typing!workers, TmuxP!Post!workers, Typing!Notice,
     TmuxP!Post!Notice, Typing!Submitted, TmuxP!Post!Submitted, Typing!Goes,
     TmuxP!Post!Goes, Typing!Pairs, TmuxP!Post!Pairs, Typing!Remembered,
     TmuxP!Post!Remembered, Typing!AllSeen, TmuxP!Post!AllSeen, Typing!Valid,
     TmuxP!Post!Valid, Typing!Enabled, TmuxP!Post!Enabled,
     Typing!LoseWorker, TmuxP!Post!LoseWorker,
     Typing!Acknowledged, TmuxP!Post!Acknowledged,
     Typing!RefusedAgain, TmuxP!Post!RefusedAgain,
     Typing!Unanswered, TmuxP!Post!Unanswered,
     Typing!RefusedForGood, TmuxP!Post!RefusedForGood
<1>4. Typing!vars = TmuxP!Post!vars
  BY DEF Typing!vars, TmuxP!Post!vars
<1>5. Typing!TypeOK <=> TmuxP!Post!TypeOK
  BY DEF Typing!TypeOK, TmuxP!Post!TypeOK, Typing!Pairs, TmuxP!Post!Pairs, Typing!Steps,
     TmuxP!Post!Steps
<1>6. Typing!SeenIsDelivered <=> TmuxP!Post!SeenIsDelivered
  BY DEF Typing!SeenIsDelivered, TmuxP!Post!SeenIsDelivered, Typing!Enabled, TmuxP!Post!Enabled
<1>7. Typing!RepeatsAreFaults <=> TmuxP!Post!RepeatsAreFaults
  BY DEF Typing!RepeatsAreFaults, TmuxP!Post!RepeatsAreFaults, Typing!Pairs, TmuxP!Post!Pairs
<1> QED
  BY <1>1, <1>2, <1>3, <1>4, <1>5, <1>6, <1>7

\* What does not name the transport is the same of both.
LEMMA PostingIsProved ==
  /\ Posting!RelayAssumption <=> RpcP!Post!RelayAssumption
  /\ Posting!Next <=> RpcP!Post!Next
  /\ Posting!vars = RpcP!Post!vars
  /\ Posting!RpcNoticedOnce <=> RpcP!Post!RpcNoticedOnce
<1>1. Posting!RelayAssumption <=> RpcP!Post!RelayAssumption
  BY DEF Posting!RelayAssumption, RpcP!Post!RelayAssumption
<1>2. Posting!Next <=> RpcP!Post!Next
  BY DEF Posting!Next, RpcP!Post!Next, Posting!Relays, RpcP!Post!Relays, Posting!Die,
     RpcP!Post!Die, Posting!WriteReport, RpcP!Post!WriteReport, Posting!RewriteReport,
     RpcP!Post!RewriteReport, Posting!WriteMarker, RpcP!Post!WriteMarker, Posting!Wake,
     RpcP!Post!Wake, Posting!SendRpc, RpcP!Post!SendRpc, Posting!TypeText,
     RpcP!Post!TypeText, Posting!Enter, RpcP!Post!Enter, Posting!MarkRecipient,
     RpcP!Post!MarkRecipient, Posting!CloseMarker, RpcP!Post!CloseMarker, Posting!Sleep,
     RpcP!Post!Sleep, Posting!Respawn, RpcP!Post!Respawn, Posting!PassOver,
     RpcP!Post!PassOver, Posting!Deliver, RpcP!Post!Deliver, Posting!NextRecipient,
     RpcP!Post!NextRecipient, Posting!Idle, RpcP!Post!Idle, Posting!files, RpcP!Post!files,
     Posting!tokens, RpcP!Post!tokens, Posting!workers, RpcP!Post!workers, Posting!Notice,
     RpcP!Post!Notice, Posting!Submitted, RpcP!Post!Submitted, Posting!Goes, RpcP!Post!Goes,
     Posting!Pairs, RpcP!Post!Pairs, Posting!Remembered, RpcP!Post!Remembered,
     Posting!AllSeen, RpcP!Post!AllSeen, Posting!Valid, RpcP!Post!Valid, Posting!Enabled,
     RpcP!Post!Enabled,
     Posting!LoseWorker, RpcP!Post!LoseWorker,
     Posting!Acknowledged, RpcP!Post!Acknowledged,
     Posting!RefusedAgain, RpcP!Post!RefusedAgain,
     Posting!Unanswered, RpcP!Post!Unanswered,
     Posting!RefusedForGood, RpcP!Post!RefusedForGood
<1>3. Posting!vars = RpcP!Post!vars
  BY DEF Posting!vars, RpcP!Post!vars
<1>4. Posting!RpcNoticedOnce <=> RpcP!Post!RpcNoticedOnce
  BY DEF Posting!RpcNoticedOnce, RpcP!Post!RpcNoticedOnce, Posting!Pairs, RpcP!Post!Pairs
<1> QED
  BY <1>1, <1>2, <1>3, <1>4

LEMMA TypesAreShared ==
  /\ Typing!Init <=> RpcP!Post!Init
  /\ Typing!TypeOK <=> RpcP!Post!TypeOK
  /\ Typing!SeenIsDelivered <=> RpcP!Post!SeenIsDelivered
<1>1. Typing!Init <=> RpcP!Post!Init
  BY DEF Typing!Init, RpcP!Post!Init, Typing!Pairs, RpcP!Post!Pairs, Typing!Idle, RpcP!Post!Idle
<1>2. Typing!TypeOK <=> RpcP!Post!TypeOK
  BY DEF Typing!TypeOK, RpcP!Post!TypeOK, Typing!Pairs, RpcP!Post!Pairs, Typing!Steps,
     RpcP!Post!Steps
<1>3. Typing!SeenIsDelivered <=> RpcP!Post!SeenIsDelivered
  BY DEF Typing!SeenIsDelivered, RpcP!Post!SeenIsDelivered, Typing!Enabled, RpcP!Post!Enabled
<1> QED
  BY <1>1, <1>2, <1>3

LEMMA TerminalIsProved ==
  /\ Terminal!DashboardAssumption <=> TmuxP!Pane!DashboardAssumption
  /\ Terminal!Init <=> TmuxP!Pane!Init
  /\ Terminal!Next <=> TmuxP!Pane!Next
  /\ Terminal!vars = TmuxP!Pane!vars
  /\ Terminal!TypeOK <=> TmuxP!Pane!TypeOK
  /\ Terminal!PaneIsCurrent <=> TmuxP!Pane!PaneIsCurrent
  /\ Terminal!LastIsShown <=> TmuxP!Pane!LastIsShown
<1>1. Terminal!DashboardAssumption <=> TmuxP!Pane!DashboardAssumption
  BY DEF Terminal!DashboardAssumption, TmuxP!Pane!DashboardAssumption, Terminal!None,
     TmuxP!Pane!None
<1>2. Terminal!Init <=> TmuxP!Pane!Init
  BY DEF Terminal!Init, TmuxP!Pane!Init, Terminal!None, TmuxP!Pane!None, Terminal!Nothing,
     TmuxP!Pane!Nothing, Terminal!Plain, TmuxP!Pane!Plain
<1>3. Terminal!Next <=> TmuxP!Pane!Next
  BY DEF Terminal!Next, TmuxP!Pane!Next, Terminal!First, TmuxP!Pane!First, Terminal!Resize,
     TmuxP!Pane!Resize, Terminal!Resized, TmuxP!Pane!Resized, Terminal!Tick,
     TmuxP!Pane!Tick, Terminal!Stop, TmuxP!Pane!Stop, Terminal!End, TmuxP!Pane!End,
     Terminal!Commit, TmuxP!Pane!Commit, Terminal!Finish, TmuxP!Pane!Finish,
     Terminal!Answered, TmuxP!Pane!Answered, Terminal!OperatorGone, TmuxP!Pane!OperatorGone,
     Terminal!None, TmuxP!Pane!None, Terminal!Refresh, TmuxP!Pane!Refresh, Terminal!Spent,
     TmuxP!Pane!Spent, Terminal!Sizes, TmuxP!Pane!Sizes, Terminal!Refreshed,
     TmuxP!Pane!Refreshed, Terminal!Show, TmuxP!Pane!Show, Terminal!Nothing,
     TmuxP!Pane!Nothing, Terminal!Unwritten, TmuxP!Pane!Unwritten, Terminal!Tear,
     TmuxP!Pane!Tear, Terminal!ShowNotice, TmuxP!Pane!ShowNotice, Terminal!Painted,
     TmuxP!Pane!Painted, Terminal!Summarized, TmuxP!Pane!Summarized, Terminal!Plain,
     TmuxP!Pane!Plain, Terminal!Laid, TmuxP!Pane!Laid, Terminal!Noticed, TmuxP!Pane!Noticed,
     Terminal!Unavailable, TmuxP!Pane!Unavailable
<1>4. Terminal!vars = TmuxP!Pane!vars
  BY DEF Terminal!vars, TmuxP!Pane!vars
<1>5. Terminal!TypeOK <=> TmuxP!Pane!TypeOK
  BY DEF Terminal!TypeOK, TmuxP!Pane!TypeOK, Terminal!None, TmuxP!Pane!None, Terminal!Image,
     TmuxP!Pane!Image, Terminal!Sizes, TmuxP!Pane!Sizes, Terminal!Kinds, TmuxP!Pane!Kinds
<1>6. Terminal!PaneIsCurrent <=> TmuxP!Pane!PaneIsCurrent
  BY DEF Terminal!PaneIsCurrent, TmuxP!Pane!PaneIsCurrent, Terminal!Quiet, TmuxP!Pane!Quiet,
     Terminal!Shows, TmuxP!Pane!Shows
<1>7. Terminal!LastIsShown <=> TmuxP!Pane!LastIsShown
  BY DEF Terminal!LastIsShown, TmuxP!Pane!LastIsShown, Terminal!Nothing, TmuxP!Pane!Nothing,
     Terminal!Plain, TmuxP!Pane!Plain, Terminal!None, TmuxP!Pane!None
<1> QED
  BY <1>1, <1>2, <1>3, <1>4, <1>5, <1>6, <1>7

LEMMA PlainIsProved ==
  /\ Plain!DashboardAssumption <=> RpcP!Pane!DashboardAssumption
  /\ Plain!Init <=> RpcP!Pane!Init
  /\ Plain!Next <=> RpcP!Pane!Next
  /\ Plain!vars = RpcP!Pane!vars
  /\ Plain!PaneIsCurrent <=> RpcP!Pane!PaneIsCurrent
  /\ Plain!FramesAreRare <=> RpcP!Pane!FramesAreRare
<1>1. Plain!DashboardAssumption <=> RpcP!Pane!DashboardAssumption
  BY DEF Plain!DashboardAssumption, RpcP!Pane!DashboardAssumption, Plain!None, RpcP!Pane!None
<1>2. Plain!Init <=> RpcP!Pane!Init
  BY DEF Plain!Init, RpcP!Pane!Init, Plain!None, RpcP!Pane!None, Plain!Nothing,
     RpcP!Pane!Nothing, Plain!Plain, RpcP!Pane!Plain
<1>3. Plain!Next <=> RpcP!Pane!Next
  BY DEF Plain!Next, RpcP!Pane!Next, Plain!First, RpcP!Pane!First, Plain!Resize,
     RpcP!Pane!Resize, Plain!Resized, RpcP!Pane!Resized, Plain!Tick, RpcP!Pane!Tick,
     Plain!Stop, RpcP!Pane!Stop, Plain!End, RpcP!Pane!End, Plain!Commit, RpcP!Pane!Commit,
     Plain!Finish, RpcP!Pane!Finish, Plain!Answered, RpcP!Pane!Answered, Plain!OperatorGone,
     RpcP!Pane!OperatorGone, Plain!None, RpcP!Pane!None, Plain!Refresh, RpcP!Pane!Refresh,
     Plain!Spent, RpcP!Pane!Spent, Plain!Sizes, RpcP!Pane!Sizes, Plain!Refreshed,
     RpcP!Pane!Refreshed, Plain!Show, RpcP!Pane!Show, Plain!Nothing, RpcP!Pane!Nothing,
     Plain!Unwritten, RpcP!Pane!Unwritten, Plain!Tear, RpcP!Pane!Tear, Plain!ShowNotice,
     RpcP!Pane!ShowNotice, Plain!Painted, RpcP!Pane!Painted, Plain!Summarized,
     RpcP!Pane!Summarized, Plain!Plain, RpcP!Pane!Plain, Plain!Laid, RpcP!Pane!Laid,
     Plain!Noticed, RpcP!Pane!Noticed, Plain!Unavailable, RpcP!Pane!Unavailable
<1>4. Plain!vars = RpcP!Pane!vars
  BY DEF Plain!vars, RpcP!Pane!vars
<1>5. Plain!PaneIsCurrent <=> RpcP!Pane!PaneIsCurrent
  BY DEF Plain!PaneIsCurrent, RpcP!Pane!PaneIsCurrent, Plain!Quiet, RpcP!Pane!Quiet,
     Plain!Shows, RpcP!Pane!Shows
<1>6. Plain!FramesAreRare <=> RpcP!Pane!FramesAreRare
  BY DEF Plain!FramesAreRare, RpcP!Pane!FramesAreRare
<1> QED
  BY <1>1, <1>2, <1>3, <1>4, <1>5, <1>6

LEMMA StreamIsProved ==
  /\ Stream!FeedAssumption <=> TmuxP!Feed!FeedAssumption
  /\ Stream!Init <=> TmuxP!Feed!Init
  /\ Stream!Next <=> TmuxP!Feed!Next
  /\ Stream!vars = TmuxP!Feed!vars
  /\ Stream!TypeOK <=> TmuxP!Feed!TypeOK
  /\ Stream!OnceInOrder <=> TmuxP!Feed!OnceInOrder
  /\ Stream!NoSilentLoss <=> TmuxP!Feed!NoSilentLoss
  /\ Stream!CompleteUnlessTruncated <=> TmuxP!Feed!CompleteUnlessTruncated
  /\ Stream!GapIsReal <=> TmuxP!Feed!GapIsReal
<1>1. Stream!FeedAssumption <=> TmuxP!Feed!FeedAssumption
  BY DEF Stream!FeedAssumption, TmuxP!Feed!FeedAssumption
<1>2. Stream!Init <=> TmuxP!Feed!Init
  BY DEF Stream!Init, TmuxP!Feed!Init, Stream!Streams, TmuxP!Feed!Streams, Stream!Idle,
     TmuxP!Feed!Idle, Stream!NoAnswer, TmuxP!Feed!NoAnswer
<1>3. Stream!Next <=> TmuxP!Feed!Next
  BY DEF Stream!Next, TmuxP!Feed!Next, Stream!Record, TmuxP!Feed!Record, Stream!AppendEvent,
     TmuxP!Feed!AppendEvent, Stream!SaveRegistry, TmuxP!Feed!SaveRegistry, Stream!Ask,
     TmuxP!Feed!Ask, Stream!Serve, TmuxP!Feed!Serve, Stream!Busy, TmuxP!Feed!Busy, Stream!Latest,
     TmuxP!Feed!Latest, Stream!Pruned, TmuxP!Feed!Pruned, Stream!client, TmuxP!Feed!client,
     Stream!Rotate, TmuxP!Feed!Rotate, Stream!Idle, TmuxP!Feed!Idle, Stream!Stream,
     TmuxP!Feed!Stream, Stream!store, TmuxP!Feed!store, Stream!ReadRows, TmuxP!Feed!ReadRows,
     Stream!ReadBounds, TmuxP!Feed!ReadBounds, Stream!ReadJournal, TmuxP!Feed!ReadJournal,
     Stream!ReadRegistry, TmuxP!Feed!ReadRegistry, Stream!After, TmuxP!Feed!After,
     Stream!FirstPage, TmuxP!Feed!FirstPage, Stream!Reply, TmuxP!Feed!Reply, Stream!Truncated,
     TmuxP!Feed!Truncated, Stream!Earliest, TmuxP!Feed!Earliest, Stream!Gap, TmuxP!Feed!Gap,
     Stream!Synchronized, TmuxP!Feed!Synchronized, Stream!Kept, TmuxP!Feed!Kept, Stream!Ordered,
     TmuxP!Feed!Ordered, Stream!NextCursor, TmuxP!Feed!NextCursor, Stream!Cardinality,
     TmuxP!Feed!Cardinality
<1>4. Stream!vars = TmuxP!Feed!vars
  BY DEF Stream!vars, TmuxP!Feed!vars, Stream!store, TmuxP!Feed!store, Stream!client,
     TmuxP!Feed!client
<1>5. Stream!TypeOK <=> TmuxP!Feed!TypeOK
  BY DEF Stream!TypeOK, TmuxP!Feed!TypeOK, Stream!Streams, TmuxP!Feed!Streams, Stream!Latest,
     TmuxP!Feed!Latest, Stream!Cardinality, TmuxP!Feed!Cardinality, Stream!Kept, TmuxP!Feed!Kept,
     Stream!Events, TmuxP!Feed!Events
<1>6. Stream!OnceInOrder <=> TmuxP!Feed!OnceInOrder
  BY DEF Stream!OnceInOrder, TmuxP!Feed!OnceInOrder
<1>7. Stream!NoSilentLoss <=> TmuxP!Feed!NoSilentLoss
  BY DEF Stream!NoSilentLoss, TmuxP!Feed!NoSilentLoss, Stream!UpTo, TmuxP!Feed!UpTo,
     Stream!Ordered, TmuxP!Feed!Ordered, Stream!Latest, TmuxP!Feed!Latest, Stream!Stream,
     TmuxP!Feed!Stream, Stream!Cardinality, TmuxP!Feed!Cardinality
<1>8. Stream!CompleteUnlessTruncated <=> TmuxP!Feed!CompleteUnlessTruncated
  BY DEF Stream!CompleteUnlessTruncated, TmuxP!Feed!CompleteUnlessTruncated, Stream!NoAnswer,
     TmuxP!Feed!NoAnswer, Stream!Stream, TmuxP!Feed!Stream
<1>9. Stream!GapIsReal <=> TmuxP!Feed!GapIsReal
  BY DEF Stream!GapIsReal, TmuxP!Feed!GapIsReal, Stream!NoAnswer, TmuxP!Feed!NoAnswer,
     Stream!Stream, TmuxP!Feed!Stream
<1> QED
  BY <1>1, <1>2, <1>3, <1>4, <1>5, <1>6, <1>7, <1>8, <1>9

LEMMA JournalIsProved ==
  /\ Journal!FeedAssumption <=> RpcP!Feed!FeedAssumption
  /\ Journal!Init <=> RpcP!Feed!Init
  /\ Journal!Next <=> RpcP!Feed!Next
  /\ Journal!vars = RpcP!Feed!vars
  /\ Journal!TypeOK <=> RpcP!Feed!TypeOK
  /\ Journal!OnceInOrder <=> RpcP!Feed!OnceInOrder
  /\ Journal!NoSilentLoss <=> RpcP!Feed!NoSilentLoss
  /\ Journal!GapIsReal <=> RpcP!Feed!GapIsReal
  /\ Journal!SynchronizedRecord <=> RpcP!Feed!SynchronizedRecord
<1>1. Journal!FeedAssumption <=> RpcP!Feed!FeedAssumption
  BY DEF Journal!FeedAssumption, RpcP!Feed!FeedAssumption
<1>2. Journal!Init <=> RpcP!Feed!Init
  BY DEF Journal!Init, RpcP!Feed!Init, Journal!Streams, RpcP!Feed!Streams, Journal!Idle,
     RpcP!Feed!Idle, Journal!NoAnswer, RpcP!Feed!NoAnswer
<1>3. Journal!Next <=> RpcP!Feed!Next
  BY DEF Journal!Next, RpcP!Feed!Next, Journal!Record, RpcP!Feed!Record, Journal!AppendEvent,
     RpcP!Feed!AppendEvent, Journal!SaveRegistry, RpcP!Feed!SaveRegistry, Journal!Ask,
     RpcP!Feed!Ask, Journal!Serve, RpcP!Feed!Serve, Journal!Busy, RpcP!Feed!Busy, Journal!Latest,
     RpcP!Feed!Latest, Journal!Pruned, RpcP!Feed!Pruned, Journal!client, RpcP!Feed!client,
     Journal!Rotate, RpcP!Feed!Rotate, Journal!Idle, RpcP!Feed!Idle, Journal!Stream,
     RpcP!Feed!Stream, Journal!store, RpcP!Feed!store, Journal!ReadRows, RpcP!Feed!ReadRows,
     Journal!ReadBounds, RpcP!Feed!ReadBounds, Journal!ReadJournal, RpcP!Feed!ReadJournal,
     Journal!ReadRegistry, RpcP!Feed!ReadRegistry, Journal!After, RpcP!Feed!After,
     Journal!FirstPage, RpcP!Feed!FirstPage, Journal!Reply, RpcP!Feed!Reply, Journal!Truncated,
     RpcP!Feed!Truncated, Journal!Earliest, RpcP!Feed!Earliest, Journal!Gap, RpcP!Feed!Gap,
     Journal!Synchronized, RpcP!Feed!Synchronized, Journal!Kept, RpcP!Feed!Kept, Journal!Ordered,
     RpcP!Feed!Ordered, Journal!NextCursor, RpcP!Feed!NextCursor, Journal!Cardinality,
     RpcP!Feed!Cardinality
<1>4. Journal!vars = RpcP!Feed!vars
  BY DEF Journal!vars, RpcP!Feed!vars, Journal!store, RpcP!Feed!store, Journal!client,
     RpcP!Feed!client
<1>5. Journal!TypeOK <=> RpcP!Feed!TypeOK
  BY DEF Journal!TypeOK, RpcP!Feed!TypeOK, Journal!Streams, RpcP!Feed!Streams, Journal!Latest,
     RpcP!Feed!Latest, Journal!Cardinality, RpcP!Feed!Cardinality, Journal!Kept, RpcP!Feed!Kept,
     Journal!Events, RpcP!Feed!Events
<1>6. Journal!OnceInOrder <=> RpcP!Feed!OnceInOrder
  BY DEF Journal!OnceInOrder, RpcP!Feed!OnceInOrder
<1>7. Journal!NoSilentLoss <=> RpcP!Feed!NoSilentLoss
  BY DEF Journal!NoSilentLoss, RpcP!Feed!NoSilentLoss, Journal!UpTo, RpcP!Feed!UpTo,
     Journal!Ordered, RpcP!Feed!Ordered, Journal!Latest, RpcP!Feed!Latest, Journal!Stream,
     RpcP!Feed!Stream, Journal!Cardinality, RpcP!Feed!Cardinality
<1>8. Journal!GapIsReal <=> RpcP!Feed!GapIsReal
  BY DEF Journal!GapIsReal, RpcP!Feed!GapIsReal, Journal!NoAnswer, RpcP!Feed!NoAnswer,
     Journal!Stream, RpcP!Feed!Stream
<1>9. Journal!SynchronizedRecord <=> RpcP!Feed!SynchronizedRecord
  BY DEF Journal!SynchronizedRecord, RpcP!Feed!SynchronizedRecord, Journal!NoAnswer,
     RpcP!Feed!NoAnswer
<1> QED
  BY <1>1, <1>2, <1>3, <1>4, <1>5, <1>6, <1>7, <1>8, <1>9

LEMMA PagedIsProved ==
  /\ Paged!RetainedRunsAssumption <=> TmuxP!Dir!RetainedRunsAssumption
  /\ Paged!Init <=> TmuxP!Dir!Init
  /\ Paged!Next <=> TmuxP!Dir!Next
  /\ Paged!vars = TmuxP!Dir!vars
  /\ Paged!TypeOK <=> TmuxP!Dir!TypeOK
  /\ Paged!NewestIsListed <=> TmuxP!Dir!NewestIsListed
  /\ Paged!ResolvedIsNewest <=> TmuxP!Dir!ResolvedIsNewest
<1>1. Paged!RetainedRunsAssumption <=> TmuxP!Dir!RetainedRunsAssumption
  BY DEF Paged!RetainedRunsAssumption, TmuxP!Dir!RetainedRunsAssumption, Paged!IsFiniteSet,
     TmuxP!Dir!IsFiniteSet
<1>2. Paged!Init <=> TmuxP!Dir!Init
  BY DEF Paged!Init, TmuxP!Dir!Init, Paged!Runs, TmuxP!Dir!Runs, Paged!None, TmuxP!Dir!None
<1>3. Paged!Next <=> TmuxP!Dir!Next
  BY DEF Paged!Next, TmuxP!Dir!Next, Paged!Request, TmuxP!Dir!Request, Paged!Disk,
     TmuxP!Dir!Disk, Paged!AskSessions, TmuxP!Dir!AskSessions, Paged!PickSession,
     TmuxP!Dir!PickSession, Paged!LastSession, TmuxP!Dir!LastSession, Paged!LoadValid,
     TmuxP!Dir!LoadValid, Paged!LoadInvalid, TmuxP!Dir!LoadInvalid, Paged!NothingLeft,
     TmuxP!Dir!NothingLeft, Paged!Reload, TmuxP!Dir!Reload, Paged!AskRuns, TmuxP!Dir!AskRuns,
     Paged!AskResolve, TmuxP!Dir!AskResolve, Paged!ScanRoot, TmuxP!Dir!ScanRoot, Paged!Runs,
     TmuxP!Dir!Runs, Paged!Scan, TmuxP!Dir!Scan, Paged!Begin, TmuxP!Dir!Begin, Paged!Publish,
     TmuxP!Dir!Publish, Paged!Damage, TmuxP!Dir!Damage, Paged!Remove, TmuxP!Dir!Remove,
     Paged!Asks, TmuxP!Dir!Asks, Paged!Cardinality, TmuxP!Dir!Cardinality, Paged!Oldest,
     TmuxP!Dir!Oldest, Paged!Goes, TmuxP!Dir!Goes, Paged!Valid, TmuxP!Dir!Valid, Paged!Candidate,
     TmuxP!Dir!Candidate, Paged!HasRoom, TmuxP!Dir!HasRoom, Paged!GoesOn, TmuxP!Dir!GoesOn,
     Paged!None, TmuxP!Dir!None, Paged!Known, TmuxP!Dir!Known, Paged!Bounded, TmuxP!Dir!Bounded,
     Paged!Present, TmuxP!Dir!Present, Paged!CutScan, TmuxP!Dir!CutScan, Paged!Becomes,
     TmuxP!Dir!Becomes, Paged!Newest, TmuxP!Dir!Newest
<1>4. Paged!vars = TmuxP!Dir!vars
  BY DEF Paged!vars, TmuxP!Dir!vars
<1>5. Paged!TypeOK <=> TmuxP!Dir!TypeOK
  BY DEF Paged!TypeOK, TmuxP!Dir!TypeOK, Paged!Runs, TmuxP!Dir!Runs, Paged!Cardinality,
     TmuxP!Dir!Cardinality
<1>6. Paged!NewestIsListed <=> TmuxP!Dir!NewestIsListed
  BY DEF Paged!NewestIsListed, TmuxP!Dir!NewestIsListed, Paged!Answered, TmuxP!Dir!Answered,
     Paged!Steady, TmuxP!Dir!Steady, Paged!Runs, TmuxP!Dir!Runs
<1>7. Paged!ResolvedIsNewest <=> TmuxP!Dir!ResolvedIsNewest
  BY DEF Paged!ResolvedIsNewest, TmuxP!Dir!ResolvedIsNewest, Paged!Answered, TmuxP!Dir!Answered,
     Paged!Steady, TmuxP!Dir!Steady, Paged!Runs, TmuxP!Dir!Runs
<1> QED
  BY <1>1, <1>2, <1>3, <1>4, <1>5, <1>6, <1>7

LEMMA LimitedIsProved ==
  /\ Limited!RetainedRunsAssumption <=> RpcP!Dir!RetainedRunsAssumption
  /\ Limited!Init <=> RpcP!Dir!Init
  /\ Limited!Next <=> RpcP!Dir!Next
  /\ Limited!vars = RpcP!Dir!vars
  /\ Limited!HonestPage <=> RpcP!Dir!HonestPage
<1>1. Limited!RetainedRunsAssumption <=> RpcP!Dir!RetainedRunsAssumption
  BY DEF Limited!RetainedRunsAssumption, RpcP!Dir!RetainedRunsAssumption, Limited!IsFiniteSet,
     RpcP!Dir!IsFiniteSet
<1>2. Limited!Init <=> RpcP!Dir!Init
  BY DEF Limited!Init, RpcP!Dir!Init, Limited!Runs, RpcP!Dir!Runs, Limited!None, RpcP!Dir!None
<1>3. Limited!Next <=> RpcP!Dir!Next
  BY DEF Limited!Next, RpcP!Dir!Next, Limited!Request, RpcP!Dir!Request, Limited!Disk,
     RpcP!Dir!Disk, Limited!AskSessions, RpcP!Dir!AskSessions, Limited!PickSession,
     RpcP!Dir!PickSession, Limited!LastSession, RpcP!Dir!LastSession, Limited!LoadValid,
     RpcP!Dir!LoadValid, Limited!LoadInvalid, RpcP!Dir!LoadInvalid, Limited!NothingLeft,
     RpcP!Dir!NothingLeft, Limited!Reload, RpcP!Dir!Reload, Limited!AskRuns, RpcP!Dir!AskRuns,
     Limited!AskResolve, RpcP!Dir!AskResolve, Limited!ScanRoot, RpcP!Dir!ScanRoot, Limited!Runs,
     RpcP!Dir!Runs, Limited!Scan, RpcP!Dir!Scan, Limited!Begin, RpcP!Dir!Begin, Limited!Publish,
     RpcP!Dir!Publish, Limited!Damage, RpcP!Dir!Damage, Limited!Remove, RpcP!Dir!Remove,
     Limited!Asks, RpcP!Dir!Asks, Limited!Cardinality, RpcP!Dir!Cardinality, Limited!Oldest,
     RpcP!Dir!Oldest, Limited!Goes, RpcP!Dir!Goes, Limited!Valid, RpcP!Dir!Valid,
     Limited!Candidate, RpcP!Dir!Candidate, Limited!HasRoom, RpcP!Dir!HasRoom, Limited!GoesOn,
     RpcP!Dir!GoesOn, Limited!None, RpcP!Dir!None, Limited!Known, RpcP!Dir!Known,
     Limited!Bounded, RpcP!Dir!Bounded, Limited!Present, RpcP!Dir!Present, Limited!CutScan,
     RpcP!Dir!CutScan, Limited!Becomes, RpcP!Dir!Becomes, Limited!Newest, RpcP!Dir!Newest
<1>4. Limited!vars = RpcP!Dir!vars
  BY DEF Limited!vars, RpcP!Dir!vars
<1>5. Limited!HonestPage <=> RpcP!Dir!HonestPage
  BY DEF Limited!HonestPage, RpcP!Dir!HonestPage, Limited!Answered, RpcP!Dir!Answered,
     Limited!Steady, RpcP!Dir!Steady, Limited!Runs, RpcP!Dir!Runs
<1> QED
  BY <1>1, <1>2, <1>3, <1>4, <1>5

LEMMA RoutedIsProved ==
  /\ Routed!RunStateAssumption <=> RoutedP!RunStateAssumption
  /\ Routed!Init <=> RoutedP!Init
  /\ Routed!Next <=> RoutedP!Next
  /\ Routed!vars = RoutedP!vars
  /\ Routed!TypeOK <=> RoutedP!TypeOK
  /\ Routed!NothingIsDropped <=> RoutedP!NothingIsDropped
<1>1. Routed!RunStateAssumption <=> RoutedP!RunStateAssumption
  BY DEF Routed!RunStateAssumption, RoutedP!RunStateAssumption, Routed!IsFiniteSet,
     RoutedP!IsFiniteSet, Routed!Roles, RoutedP!Roles
<1>2. Routed!Init <=> RoutedP!Init
  BY DEF Routed!Init, RoutedP!Init, Routed!Roles, RoutedP!Roles, Routed!Coroutines,
     RoutedP!Coroutines, Routed!Nothing, RoutedP!Nothing, Routed!NoStamp, RoutedP!NoStamp,
     Routed!Unread, RoutedP!Unread
<1>3. Routed!Next <=> RoutedP!Next
  BY DEF Routed!Next, RoutedP!Next, Routed!Edit, RoutedP!Edit, Routed!Coroutines,
     RoutedP!Coroutines, Routed!Look, RoutedP!Look, Routed!Read, RoutedP!Read,
     Routed!Unreadable, RoutedP!Unreadable, Routed!Deliver, RoutedP!Deliver, Routed!Flush,
     RoutedP!Flush, Routed!SendAssignment, RoutedP!SendAssignment, Routed!Gate,
     RoutedP!Gate, Routed!Roles, RoutedP!Roles, Routed!Drained, RoutedP!Drained,
     Routed!Report, RoutedP!Report, Routed!Remember, RoutedP!Remember, Routed!Route,
     RoutedP!Route, Routed!Repair, RoutedP!Repair, Routed!Break, RoutedP!Break,
     Routed!Reconnect, RoutedP!Reconnect, Routed!Handover, RoutedP!Handover, Routed!Sends,
     RoutedP!Sends, Routed!Replay, RoutedP!Replay, Routed!Guide, RoutedP!Guide,
     Routed!Counts, RoutedP!Counts, Routed!reports, RoutedP!reports, Routed!told,
     RoutedP!told, Routed!Observes, RoutedP!Observes, Routed!Unread, RoutedP!Unread,
     Routed!At, RoutedP!At, Routed!Looked, RoutedP!Looked, Routed!hints, RoutedP!hints,
     Routed!Rest, RoutedP!Rest, Routed!Telling, RoutedP!Telling, Routed!GoesOn,
     RoutedP!GoesOn, Routed!Defers, RoutedP!Defers, Routed!Send, RoutedP!Send,
     Routed!RunStateFrame, RoutedP!RunStateFrame, Routed!Observed, RoutedP!Observed,
     Routed!Deferred, RoutedP!Deferred, Routed!Commit, RoutedP!Commit,
     Routed!Materialized, RoutedP!Materialized, Routed!AssignmentFrame,
     RoutedP!AssignmentFrame, Routed!Fails, RoutedP!Fails, Routed!Has, RoutedP!Has,
     Routed!Assign, RoutedP!Assign, Routed!Written, RoutedP!Written, Routed!Do,
     RoutedP!Do, Routed!GivesWay, RoutedP!GivesWay, Routed!Stamp, RoutedP!Stamp,
     Routed!Evidence, RoutedP!Evidence, Routed!Implementation, RoutedP!Implementation,
     Routed!Approval, RoutedP!Approval, Routed!Rejection, RoutedP!Rejection,
     Routed!OtherFrame, RoutedP!OtherFrame, Routed!Nothing, RoutedP!Nothing,
     Routed!NextGeneration, RoutedP!NextGeneration, Routed!Renders, RoutedP!Renders,
     Routed!Comparable, RoutedP!Comparable, Routed!Waits, RoutedP!Waits, Routed!Capsule,
     RoutedP!Capsule, Routed!NoStamp, RoutedP!NoStamp, Routed!Plain, RoutedP!Plain,
     Routed!SetToSeq, RoutedP!SetToSeq, Routed!Current, RoutedP!Current, Routed!Unchanged,
     RoutedP!Unchanged, Routed!IsInjective, RoutedP!IsInjective, Routed!Cardinality,
     RoutedP!Cardinality
<1>4. Routed!vars = RoutedP!vars
  BY DEF Routed!vars, RoutedP!vars, Routed!reports, RoutedP!reports, Routed!told,
     RoutedP!told, Routed!hints, RoutedP!hints
<1>5. Routed!TypeOK <=> RoutedP!TypeOK
  BY DEF Routed!TypeOK, RoutedP!TypeOK, Routed!Roles, RoutedP!Roles, Routed!Reports,
     RoutedP!Reports, Routed!Coroutines, RoutedP!Coroutines
<1>6. Routed!NothingIsDropped <=> RoutedP!NothingIsDropped
  BY DEF Routed!NothingIsDropped, RoutedP!NothingIsDropped, Routed!Newest, RoutedP!Newest
<1> QED
  BY <1>1, <1>2, <1>3, <1>4, <1>5, <1>6

LEMMA HintedIsProved ==
  /\ Hinted!RunStateAssumption <=> HintedP!RunStateAssumption
  /\ Hinted!Init <=> HintedP!Init
  /\ Hinted!Next <=> HintedP!Next
  /\ Hinted!vars = HintedP!vars
  /\ Hinted!TypeOK <=> HintedP!TypeOK
  /\ Hinted!NothingIsDropped <=> HintedP!NothingIsDropped
  /\ Hinted!HintsAreTrue <=> HintedP!HintsAreTrue
<1>1. Hinted!RunStateAssumption <=> HintedP!RunStateAssumption
  BY DEF Hinted!RunStateAssumption, HintedP!RunStateAssumption, Hinted!IsFiniteSet,
     HintedP!IsFiniteSet, Hinted!Roles, HintedP!Roles
<1>2. Hinted!Init <=> HintedP!Init
  BY DEF Hinted!Init, HintedP!Init, Hinted!Roles, HintedP!Roles, Hinted!Coroutines,
     HintedP!Coroutines, Hinted!Nothing, HintedP!Nothing, Hinted!NoStamp, HintedP!NoStamp,
     Hinted!Unread, HintedP!Unread
<1>3. Hinted!Next <=> HintedP!Next
  BY DEF Hinted!Next, HintedP!Next, Hinted!Edit, HintedP!Edit, Hinted!Coroutines,
     HintedP!Coroutines, Hinted!Look, HintedP!Look, Hinted!Read, HintedP!Read,
     Hinted!Unreadable, HintedP!Unreadable, Hinted!Deliver, HintedP!Deliver, Hinted!Flush,
     HintedP!Flush, Hinted!SendAssignment, HintedP!SendAssignment, Hinted!Gate,
     HintedP!Gate, Hinted!Roles, HintedP!Roles, Hinted!Drained, HintedP!Drained,
     Hinted!Report, HintedP!Report, Hinted!Remember, HintedP!Remember, Hinted!Route,
     HintedP!Route, Hinted!Repair, HintedP!Repair, Hinted!Break, HintedP!Break,
     Hinted!Reconnect, HintedP!Reconnect, Hinted!Handover, HintedP!Handover, Hinted!Sends,
     HintedP!Sends, Hinted!Replay, HintedP!Replay, Hinted!Guide, HintedP!Guide,
     Hinted!Counts, HintedP!Counts, Hinted!reports, HintedP!reports, Hinted!told,
     HintedP!told, Hinted!Observes, HintedP!Observes, Hinted!Unread, HintedP!Unread,
     Hinted!At, HintedP!At, Hinted!Looked, HintedP!Looked, Hinted!hints, HintedP!hints,
     Hinted!Rest, HintedP!Rest, Hinted!Telling, HintedP!Telling, Hinted!GoesOn,
     HintedP!GoesOn, Hinted!Defers, HintedP!Defers, Hinted!Send, HintedP!Send,
     Hinted!RunStateFrame, HintedP!RunStateFrame, Hinted!Observed, HintedP!Observed,
     Hinted!Deferred, HintedP!Deferred, Hinted!Commit, HintedP!Commit,
     Hinted!Materialized, HintedP!Materialized, Hinted!AssignmentFrame,
     HintedP!AssignmentFrame, Hinted!Fails, HintedP!Fails, Hinted!Has, HintedP!Has,
     Hinted!Assign, HintedP!Assign, Hinted!Written, HintedP!Written, Hinted!Do,
     HintedP!Do, Hinted!GivesWay, HintedP!GivesWay, Hinted!Stamp, HintedP!Stamp,
     Hinted!Evidence, HintedP!Evidence, Hinted!Implementation, HintedP!Implementation,
     Hinted!Approval, HintedP!Approval, Hinted!Rejection, HintedP!Rejection,
     Hinted!OtherFrame, HintedP!OtherFrame, Hinted!Nothing, HintedP!Nothing,
     Hinted!NextGeneration, HintedP!NextGeneration, Hinted!Renders, HintedP!Renders,
     Hinted!Comparable, HintedP!Comparable, Hinted!Waits, HintedP!Waits, Hinted!Capsule,
     HintedP!Capsule, Hinted!NoStamp, HintedP!NoStamp, Hinted!Plain, HintedP!Plain,
     Hinted!SetToSeq, HintedP!SetToSeq, Hinted!Current, HintedP!Current, Hinted!Unchanged,
     HintedP!Unchanged, Hinted!IsInjective, HintedP!IsInjective, Hinted!Cardinality,
     HintedP!Cardinality
<1>4. Hinted!vars = HintedP!vars
  BY DEF Hinted!vars, HintedP!vars, Hinted!reports, HintedP!reports, Hinted!told,
     HintedP!told, Hinted!hints, HintedP!hints
<1>5. Hinted!TypeOK <=> HintedP!TypeOK
  BY DEF Hinted!TypeOK, HintedP!TypeOK, Hinted!Roles, HintedP!Roles, Hinted!Reports,
     HintedP!Reports, Hinted!Coroutines, HintedP!Coroutines
<1>6. Hinted!NothingIsDropped <=> HintedP!NothingIsDropped
  BY DEF Hinted!NothingIsDropped, HintedP!NothingIsDropped, Hinted!Newest, HintedP!Newest
<1>7. Hinted!HintsAreTrue <=> HintedP!HintsAreTrue
  BY DEF Hinted!HintsAreTrue, HintedP!HintsAreTrue, Hinted!Roles, HintedP!Roles
<1> QED
  BY <1>1, <1>2, <1>3, <1>4, <1>5, <1>6, <1>7

LEMMA BoundsAreProved ==
  /\ TmuxP!Post!RelayAssumption /\ RpcP!Post!RelayAssumption
  /\ TmuxP!Pane!DashboardAssumption /\ RpcP!Pane!DashboardAssumption
  /\ TmuxP!Feed!FeedAssumption /\ RpcP!Feed!FeedAssumption
  /\ TmuxP!Dir!RetainedRunsAssumption /\ RpcP!Dir!RetainedRunsAssumption
  /\ RoutedP!RunStateAssumption /\ HintedP!RunStateAssumption
  BY BoundsAreAllowed, TypingIsProved, PostingIsProved, TerminalIsProved, PlainIsProved,
     StreamIsProved, JournalIsProved, PagedIsProved, LimitedIsProved, RoutedIsProved,
     HintedIsProved

-----------------------------------------------------------------------------
(* Their invariants, of Readers.                                                *)

ReadersInv ==
  /\ IF subject = "posting" THEN RpcP!PostInv /\ RpcP!PostFiles
                            ELSE TmuxP!PostInv /\ TmuxP!PostFiles
  /\ subject = "terminal" => TmuxP!PaneInv
  /\ subject = "plain" => RpcP!PaneInv
  /\ subject = "stream" => TmuxP!FeedInv
  /\ subject = "journal" => RpcP!FeedInv
  /\ subject = "paged" => TmuxP!RunsInv
  /\ subject = "limited" => RpcP!RunsInv
  /\ subject = "routed" => RoutedP!StateInv
  /\ subject = "hinted" => HintedP!StateInv

LEMMA InitReaders == EachInit => ReadersInv
<1> SUFFICES ASSUME EachInit PROVE ReadersInv
  OBVIOUS
<1>1. /\ Typing!Init
      /\ subject = "terminal" => Terminal!Init
      /\ subject = "plain" => Plain!Init
      /\ subject = "stream" => Stream!Init
      /\ subject = "journal" => Journal!Init
      /\ subject = "paged" => Paged!Init
      /\ subject = "limited" => Limited!Init
      /\ subject = "routed" => Routed!Init
      /\ subject = "hinted" => Hinted!Init
  BY DEF EachInit
<1>2. TmuxP!PostInv /\ TmuxP!PostFiles
  BY <1>1, BoundsAreProved, VersionsAreNumbers, StopsAreCounted,
     TypingIsProved, TmuxP!PostInit, TmuxP!FilesInit
<1>3. RpcP!PostInv /\ RpcP!PostFiles
  BY <1>1, BoundsAreProved, VersionsAreNumbers, StopsAreCounted,
     TypesAreShared, RpcP!PostInit, RpcP!FilesInit
<1>4. subject = "terminal" => TmuxP!PaneInv
  BY <1>1, BoundsAreProved, VersionsAreNumbers, StopsAreCounted,
     TerminalIsProved, TmuxP!PaneInit
<1>5. subject = "plain" => RpcP!PaneInv
  BY <1>1, BoundsAreProved, VersionsAreNumbers, StopsAreCounted,
     PlainIsProved, RpcP!PaneInit
<1>6. subject = "stream" => TmuxP!FeedInv
  BY <1>1, BoundsAreProved, VersionsAreNumbers, StopsAreCounted,
     StreamIsProved, TmuxP!InitFeed
<1>7. subject = "journal" => RpcP!FeedInv
  BY <1>1, BoundsAreProved, VersionsAreNumbers, StopsAreCounted,
     JournalIsProved, RpcP!InitFeed
<1>8. subject = "paged" => TmuxP!RunsInv
  BY <1>1, BoundsAreProved, VersionsAreNumbers, StopsAreCounted,
     PagedIsProved, TmuxP!InitRuns
<1>9. subject = "limited" => RpcP!RunsInv
  BY <1>1, BoundsAreProved, VersionsAreNumbers, StopsAreCounted,
     LimitedIsProved, RpcP!InitRuns
<1>10. subject = "routed" => RoutedP!StateInv
  BY <1>1, BoundsAreProved, VersionsAreNumbers, StopsAreCounted,
     RoutedIsProved, RoutedP!InitState
<1>11. subject = "hinted" => HintedP!StateInv
  BY <1>1, BoundsAreProved, VersionsAreNumbers, StopsAreCounted,
     HintedIsProved, HintedP!InitState
<1> QED
  BY <1>2, <1>3, <1>4, <1>5, <1>6, <1>7, <1>8, <1>9, <1>10, <1>11 DEF ReadersInv

\* A step is a step of the subject, and leaves the others as they are.
LEMMA StepOfOne ==
  ASSUME [EachNext]_suiteVars
  PROVE  /\ subject' = subject
         /\ subject # "posting" => [TmuxP!Post!Next]_(TmuxP!Post!vars)
         /\ subject = "posting" => [RpcP!Post!Next]_(RpcP!Post!vars)
         /\ subject = "terminal" => [TmuxP!Pane!Next]_(TmuxP!Pane!vars)
         /\ subject = "plain" => [RpcP!Pane!Next]_(RpcP!Pane!vars)
         /\ subject = "stream" => [TmuxP!Feed!Next]_(TmuxP!Feed!vars)
         /\ subject = "journal" => [RpcP!Feed!Next]_(RpcP!Feed!vars)
         /\ subject = "paged" => [TmuxP!Dir!Next]_(TmuxP!Dir!vars)
         /\ subject = "limited" => [RpcP!Dir!Next]_(RpcP!Dir!vars)
         /\ subject = "routed" => [RoutedP!Next]_(RoutedP!vars)
         /\ subject = "hinted" => [HintedP!Next]_(HintedP!vars)
<1>1. /\ subject' = subject
      /\ subject # "posting" => Typing!Next \/ UNCHANGED relayVars
      /\ subject = "posting" => Posting!Next \/ UNCHANGED relayVars
      /\ subject = "terminal" => Terminal!Next \/ UNCHANGED paneVars
      /\ subject = "plain" => Plain!Next \/ UNCHANGED paneVars
      /\ subject = "stream" => Stream!Next \/ UNCHANGED feedVars
      /\ subject = "journal" => Journal!Next \/ UNCHANGED feedVars
      /\ subject = "paged" => Paged!Next \/ UNCHANGED retainedVars
      /\ subject = "limited" => Limited!Next \/ UNCHANGED retainedVars
      /\ subject = "routed" => Routed!Next \/ UNCHANGED capsuleVars
      /\ subject = "hinted" => Hinted!Next \/ UNCHANGED capsuleVars
  BY DEF EachNext, suiteVars
<1>2. /\ UNCHANGED relayVars => UNCHANGED TmuxP!Post!vars /\ UNCHANGED RpcP!Post!vars
      /\ UNCHANGED paneVars => UNCHANGED TmuxP!Pane!vars /\ UNCHANGED RpcP!Pane!vars
  BY DEF relayVars, paneVars, TmuxP!Post!vars, RpcP!Post!vars, TmuxP!Pane!vars, RpcP!Pane!vars
<1>3. /\ UNCHANGED feedVars => UNCHANGED TmuxP!Feed!vars /\ UNCHANGED RpcP!Feed!vars
      /\ UNCHANGED retainedVars => UNCHANGED TmuxP!Dir!vars /\ UNCHANGED RpcP!Dir!vars
  BY DEF feedVars, retainedVars, TmuxP!Feed!vars, RpcP!Feed!vars, TmuxP!Dir!vars, RpcP!Dir!vars,
     TmuxP!Feed!store, TmuxP!Feed!client, RpcP!Feed!store, RpcP!Feed!client
<1>4. UNCHANGED capsuleVars => UNCHANGED RoutedP!vars /\ UNCHANGED HintedP!vars
  BY DEF capsuleVars, RoutedP!vars, HintedP!vars, RoutedP!reports, HintedP!reports,
     RoutedP!told, HintedP!told, RoutedP!hints, HintedP!hints
<1> QED
  BY <1>1, <1>2, <1>3, <1>4, TypingIsProved, PostingIsProved, TerminalIsProved,
     PlainIsProved, StreamIsProved, JournalIsProved, PagedIsProved, LimitedIsProved,
     RoutedIsProved, HintedIsProved

LEMMA NextReaders ==
  ASSUME ReadersInv, [EachNext]_suiteVars
  PROVE  ReadersInv'
<1>1. subject' = subject
  BY StepOfOne
<1>2. ASSUME subject # "posting" PROVE TmuxP!PostInv' /\ TmuxP!PostFiles'
  BY <1>2, StepOfOne, BoundsAreProved, VersionsAreNumbers, StopsAreCounted,
     TmuxP!PostKept DEF ReadersInv
<1>3. ASSUME subject = "posting" PROVE RpcP!PostInv' /\ RpcP!PostFiles'
  BY <1>3, StepOfOne, BoundsAreProved, VersionsAreNumbers, StopsAreCounted,
     RpcP!PostKept DEF ReadersInv
<1>4. ASSUME subject = "terminal" PROVE TmuxP!PaneInv'
  BY <1>4, StepOfOne, BoundsAreProved, VersionsAreNumbers, StopsAreCounted,
     TmuxP!PaneNext DEF ReadersInv
<1>5. ASSUME subject = "plain" PROVE RpcP!PaneInv'
  BY <1>5, StepOfOne, BoundsAreProved, VersionsAreNumbers, StopsAreCounted,
     RpcP!PaneNext DEF ReadersInv
<1>6. ASSUME subject = "stream" PROVE TmuxP!FeedInv'
  BY <1>6, StepOfOne, BoundsAreProved, VersionsAreNumbers, StopsAreCounted,
     TmuxP!NextFeed DEF ReadersInv
<1>7. ASSUME subject = "journal" PROVE RpcP!FeedInv'
  BY <1>7, StepOfOne, BoundsAreProved, VersionsAreNumbers, StopsAreCounted,
     RpcP!NextFeed DEF ReadersInv
<1>8. ASSUME subject = "paged" PROVE TmuxP!RunsInv'
  BY <1>8, StepOfOne, BoundsAreProved, VersionsAreNumbers, StopsAreCounted,
     TmuxP!NextRuns DEF ReadersInv
<1>9. ASSUME subject = "limited" PROVE RpcP!RunsInv'
  BY <1>9, StepOfOne, BoundsAreProved, VersionsAreNumbers, StopsAreCounted,
     RpcP!NextRuns DEF ReadersInv
<1>10. ASSUME subject = "routed" PROVE RoutedP!StateInv'
  BY <1>10, StepOfOne, BoundsAreProved, VersionsAreNumbers, StopsAreCounted,
     RoutedP!NextState DEF ReadersInv
<1>11. ASSUME subject = "hinted" PROVE HintedP!StateInv'
  BY <1>11, StepOfOne, BoundsAreProved, VersionsAreNumbers, StopsAreCounted,
     HintedP!NextState DEF ReadersInv
<1> QED
  BY <1>1, <1>2, <1>3, <1>4, <1>5, <1>6, <1>7, <1>8, <1>9, <1>10, <1>11 DEF ReadersInv

LEMMA Invariant == EachSpec => []ReadersInv
<1>1. EachInit => ReadersInv
  BY InitReaders
<1>2. ReadersInv /\ [EachNext]_suiteVars => ReadersInv'
  BY NextReaders
<1> QED
  BY <1>1, <1>2, PTL DEF EachSpec

-----------------------------------------------------------------------------
(* What follows.                                                             *)

LEMMA NoticesFollow == ReadersInv => NoticesAreSent
<1> SUFFICES ASSUME ReadersInv PROVE NoticesAreSent
  OBVIOUS
<1>1. CASE subject = "posting"
  <2>1. RpcP!Post!TypeOK /\ RpcP!Post!SeenIsDelivered /\ RpcP!Post!RpcNoticedOnce
    BY <1>1, BoundsAreProved, VersionsAreNumbers, StopsAreCounted,
     RpcP!PostIsRight DEF ReadersInv
  <2> QED
    BY <1>1, <2>1, TypesAreShared, PostingIsProved DEF NoticesAreSent
<1>2. CASE subject # "posting"
  <2>1. TmuxP!Post!TypeOK /\ TmuxP!Post!SeenIsDelivered /\ TmuxP!Post!RepeatsAreFaults
    BY <1>2, BoundsAreProved, VersionsAreNumbers, StopsAreCounted,
     TmuxP!PostIsRight DEF ReadersInv
  <2> QED
    BY <1>2, <2>1, TypingIsProved DEF NoticesAreSent
<1> QED
  BY <1>1, <1>2

\* Whichever of a run's files move: a token on disk is never ahead of its
\* delivery, an RPC worker is told of a report once, and a tmux worker again only
\* after a fault (relay.py's deliver_marker).
THEOREM NoticesStaySent == EachSpec => []NoticesAreSent
  BY Invariant, NoticesFollow, PTL

LEMMA PaneFollows == ReadersInv => PaneIsTrue
<1> SUFFICES ASSUME ReadersInv PROVE PaneIsTrue
  OBVIOUS
<1>1. ASSUME subject = "terminal"
      PROVE  Terminal!TypeOK /\ Terminal!PaneIsCurrent /\ Terminal!LastIsShown
  <2>1. TmuxP!Pane!TypeOK /\ TmuxP!Pane!PaneIsCurrent /\ TmuxP!Pane!LastIsShown
    BY <1>1, BoundsAreProved, VersionsAreNumbers, StopsAreCounted,
     TmuxP!PaneIsRight DEF ReadersInv
  <2> QED
    BY <2>1, TerminalIsProved
<1>2. ASSUME subject = "plain" PROVE Plain!PaneIsCurrent /\ Plain!FramesAreRare
  <2>1. RpcP!Pane!PaneIsCurrent /\ RpcP!Pane!FramesAreRare
    BY <1>2, BoundsAreProved, VersionsAreNumbers, StopsAreCounted,
     RpcP!PaneIsRight DEF ReadersInv
  <2> QED
    BY <2>1, PlainIsProved
<1> QED
  BY <1>1, <1>2 DEF PaneIsTrue

\* Whichever of a run's files move: with nothing under way the pane shows the
\* database as it is, the frame the next one is compared with is on the screen
\* or torn there, and one that is no terminal repeats a frame only after a notice
\* or a failed line (dashboard.py's refresh, presentation_tick and
\* render_unavailable).
THEOREM PaneStaysTrue == EachSpec => []PaneIsTrue
  BY Invariant, PaneFollows, PTL

LEMMA PagesFollow == ReadersInv => PagesAreHonest
<1> SUFFICES ASSUME ReadersInv PROVE PagesAreHonest
  OBVIOUS
<1>1. ASSUME subject = "stream"
      PROVE  /\ Stream!TypeOK /\ Stream!OnceInOrder /\ Stream!NoSilentLoss
             /\ Stream!CompleteUnlessTruncated /\ Stream!GapIsReal
  <2>1. /\ TmuxP!Feed!TypeOK /\ TmuxP!Feed!OnceInOrder /\ TmuxP!Feed!NoSilentLoss
        /\ TmuxP!Feed!CompleteUnlessTruncated /\ TmuxP!Feed!GapIsReal
    BY <1>1, BoundsAreProved, VersionsAreNumbers, StopsAreCounted,
     TmuxP!FeedIsRight DEF ReadersInv
  <2> QED
    BY <2>1, StreamIsProved
<1>2. ASSUME subject = "journal"
      PROVE  /\ Journal!TypeOK /\ Journal!OnceInOrder /\ Journal!NoSilentLoss
             /\ Journal!GapIsReal /\ Journal!SynchronizedRecord
  <2>1. /\ RpcP!Feed!TypeOK /\ RpcP!Feed!OnceInOrder /\ RpcP!Feed!NoSilentLoss
        /\ RpcP!Feed!GapIsReal /\ RpcP!Feed!SynchronizedRecord
    BY <1>2, BoundsAreProved, VersionsAreNumbers, StopsAreCounted,
     RpcP!FeedIsRight DEF ReadersInv
  <2> QED
    BY <2>1, JournalIsProved
<1>3. ASSUME subject = "paged"
      PROVE  Paged!TypeOK /\ Paged!NewestIsListed /\ Paged!ResolvedIsNewest
  <2>1. TmuxP!Fits
    BY DEF TmuxP!Fits
  <2>2. TmuxP!Dir!TypeOK /\ TmuxP!Dir!NewestIsListed /\ TmuxP!Dir!ResolvedIsNewest
    BY <1>3, <2>1, BoundsAreProved, VersionsAreNumbers, StopsAreCounted,
     TmuxP!RunsAreRight DEF ReadersInv
  <2> QED
    BY <2>2, PagedIsProved
<1>4. ASSUME subject = "limited" PROVE Limited!HonestPage
  <2>1. RpcP!Dir!HonestPage
    BY <1>4, BoundsAreProved, VersionsAreNumbers, StopsAreCounted,
     RpcP!RunsAreRight DEF ReadersInv
  <2> QED
    BY <2>1, LimitedIsProved
<1> QED
  BY <1>1, <1>2, <1>3, <1>4 DEF PagesAreHonest

\* Whichever of a run's files move: a client that is not told of a gap has every
\* event up to its cursor, each once and in order, what an answer says of its page
\* is so, and a listing of runs misses none silently and prefers newer ones
\* (rpc_event_page, public_broker_events and _retained_runs).
THEOREM PagesStayHonest == EachSpec => []PagesAreHonest
  BY Invariant, PagesFollow, PTL

LEMMA EvidenceFollows == ReadersInv => EvidenceIsTrue
<1> SUFFICES ASSUME ReadersInv PROVE EvidenceIsTrue
  OBVIOUS
<1>1. ASSUME subject = "routed" PROVE Routed!TypeOK /\ Routed!NothingIsDropped
  <2>1. RoutedP!TypeOK /\ RoutedP!NothingIsDropped
    BY <1>1, BoundsAreProved, VersionsAreNumbers, StopsAreCounted,
     RoutedP!StateIsRight DEF ReadersInv
  <2> QED
    BY <2>1, RoutedIsProved
<1>2. ASSUME subject = "hinted"
      PROVE  Hinted!TypeOK /\ Hinted!NothingIsDropped /\ Hinted!HintsAreTrue
  <2>1. HintedP!TypeOK /\ HintedP!NothingIsDropped /\ HintedP!HintsAreTrue
    BY <1>2, BoundsAreProved, VersionsAreNumbers, StopsAreCounted,
     HintedP!StateIsRight DEF ReadersInv
  <2> QED
    BY <2>1, HintedIsProved
<1> QED
  BY <1>1, <1>2 DEF EvidenceIsTrue

\* Whichever of a run's files move: as long as a worker's connection stands, what
\* it was to be told of the reports it has, is being sent, or gets with its next
\* assignment, and a report it is told is unchanged is one since whose acceptance
\* nothing was edited or guided (broker_workflow.py, evidence_reuse.py).
THEOREM EvidenceStaysTrue == EachSpec => []EvidenceIsTrue
  BY Invariant, EvidenceFollows, PTL
=============================================================================
