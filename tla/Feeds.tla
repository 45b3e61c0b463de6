---------------------------------- MODULE Feeds ----------------------------------
(***************************************************************************)
(* The composer's RSS tab: subscriptions of a workspace, the list of their  *)
(* recent events that is fetched and cached for all its members, and what   *)
(* browser tabs that scroll through it are shown.                           *)
(***************************************************************************)
EXTENDS Integers, FiniteSets, Sequences

CONSTANTS
    FeedUrls,
    FeedTabs,      \* browser tabs of the workspace's members, one request each
    Documents,     \* what a feed's URL may hold: sequences of [link, date]
    EntriesRead,   \* entries taken from one document, 50 in the code
    FeedPage,      \* FEED_EVENTS_PAGE_SIZE
    FirstFeeds,    \* the subscriptions to begin with: sequences of URLs
    MaxFeedIds, MaxFeedOps

ASSUME FeedAssumption ==
    /\ EntriesRead \in Nat /\ FeedPage \in Nat \ {0}
    /\ MaxFeedIds \in Nat /\ MaxFeedOps \in Nat
    /\ \A doc \in Documents :
          Len(doc) \in Nat /\ DOMAIN doc = 1..Len(doc) /\ \A i \in DOMAIN doc : doc[i].date \in Nat
    \* unique_together of the workspace and the URL
    /\ \A urls \in FirstFeeds :
          /\ urls \in Seq(FeedUrls) /\ Len(urls) <= MaxFeedIds
          /\ \A i, j \in DOMAIN urls : urls[i] = urls[j] => i = j

VARIABLES
    feeds,     \* the subscriptions: records of an id and a URL
    listCache, \* the workspace's cached list
    load,      \* the request of each tab
    view,      \* what each tab shows
    lastFeedId, feedOps

feedVars == <<feeds, listCache, load, view, lastFeedId, feedOps>>

LinkMissing == "none"
EveryFeed == 0    \* the selection "all"
FeedIds == 1..MaxFeedIds
NoList == [signature |-> {}, met |-> <<>>, events |-> <<>>]
NoFeedRequest == [step |-> "idle", url |-> "none", explore |-> FALSE,
                  selected |-> EveryFeed, from |-> 0, listed |-> {}, todo |-> {}, met |-> <<>>]
EmptyView == [selected |-> EveryFeed, listed |-> {}, list |-> NoList, shown |-> <<>>,
              next |-> 0, more |-> FALSE, steady |-> TRUE]

IdsOf(fs) == {f.id : f \in fs}
Elements(s) == {s[i] : i \in DOMAIN s}

-------------------------------------------------------------------------------
(* The list: events of all feeds, each once, newest first *)

\* An entry without a link gets the website's, whichever entry it is.
EventId(e) == IF e.link = LinkMissing THEN "website" ELSE e.link

EventsOf(f, doc) ==
    [i \in 1..(IF Len(doc) < EntriesRead THEN Len(doc) ELSE EntriesRead) |->
        [feed |-> f.id, event |-> EventId(doc[i]), date |-> doc[i].date]]

\* Mutant: what one feed quotes from another is dropped.
DedupeByLink(met, i, j) == met[i].event = met[j].event

SameEvent(met, i, j) == met[i].feed = met[j].feed /\ met[i].event = met[j].event

\* Entries without a date, date 0, come last; the sort is stable.
FeedEvents(met) ==
    LET firsts == {i \in DOMAIN met : \A j \in 1..(i - 1) : ~SameEvent(met, i, j)}
        ahead(i) == {j \in firsts : \/ met[j].date > met[i].date
                                    \/ met[j].date = met[i].date /\ j < i}
    IN  [k \in 1..Cardinality(firsts) |-> met[CHOOSE i \in firsts : Cardinality(ahead(i)) = k - 1]]

\* Those of the selected feed, in their order.
OfFeed(events, selected) ==
    LET these == {i \in DOMAIN events : selected = EveryFeed \/ events[i].feed = selected}
        ahead(i) == {j \in these : j < i}
    IN  [k \in 1..Cardinality(these) |-> events[CHOOSE i \in these : Cardinality(ahead(i)) = k - 1]]

\* A selection that is no feed of the workspace becomes "all".
NormalizeSelected(selected, listed) ==
    IF selected \in IdsOf(listed) THEN selected ELSE EveryFeed

-------------------------------------------------------------------------------
(* Showing the tab *)

FeedRequest(t, r) ==
    /\ load[t] = NoFeedRequest /\ feedOps < MaxFeedOps /\ feedOps' = feedOps + 1
    /\ load' = [load EXCEPT ![t] = r]

\* feed_list
FeedList(t, selected) ==
    /\ FeedRequest(t, [NoFeedRequest EXCEPT !.step = "list", !.selected = selected])
    /\ UNCHANGED <<feeds, listCache, view, lastFeedId>>

\* The bottom of the tab comes into view.
FeedListAppend(t) ==
    /\ view[t].more
    /\ FeedRequest(t, [NoFeedRequest EXCEPT !.step = "list",
                          !.selected = view[t].selected, !.from = view[t].next])
    /\ UNCHANGED <<feeds, listCache, view, lastFeedId>>

ReadFeeds(t) ==
    /\ load[t].step = "list"
    /\ load' = [load EXCEPT ![t].step = "cache", ![t].listed = feeds,
                            ![t].selected = NormalizeSelected(@, feeds)]
    /\ UNCHANGED <<feeds, listCache, view, lastFeedId, feedOps>>

\* Mutant: one page more is offered whenever this one is full.
MoreWhenFull(events, from) == from + FeedPage <= Len(events)

HasMore(events, from) == from + FeedPage < Len(events)

\* A page of the tab: appended to what it shows, or in its place.
Show(t, list) ==
    LET r == load[t]
        events == OfFeed(list.events, r.selected)
        upTo == IF HasMore(events, r.from) THEN r.from + FeedPage ELSE Len(events)
        these == SubSeq(events, r.from + 1, upTo)
        append == r.from > 0
    IN  /\ view' = [view EXCEPT ![t] =
              [selected |-> r.selected, listed |-> r.listed, list |-> list,
               shown |-> IF append THEN @.shown \o these ELSE these,
               next |-> r.from + FeedPage, more |-> HasMore(events, r.from),
               steady |-> append => @.steady /\ list = @.list /\ r.selected = @.selected]]
        /\ load' = [load EXCEPT ![t] = NoFeedRequest]

\* Mutant: every change of the subscriptions clears the cache, so what is in it is
\* taken for theirs.
TrustCache(t) == listCache # NoList

\* The cached list is of the subscriptions it was fetched for.
CacheHit(t) == listCache # NoList /\ listCache.signature = IdsOf(load[t].listed)

GetCachedEvents(t) ==
    /\ load[t].step = "cache"
    /\ IF CacheHit(t) THEN Show(t, listCache)
       ELSE /\ load' = [load EXCEPT ![t].step = "fetch", ![t].todo = load[t].listed]
            /\ UNCHANGED view
    /\ UNCHANGED <<feeds, listCache, lastFeedId, feedOps>>

\* One feed after the other, each as it answers; one that does not is passed over.
FetchFeed(t, f, doc) ==
    /\ load[t].step = "fetch" /\ f \in load[t].todo
    /\ load' = [load EXCEPT ![t].todo = @ \ {f}, ![t].met = @ \o EventsOf(f, doc)]
    /\ UNCHANGED <<feeds, listCache, view, lastFeedId, feedOps>>

\* cache.set, whatever became of the subscriptions and the cache during the fetch.
StoreEvents(t) ==
    LET list == [signature |-> IdsOf(load[t].listed), met |-> load[t].met,
                 events |-> FeedEvents(load[t].met)]
    IN  /\ load[t].step = "fetch" /\ load[t].todo = {}
        /\ listCache' = list /\ Show(t, list)
        /\ UNCHANGED <<feeds, lastFeedId, feedOps>>

\* FEED_EVENTS_CACHE_TTL_SECONDS
ListExpires ==
    /\ listCache # NoList /\ listCache' = NoList
    /\ UNCHANGED <<feeds, load, view, lastFeedId, feedOps>>

-------------------------------------------------------------------------------
(* Subscribing *)

\* feed_add, from the tab or from the explore window, whose feeds are not validated.
FeedAdd(t, url, explore) ==
    /\ FeedRequest(t, [NoFeedRequest EXCEPT
                          !.step = IF explore THEN "exists" ELSE "validate",
                          !.url = url, !.explore = explore])
    /\ UNCHANGED <<feeds, listCache, view, lastFeedId>>

\* The URL is fetched; one that is not a feed ends in the form.
ValidateRssUrl(t, valid) ==
    /\ load[t].step = "validate"
    /\ load' = [load EXCEPT ![t].step = IF valid THEN "exists" ELSE "list"]
    /\ UNCHANGED <<feeds, listCache, view, lastFeedId, feedOps>>

FeedsRendered(t) == IF load[t].explore THEN [load EXCEPT ![t] = NoFeedRequest]
               ELSE [load EXCEPT ![t].step = "list"]

CheckSubscribed(t) ==
    /\ load[t].step = "exists"
    /\ load' = IF \E f \in feeds : f.url = load[t].url THEN FeedsRendered(t)
               ELSE [load EXCEPT ![t].step = "create"]
    /\ UNCHANGED <<feeds, listCache, view, lastFeedId, feedOps>>

\* Mutant: the lookup alone keeps subscriptions apart.
AlwaysUnique(url) == TRUE

\* unique_together of the workspace and the URL.
UniqueUrl(url) == \A f \in feeds : f.url # url

\* A violation of it is an error of the request.
CreateFeed(t) ==
    /\ load[t].step = "create" /\ lastFeedId < MaxFeedIds
    /\ IF UniqueUrl(load[t].url)
       THEN /\ feeds' = feeds \cup {[id |-> lastFeedId + 1, url |-> load[t].url]}
            /\ lastFeedId' = lastFeedId + 1
            /\ load' = [load EXCEPT ![t].step = "bust"]
       ELSE load' = [load EXCEPT ![t] = NoFeedRequest] /\ UNCHANGED <<feeds, lastFeedId>>
    /\ UNCHANGED <<listCache, view, feedOps>>

\* feed_delete; the form asks for all feeds in its answer.
FeedDelete(t, f) ==
    /\ f \in feeds /\ feeds' = feeds \ {f}
    /\ FeedRequest(t, [NoFeedRequest EXCEPT !.step = "bust", !.selected = EveryFeed])
    /\ UNCHANGED <<listCache, view, lastFeedId>>

BustCache(t) ==
    /\ load[t].step = "bust"
    /\ listCache' = NoList /\ load' = FeedsRendered(t)
    /\ UNCHANGED <<feeds, view, lastFeedId, feedOps>>

\* Whatever the request had done stands.
FeedRequestDies(t) ==
    /\ load[t] # NoFeedRequest
    /\ load' = [load EXCEPT ![t] = NoFeedRequest]
    /\ UNCHANGED <<feeds, listCache, view, lastFeedId, feedOps>>

-------------------------------------------------------------------------------

FeedInit ==
    /\ \E urls \in FirstFeeds :
          /\ feeds = {[id |-> i, url |-> urls[i]] : i \in DOMAIN urls}
          /\ lastFeedId = Len(urls)
    /\ listCache = NoList /\ feedOps = 0
    /\ load = [t \in FeedTabs |-> NoFeedRequest] /\ view = [t \in FeedTabs |-> EmptyView]

FeedNext ==
    \/ \E t \in FeedTabs :
          \/ \E selected \in {EveryFeed} \cup FeedIds : FeedList(t, selected)
          \/ FeedListAppend(t) \/ ReadFeeds(t) \/ GetCachedEvents(t)
          \/ \E f \in load[t].todo, doc \in Documents : FetchFeed(t, f, doc)
          \/ StoreEvents(t)
          \/ \E url \in FeedUrls, explore \in BOOLEAN : FeedAdd(t, url, explore)
          \/ \E valid \in BOOLEAN : ValidateRssUrl(t, valid)
          \/ CheckSubscribed(t) \/ CreateFeed(t) \/ BustCache(t) \/ FeedRequestDies(t)
          \/ \E f \in feeds : FeedDelete(t, f)
    \/ ListExpires

-------------------------------------------------------------------------------

FeedTypeOK ==
    /\ feeds \subseteq [id : FeedIds, url : FeedUrls]
    /\ listCache.signature \subseteq FeedIds
    /\ \A t \in FeedTabs :
          /\ load[t].step \in {"idle", "list", "cache", "fetch", "validate", "exists",
                               "create", "bust"}
          /\ load[t].selected \in {EveryFeed} \cup FeedIds
          /\ load[t].todo \subseteq load[t].listed
          /\ view[t].selected \in {EveryFeed} \cup FeedIds
    /\ lastFeedId \in 0..MaxFeedIds /\ feedOps \in 0..MaxFeedOps

\* A tab is shown events of the feeds the workspace had when the tab was asked for,
\* and of all of them: a fetch that outlasts a deletion brings nothing back, one that
\* outlasts an addition hides nothing.
ShownAreSubscribed ==
    \A t \in FeedTabs :
       LET ids == IdsOf(view[t].listed)
       IN  /\ view[t].list.signature = ids
           /\ \A e \in Elements(view[t].list.events) : e.feed \in ids

\* A list has each event of each document once, two feeds that link to one page each
\* their own, the newest first.
EachEventOnce ==
    \A t \in FeedTabs :
       LET met == view[t].list.met
           events == view[t].list.events
           named(e) == <<e.feed, e.event>>
       IN  /\ {named(e) : e \in Elements(events)} = {named(e) : e \in Elements(met)}
           /\ \A i, j \in DOMAIN events : i < j => /\ named(events[i]) # named(events[j])
                                                  /\ events[i].date >= events[j].date

\* Pages of one list add up to it, and the last offers no more.
PagesAddUp ==
    \A t \in FeedTabs :
       LET events == OfFeed(view[t].list.events, view[t].selected)
           n == IF view[t].next < Len(events) THEN view[t].next ELSE Len(events)
       IN  view[t].steady => /\ view[t].shown = SubSeq(events, 1, n)
                             /\ view[t].more <=> view[t].next < Len(events)

\* Two requests that subscribe to one URL at once subscribe once.
OneFeedPerUrl == \A f, g \in feeds : f.url = g.url => f = g

FeedsAreSound == ShownAreSubscribed /\ EachEventOnce /\ PagesAddUp /\ OneFeedPerUrl
===============================================================================
