------------------------------- MODULE Providers -------------------------------
(***************************************************************************)
(* One row on its way to its platform: apps/publisher/engine.py,           *)
(* _dispatch_to_provider and its retries, over publish_post of every class  *)
(* in providers/.  A publish is a list of steps; only one of them makes the *)
(* post, and whatever raises before or after it is a failure to the engine. *)
(***************************************************************************)
EXTENDS Integers, FiniteSets, SequencesExt

CONSTANTS MaxPublishRetries, \* engine.MAX_RETRIES
          MaxPolls,          \* CONTAINER_POLL_MAX_ATTEMPTS, MAX_PROCESSING_POLLS
          MaxMedia           \* bound: attachments of a post

ASSUME ProvidersAssumption ==
    /\ MaxPublishRetries \in Nat /\ MaxPolls \in Nat \ {0} /\ MaxMedia \in Nat

VARIABLES publish,   \* the row's attempt: what is published, its plan, how far it is
          postsMade, \* history: posts the platform made of the row
          unheard,   \* history: those whose answer was lost, garbled or without an id
          onPage,    \* photos staged on a Facebook page that belong to no post
          leftOver   \* history: photos whose deletion failed or whose id never came

publishVars == <<publish, postsMade, unheard, onPage, leftOver>>

Platforms == {"bluesky", "devto", "facebook", "google_business", "instagram", "instagram_login",
              "linkedin_company", "linkedin_personal", "mastodon", "pinterest", "threads",
              "tiktok", "x", "youtube"}

\* What the engine attaches: video-only platforms get the videos.
Attached(platform, media) ==
    IF platform \in {"youtube", "tiktok"}
    THEN [i \in 1..Cardinality({j \in DOMAIN media : media[j] = "video"}) |-> "video"]
    ELSE media

PostType(platform, media) ==
    CASE platform = "pinterest" -> "pin"
      [] platform # "pinterest" /\ media = <<>> -> "text"
      [] Len(media) > 1 /\ platform \in {"instagram", "instagram_login", "threads"} -> "carousel"
      [] OTHER -> Head(media)

-------------------------------------------------------------------------------
(* The steps of publish_post.  "check": what the provider verifies itself;   *)
(* "ask": a request whose answer is needed; "stage": one that leaves          *)
(* something unpublished; "wait": polling until that is processed; "publish": *)
(* the request that makes the post; "extra": one whose failure is swallowed.  *)

ForEach(media, steps) == FlattenSeq([i \in 1..Len(media) |-> steps[media[i]]])
Upload == [kind \in {"image", "video"} |-> <<"stage">>]
AtMostFour(media) == SubSeq(media, 1, IF Len(media) < 4 THEN Len(media) ELSE 4)

BlueskyPlan(media) ==
    <<"check", "ask", "extra">>
    \o ForEach(IF PostType("bluesky", media) = "video" THEN <<"video">> ELSE AtMostFour(media), Upload)
    \o <<"publish">>

DevtoPlan(media) == <<"check", "publish">>

FacebookPlan(media) ==
    CASE PostType("facebook", media) = "video" -> <<"check", "publish", "extra">>
      [] PostType("facebook", media) = "image" /\ Len(media) > 1 ->
            <<"check">> \o ForEach(media, Upload) \o <<"publish">>
      [] OTHER -> <<"check", "publish">>

GoogleBusinessPlan(media) == <<"check", "ask", "ask", "publish">>

\* instagram and instagram_login alike: a container per item, one for a carousel.
Container == [kind \in {"image", "video"} |-> <<"stage", "wait">>]
InstagramPlan(media) ==
    <<"check">>
    \o (IF Len(media) > 1 THEN ForEach(media, Container) ELSE <<>>)
    \o <<"stage", "wait", "publish">>

LinkedInPlan(media) ==
    CASE media = <<>> -> <<"publish">>
      [] media # <<>> /\ Head(media) = "image" -> <<"ask", "stage", "publish">>
      [] OTHER -> <<"ask", "stage", "ask", "wait", "publish">>

\* A personal account's author is looked up, a company's comes from the engine.
LinkedInPersonalPlan(media) == <<"ask">> \o LinkedInPlan(media)

MastodonPlan(media) == ForEach(media, Upload) \o <<"publish">>

PinterestPlan(media) == <<"check", "publish">>

ThreadsItem == [image |-> <<"stage">>, video |-> <<"stage", "wait">>]
ThreadsPlan(media) ==
    <<"ask">>
    \o (IF Len(media) > 1 THEN ForEach(media, ThreadsItem) ELSE <<>>)
    \o (IF media = <<>> THEN <<"stage", "publish">> ELSE <<"stage", "wait", "publish">>)

TikTokPlan(media) == <<"check", "extra", "check", "stage", "publish">>

XUpload == [image |-> <<"stage">>, video |-> <<"stage", "stage", "ask", "wait">>]
XPlan(media) == <<"check">> \o ForEach(AtMostFour(media), XUpload) \o <<"publish">>

YouTubePlan(media) == <<"check", "ask", "publish", "extra">>

Plan(platform, media) ==
    CASE platform = "bluesky" -> BlueskyPlan(media)
      [] platform = "devto" -> DevtoPlan(media)
      [] platform = "facebook" -> FacebookPlan(media)
      [] platform = "google_business" -> GoogleBusinessPlan(media)
      [] platform \in {"instagram", "instagram_login"} -> InstagramPlan(media)
      [] platform = "linkedin_company" -> LinkedInPlan(media)
      [] platform = "linkedin_personal" -> LinkedInPersonalPlan(media)
      [] platform = "mastodon" -> MastodonPlan(media)
      [] platform = "pinterest" -> PinterestPlan(media)
      [] platform = "threads" -> ThreadsPlan(media)
      [] platform = "tiktok" -> TikTokPlan(media)
      [] platform = "x" -> XPlan(media)
      [] platform = "youtube" -> YouTubePlan(media)

\* Media no version of the text or the options can make publishable.
Unpublishable(platform, media) ==
    \/ media = <<>> /\ platform \in {"instagram", "instagram_login", "pinterest", "tiktok", "youtube"}
    \/ platform = "facebook" /\ Len(media) > 1 /\ Head(media) = "image" /\ Contains(media, "video")
    \/ platform = "x" /\ Len(media) > 1 /\ Contains(AtMostFour(media), "video")

\* Whether publish_post returns on this answer to the request that makes the post.
\* LinkedIn and TikTok look at its status alone, some insist on the id in its body.
Readable(platform, answer) ==
    CASE answer = "good" -> TRUE
      [] answer = "lost" -> FALSE
      [] answer = "garbled" -> platform \in {"linkedin_company", "linkedin_personal", "tiktok"}
      [] answer = "no id" -> platform \notin {"devto", "facebook", "mastodon", "x"}

\* Mutant: what follows the publish is a request like any other.
NothingSwallowed == {}

Swallowed == {"extra"}

-------------------------------------------------------------------------------
Step == publish.plan[publish.at]
At(step) == publish.outcome = "running" /\ publish.at <= Len(publish.plan) /\ Step = step
Advance == publish' = [publish EXCEPT !.at = @ + 1, !.polls = 0]

\* _schedule_retry, or _fail_permanently, after publish_post raised.
Failed(permanent) ==
    publish' = IF permanent \/ publish.retries >= MaxPublishRetries
               THEN [publish EXCEPT !.outcome = "failed"]
               ELSE [publish EXCEPT !.outcome = "waiting", !.retries = @ + 1]

\* The photos of a post of several, once their ids are known.
Photos == IF publish.platform = "facebook" THEN publish.staged ELSE 0

\* _delete_staged_photos: each deletion works or fails by itself.
DeleteStaged(page, lost) ==
    \E kept \in 0..Photos :
        /\ onPage' = page - (Photos - kept)
        /\ leftOver' = leftOver + kept + lost

\* What publish_post raises leaves it before the request that makes the post.
Raise ==
    /\ \E permanent \in IF publish.platform = "tiktok" /\ Step \in {"check", "stage"}
                        THEN BOOLEAN ELSE {FALSE} : Failed(permanent)
    /\ DeleteStaged(onPage, 0)

PublishInit ==
    /\ \E platform \in Platforms, n \in 0..MaxMedia :
          \E given \in [1..n -> {"image", "video"}] :
              LET media == Attached(platform, given)
              IN  publish = [platform |-> platform, media |-> media,
                             plan |-> Plan(platform, media), outcome |-> "waiting",
                             retries |-> 0, at |-> 1, polls |-> 0, staged |-> 0]
    /\ postsMade = 0 /\ unheard = 0 /\ onPage = 0 /\ leftOver = 0

\* The head of _dispatch_to_provider: the token is refreshed if that works, the
\* media are fetched to files; a file that cannot be fetched fails the attempt.
Dispatch ==
    /\ publish.outcome = "waiting"
    /\ \/ publish' = [publish EXCEPT !.outcome = "running", !.at = 1, !.polls = 0, !.staged = 0]
       \/ Failed(FALSE)
    /\ UNCHANGED <<postsMade, unheard, onPage, leftOver>>

CheckPasses ==
    /\ At("check") /\ ~Unpublishable(publish.platform, publish.media)
    /\ Advance
    /\ UNCHANGED <<postsMade, unheard, onPage, leftOver>>

RequestSucceeds ==
    /\ \/ At("ask") /\ Advance /\ UNCHANGED onPage
       \/ /\ At("stage")
          /\ publish' = [publish EXCEPT !.at = @ + 1, !.staged = @ + 1]
          /\ onPage' = onPage + (IF publish.platform = "facebook" THEN 1 ELSE 0)
    /\ UNCHANGED <<postsMade, unheard, leftOver>>

\* A check that fails, a request that is refused, or an answer without what is
\* needed of it: before the post is made, all the same.
StepRaises ==
    /\ \E step \in {"check", "ask", "stage", "wait", "publish", "extra"} \ Swallowed : At(step)
    /\ Raise
    /\ UNCHANGED <<postsMade, unheard>>

\* A photo is staged and its id never arrives.
StagedUnheard ==
    /\ At("stage") /\ publish.platform = "facebook"
    /\ Failed(FALSE) /\ DeleteStaged(onPage + 1, 1)
    /\ UNCHANGED <<postsMade, unheard>>

\* One turn of a polling loop; after the last one the wait has timed out.
PollContainer ==
    /\ At("wait")
    /\ \/ Advance /\ UNCHANGED <<onPage, leftOver>>
       \/ /\ publish.polls + 1 < MaxPolls
          /\ publish' = [publish EXCEPT !.polls = @ + 1]
          /\ UNCHANGED <<onPage, leftOver>>
       \/ publish.polls + 1 = MaxPolls /\ Raise
    /\ UNCHANGED <<postsMade, unheard>>

\* The platform makes the post, and its answer arrives, or not, or not whole.  The
\* photos are the post's now: a cleanup after a bad answer takes them from it.
PlatformPublishes ==
    /\ At("publish")
    /\ postsMade' = postsMade + 1 /\ onPage' = onPage - Photos
    /\ \E answer \in {"good", "lost", "garbled", "no id"} :
          /\ unheard' = unheard + (IF answer = "good" THEN 0 ELSE 1)
          /\ IF Readable(publish.platform, answer) THEN Advance ELSE Failed(FALSE)
    /\ UNCHANGED leftOver

\* resolve_handle, query_creator_info, the permalink, the thumbnail: done or not.
ExtraDone ==
    /\ At("extra") /\ Advance
    /\ UNCHANGED <<postsMade, unheard, onPage, leftOver>>

PublishReturns ==
    /\ publish.outcome = "running" /\ publish.at > Len(publish.plan)
    /\ publish' = [publish EXCEPT !.outcome = "published"]
    /\ UNCHANGED <<postsMade, unheard, onPage, leftOver>>

PublishNext ==
    \/ Dispatch \/ CheckPasses \/ RequestSucceeds \/ StepRaises \/ StagedUnheard \/ PollContainer
    \/ PlatformPublishes \/ ExtraDone \/ PublishReturns

-------------------------------------------------------------------------------
Outcomes == {"waiting", "running", "published", "failed"}

PublishTypeOK ==
    /\ publish.platform \in Platforms /\ publish.outcome \in Outcomes
    /\ publish.retries \in 0..MaxPublishRetries /\ publish.polls \in 0..MaxPolls
    /\ publish.at \in 1..(Len(publish.plan) + 1) /\ publish.staged \in Nat
    /\ postsMade \in Nat /\ unheard \in 0..postsMade /\ onPage \in Nat /\ leftOver \in Nat

\* "nothing here may propagate, or the publish engine would schedule a retry and
\* double-post": an attempt that counts as failed, to be made again or given up,
\* left no post on any platform unless the answer to the very request that made it
\* was bad, over all the attempts of a row; one that counts as published made a post.
FailureMeansNoPost ==
    /\ publish.outcome \in {"waiting", "failed"} => postsMade <= unheard
    /\ publish.outcome = "published" => postsMade \in 1..(1 + unheard)

\* "a partial failure (or a retry by the publisher) doesn't accumulate orphaned media
\* on the page": between attempts only photos are there whose deletion failed too,
\* or whose id never came.
NothingAccumulates == publish.outcome # "running" => onPage <= leftOver

OutcomeIsTold == FailureMeansNoPost /\ NothingAccumulates
===============================================================================
