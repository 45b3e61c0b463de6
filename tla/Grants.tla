-------------------------------- MODULE Grants --------------------------------
(***************************************************************************)
(* How long what a platform grants is good for.  An account is connected    *)
(* with the tokens of its provider's exchange_code (create_session, or an    *)
(* API key), through the login flow or through a connection link; after that *)
(* only health checks and the publishing engine renew them.  Time passes in  *)
(* ticks; Connections models who may hold the tokens at the same time.       *)
(***************************************************************************)
EXTENDS Integers

CONSTANTS LastTick,     \* bound on the clock
          Soon,        \* is_token_expiring_soon: ticks before the end
          GrantedLives \* ticks that a token of a few hours, and of months, is good for

ASSUME GrantsAssumption ==
    /\ LastTick \in Nat /\ Soon \in Nat \ {0}
    /\ GrantedLives \in [{"hours", "months"} -> Nat \ {0}]

VARIABLES grantClock, held

grantVars == <<grantClock, held>>

Unknown == -1   \* token_expires_at is NULL
NoEnd == LastTick + 100
NoGrant == [platform |-> "none"]

-------------------------------------------------------------------------------
(* What exchange_code brings: how long its tokens live ("short" is a token of *)
(* a few hours), whether the answer tells it, whether a refresh token may come *)
(* with it, and what the account is: the person that signed in or its pages.   *)

TokensOf(lives, tells, refresh, owns) ==
    [lives |-> lives, told |-> tells, refresh |-> refresh, owns |-> owns]

\* The user's token as it is: the exchange for a long-lived one is refresh_token's,
\* and there is no refresh token to call it with.  A page's token need not lapse.
FacebookTokens == TokensOf({"hours", "months", "ever"}, {TRUE}, {FALSE}, "pages")
InstagramTokens == TokensOf({"hours", "months", "ever"}, {TRUE}, {FALSE}, "pages")

\* Mutant: as Threads does it.
OnlyAccessToken == TokensOf({"months"}, {TRUE}, {FALSE}, "person")

\* A second exchange, for months; the access token serves as refresh token.
InstagramLoginTokens == TokensOf({"months"}, {TRUE}, {TRUE}, "person")

\* The same second exchange; the access token is not kept as a refresh token.
ThreadsTokens == TokensOf({"months"}, {TRUE}, {FALSE}, "person")

\* Refresh tokens are for apps with Community Management; OIDC gets none.
LinkedInTokens(owns) == TokensOf({"months"}, {TRUE}, BOOLEAN, owns)
LinkedInPersonalTokens == LinkedInTokens("person")

\* Every page comes with the user's token.
LinkedInCompanyTokens == LinkedInTokens("pages")

TikTokTokens == TokensOf({"hours"}, {TRUE}, {TRUE}, "person")
YouTubeTokens == TokensOf({"hours"}, {TRUE}, {TRUE}, "person")
GoogleBusinessTokens == TokensOf({"hours"}, {TRUE}, {TRUE}, "person")
PinterestTokens == TokensOf({"months"}, {TRUE}, {TRUE}, "person")
XTokens == TokensOf({"hours"}, {TRUE}, {TRUE}, "person")
MastodonTokens == TokensOf({"ever"}, {FALSE}, {FALSE}, "person")

\* The end is read from the token itself, if that can be read.
BlueskyTokens == TokensOf({"hours"}, BOOLEAN, {TRUE}, "person")

\* An API key.
DevtoTokens == TokensOf({"ever"}, {FALSE}, {FALSE}, "person")

ExchangedFor ==
    [facebook |-> FacebookTokens, instagram |-> InstagramTokens,
     instagram_login |-> InstagramLoginTokens, threads |-> ThreadsTokens,
     linkedin_personal |-> LinkedInPersonalTokens, linkedin_company |-> LinkedInCompanyTokens,
     tiktok |-> TikTokTokens, youtube |-> YouTubeTokens, google_business |-> GoogleBusinessTokens,
     pinterest |-> PinterestTokens, x |-> XTokens, mastodon |-> MastodonTokens,
     bluesky |-> BlueskyTokens, devto |-> DevtoTokens]

GrantPlatforms == DOMAIN ExchangedFor

End(lives) == IF lives = "ever" THEN NoEnd ELSE grantClock + GrantedLives[lives]

-------------------------------------------------------------------------------
(* Connecting *)

\* _create_or_update_account of what the flow passes to it.
StoreGrant(platform, via, owner, lives, tells, refresh) ==
    [platform |-> platform, via |-> via, owner |-> owner, name |-> owner,
     lapses |-> End(lives), expires |-> IF tells THEN End(lives) ELSE Unknown,
     lives |-> lives, refresh |-> refresh, status |-> "connected",
     refused |-> FALSE, used |-> "not"]

\* oauth_callback, connect_bluesky, connect_devto: the one account of a platform.
ConnectPerson(platform) ==
    LET t == ExchangedFor[platform]
    IN  /\ t.owns = "person"
        /\ \E lives \in t.lives, tells \in t.told, refresh \in t.refresh :
              held' = StoreGrant(platform, "login", "person", lives, tells, refresh)
        /\ UNCHANGED grantClock

\* select_account: pages, or Instagram accounts, with expires_in=None.
ConnectPages(platform) ==
    LET t == ExchangedFor[platform]
    IN  /\ t.owns = "pages"
        /\ \E lives \in t.lives, refresh \in t.refresh :
              held' = StoreGrant(platform, "login", "page", lives, FALSE, refresh)
        /\ UNCHANGED grantClock

\* connection_oauth_callback: the pages of Facebook and Instagram if there are any,
\* otherwise whoever signed in, whatever the platform.
ConnectByLink(platform) ==
    LET t == ExchangedFor[platform]
    IN  /\ platform \notin {"bluesky", "devto"}
        /\ \E lives \in t.lives, tells \in t.told, refresh \in t.refresh,
              owner \in IF platform \in {"facebook", "instagram"} THEN {"person", "page"} ELSE {"person"} :
                 held' = StoreGrant(platform, "link", owner, lives, tells, refresh)
        /\ UNCHANGED grantClock

\* connection_bluesky_connect; nothing connects DEV.to by a link.
BlueskyByLink ==
    /\ \E tells \in BlueskyTokens.told :
          held' = StoreGrant("bluesky", "link", "person", "hours", tells, TRUE)
    /\ UNCHANGED grantClock

-------------------------------------------------------------------------------
(* Renewing *)

Live(g) == grantClock < g.lapses

\* Mutant: what has ended, not what is about to.
Ended(g) == g.expires # Unknown /\ g.expires < grantClock

\* is_token_expiring_soon
ExpiringSoon(g) == g.expires # Unknown /\ g.expires < grantClock + Soon

\* refresh_token: a pair for as long again; what answers it is stored, and the old
\* refresh token if none came.  Bluesky's end may be unreadable.
RenewedNow(g) ==
    {[g EXCEPT !.lapses = End(g.lives), !.refused = FALSE, !.status = "connected", !.used = "not",
               !.expires = IF tells THEN End(g.lives) ELSE @] :
          tells \in ExchangedFor[g.platform].told}

NotRenewedNow(g, flag) == {[g EXCEPT !.refused = TRUE, !.status = flag]}

\* Accounts of Bluesky whose end is not known are renewed to learn it.
CheckRenews(g) ==
    (ExpiringSoon(g) \/ (g.platform = "bluesky" /\ g.expires = Unknown)) /\ g.refresh

\* get_profile of a company's page is the member's.
ProfileName(g) == IF g.platform = "linkedin_company" THEN "person" ELSE g.owner

\* check_social_account_health: renewal, then the profile with the token there is.
\* The platform may be down for either.
HealthCheck ==
    /\ held # NoGrant /\ held.status \in {"connected", "token_expiring"}
    /\ \E g \in IF CheckRenews(held)
                THEN RenewedNow(held) \cup NotRenewedNow(held, "token_expiring") ELSE {held} :
          \/ Live(g) /\ held' = [g EXCEPT !.name = ProfileName(g)]
          \/ held' = [g EXCEPT !.status = "error"]
    /\ UNCHANGED grantClock

\* _dispatch_to_provider: "on refresh failure we keep the old token".
UseToken ==
    /\ held # NoGrant
    /\ \E g \in IF ExpiringSoon(held) /\ held.refresh
                THEN RenewedNow(held) \cup NotRenewedNow(held, held.status) ELSE {held} :
          held' = [g EXCEPT !.used = IF Live(g) THEN "live" ELSE "lapsed"]
    /\ UNCHANGED grantClock

GrantTick ==
    /\ grantClock < LastTick /\ grantClock' = grantClock + 1
    /\ UNCHANGED held

-------------------------------------------------------------------------------

GrantInit == grantClock = 0 /\ held = NoGrant

GrantNext ==
    \/ \E platform \in GrantPlatforms :
          /\ held = NoGrant \/ held.platform = platform
          /\ \/ ConnectPerson(platform) \/ ConnectPages(platform) \/ ConnectByLink(platform)
             \/ platform = "bluesky" /\ BlueskyByLink
    \/ HealthCheck \/ UseToken \/ GrantTick

GrantSpec == GrantInit /\ [][GrantNext]_grantVars

-------------------------------------------------------------------------------

GrantTypeOK ==
    /\ grantClock \in 0..LastTick
    /\ held # NoGrant =>
          /\ held.platform \in GrantPlatforms /\ held.via \in {"login", "link"}
          /\ {held.owner, held.name} \subseteq {"person", "page"}
          /\ held.lapses \in Nat /\ held.expires \in Nat \cup {Unknown}
          /\ held.refresh \in BOOLEAN /\ held.refused \in BOOLEAN
          /\ held.status \in {"connected", "token_expiring", "error"}
          /\ held.used \in {"not", "live", "lapsed"}

\* What no caller ever renews: pages and their user's token (their end is not stored,
\* or they have no refresh token), Threads (its access token would do, and is not
\* kept as one), LinkedIn without a refresh token.
NotRenewed(g) ==
    \/ g.platform \in {"facebook", "instagram", "threads"}
    \/ g.platform = "linkedin_company" /\ g.owner = "page"
    \/ g.platform \in {"linkedin_personal", "linkedin_company"} /\ ~g.refresh

\* A post goes out with a token that is good, however long ago the account was
\* connected or checked and however short its tokens live, unless the platform refused
\* the last renewal, the account is one of those that nobody renews, or a Bluesky
\* token was unreadable.
UsedWhileLive ==
    held # NoGrant /\ held.used = "lapsed" =>
        held.refused \/ NotRenewed(held) \/ (held.platform = "bluesky" /\ held.expires = Unknown)

\* An end that is coming is known to the account: unless it is a page chosen at the
\* login, or a Bluesky token that was unreadable.
EndIsKnown ==
    held # NoGrant /\ held.lapses # NoEnd /\ held.platform # "bluesky" =>
        \/ held.expires = held.lapses
        \/ held.owner = "page" /\ held.via = "login"

\* An account that says its token is expiring is one whose renewal was refused.
ExpiringMeansRefused == held # NoGrant /\ held.status = "token_expiring" => held.refused

\* The account keeps the name of what it is, and is what its platform publishes to:
\* but for company pages (the check names them after the member), and for whoever
\* follows a link and has no page there.
NamedAfterItself ==
    held # NoGrant =>
        /\ held.name = held.owner \/ held.platform = "linkedin_company"
        /\ ExchangedFor[held.platform].owns = "pages" /\ held.owner = "person" => held.via = "link"

GrantsHold == UsedWhileLive /\ EndIsKnown /\ ExpiringMeansRefused /\ NamedAfterItself
===============================================================================
