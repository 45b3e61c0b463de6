------------------------------ MODULE Discussion ------------------------------
(***************************************************************************)
(* Comments on one post, internal and external, written, edited and deleted *)
(* by several people at once, and what the client and the people mentioned  *)
(* in them get to see.                                                      *)
(***************************************************************************)
EXTENDS Integers, FiniteSets, Sequences

CONSTANTS
    Talkers,        \* people who comment; some of them reviewers
    Moderators,     \* those with approve_posts
    TalkThreads,    \* web threads
    MaxComments, MaxTalkOps

ASSUME TalkConstants == MaxComments \in Nat /\ MaxTalkOps \in Nat

VARIABLES
    comments, \* PostComment rows, oldest first
    talk,     \* the request of each thread
    mentions, \* history: whom each comment's mention notified
    talkOps

talkVars == <<comments, talk, mentions, talkOps>>

NoParent == 0
Comment == [author : Talkers, visibility : {"internal", "external"},
            parent : 0..MaxComments, deleted : BOOLEAN, body : 0..MaxTalkOps,
            \* history: somebody deleted it
            was_deleted : BOOLEAN]

Quiet == [step |-> "idle", who |-> "nobody", id |-> 0, row |-> <<>>, named |-> {}]
Begins(t) == talk[t] = Quiet /\ talkOps < MaxTalkOps /\ talkOps' = talkOps + 1

\* The post page lists top-level comments with the replies to each, one level deep.
Replies(id) == {r \in DOMAIN comments : comments[r].parent = id /\ ~comments[r].deleted}
TopLevel == {c \in DOMAIN comments : comments[c].parent = NoParent /\ ~comments[c].deleted}
WithReplies(S) == S \cup UNION {Replies(c) : c \in S}

\* Mutant: a client is shown what the team is.
ShownToAll == WithReplies(TopLevel)

\* get_comments_for_post and the portal's queue: to clients the external threads.
ShownToClient == WithReplies({c \in TopLevel : comments[c].visibility = "external"})

-------------------------------------------------------------------------------

\* A parent that was deleted, or is of another post, makes a comment of its own.
StartComment(t, who, visibility, parent, named) ==
    LET found == parent \in DOMAIN comments /\ ~comments[parent].deleted
    IN  /\ Begins(t) /\ Len(comments) < MaxComments
        /\ talk' = [talk EXCEPT ![t] =
              [step |-> "create", who |-> who, id |-> IF found THEN parent ELSE NoParent,
               row |-> <<visibility>>, named |-> named]]
        /\ UNCHANGED <<comments, mentions>>

StoreComment(t) ==
    LET r == talk[t]
    IN  /\ r.step = "create" /\ Len(comments) < MaxComments
        /\ comments' = Append(comments,
              [author |-> r.who, visibility |-> r.row[1], parent |-> r.id, deleted |-> FALSE,
               body |-> 0, was_deleted |-> FALSE])
        /\ talk' = [talk EXCEPT ![t].step = "mention", ![t].id = Len(comments) + 1]
        /\ UNCHANGED <<mentions, talkOps>>

\* Mutant: everybody named is told, the author too.
TellAllNamed(t) ==
    /\ talk[t].step = "mention"
    /\ mentions' = mentions \cup {<<talk[t].id, u>> : u \in talk[t].named}
    /\ talk' = [talk EXCEPT ![t] = Quiet]
    /\ UNCHANGED <<comments, talkOps>>

\* Members named in the text are told once, and never the author.
NotifyMentions(t) ==
    /\ talk[t].step = "mention"
    /\ mentions' = mentions \cup {<<talk[t].id, u>> : u \in talk[t].named \ {talk[t].who}}
    /\ talk' = [talk EXCEPT ![t] = Quiet]
    /\ UNCHANGED <<comments, talkOps>>

\* An edit or a deletion reads the row, unless it is deleted, and asks who may.
Takes(t, who, id, step) ==
    /\ Begins(t)
    /\ ~comments[id].deleted
    /\ talk' = [talk EXCEPT ![t] = [Quiet EXCEPT !.step = step, !.who = who, !.id = id,
                                                 !.row = <<comments[id]>>]]
    /\ UNCHANGED <<comments, mentions>>

UpdateComment(t, who, id) == comments[id].author = who /\ Takes(t, who, id, "edit")

DeleteComment(t, who, id) ==
    (comments[id].author = who \/ who \in Moderators) /\ Takes(t, who, id, "delete")

\* Mutant: the whole row is written, as it was read.
SaveWholeRow(t) ==
    LET r == talk[t]
    IN  /\ r.step = "edit"
        /\ comments' = [comments EXCEPT ![r.id] =
              [r.row[1] EXCEPT !.body = talkOps, !.was_deleted = comments[r.id].was_deleted]]
        /\ talk' = [talk EXCEPT ![t] = Quiet]
        /\ UNCHANGED <<mentions, talkOps>>

\* Each writes its own columns only.
SaveBody(t) ==
    /\ talk[t].step = "edit"
    /\ comments' = [comments EXCEPT ![talk[t].id].body = talkOps]
    /\ talk' = [talk EXCEPT ![t] = Quiet]
    /\ UNCHANGED <<mentions, talkOps>>

SaveDeleted(t) ==
    /\ talk[t].step = "delete"
    /\ comments' = [comments EXCEPT ![talk[t].id].deleted = TRUE, ![talk[t].id].was_deleted = TRUE]
    /\ talk' = [talk EXCEPT ![t] = Quiet]
    /\ UNCHANGED <<mentions, talkOps>>

-------------------------------------------------------------------------------

TalkInit == comments = <<>> /\ talk = [t \in TalkThreads |-> Quiet] /\ mentions = {} /\ talkOps = 0

TalkNext ==
    \E t \in TalkThreads :
        \/ StoreComment(t) \/ NotifyMentions(t) \/ SaveBody(t) \/ SaveDeleted(t)
        \/ \E who \in Talkers :
              \/ \E visibility \in {"internal", "external"}, parent \in 0..MaxComments,
                    named \in SUBSET Talkers : StartComment(t, who, visibility, parent, named)
              \/ \E id \in DOMAIN comments : UpdateComment(t, who, id) \/ DeleteComment(t, who, id)

TalkSpec == TalkInit /\ [][TalkNext]_talkVars

-------------------------------------------------------------------------------

TalkTypeOK ==
    /\ comments \in Seq(Comment) /\ Len(comments) <= MaxComments
    /\ \A t \in TalkThreads :
          talk[t].step \in {"idle", "create", "mention", "edit", "delete"}
    /\ mentions \subseteq (1..MaxComments) \X Talkers
    /\ talkOps \in 0..MaxTalkOps

\* A comment that was deleted is shown to nobody again, whatever an edit that had
\* read it before writes.
DeletedIsGone == \A c \in DOMAIN comments : comments[c].was_deleted => comments[c].deleted

\* A client sees what is meant for clients, and of internal comments only a reply
\* somebody put under an external one.
InternalStaysInside ==
    \A c \in ShownToClient :
        \/ comments[c].visibility = "external"
        \/ comments[c].parent # NoParent /\ comments[comments[c].parent].visibility = "external"

\* Nobody is told of a mention in a comment of their own.
MentionedByAnother == \A m \in mentions : comments[m[1]].author # m[2]

DiscussionIsSound == DeletedIsGone /\ InternalStaysInside /\ MentionedByAnother
===============================================================================
