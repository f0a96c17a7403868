------------------------------ MODULE KbArticles ------------------------------
(***************************************************************************)
(* Articles of the knowledge base: drafts, edits, publication with a       *)
(* numbered snapshot, archiving, deletion and links to tickets.            *)
(*                                                                         *)
(* Every call looks first, in statements of their own, and writes by id.   *)
(* A publication is one READ COMMITTED transaction (the article is read,   *)
(* the snapshot inserted, the article updated), and the event that         *)
(* announces it is inserted after its commit.  What holds calls together   *)
(* that overlap are the unique indexes: of slugs, of (article, number) for *)
(* the snapshots and of an event's dedupe key.                             *)
(*                                                                         *)
(* Abstractions: title, summary and content are one content; tags, which   *)
(* an update replaces under the lock of the article's row, the category    *)
(* (see Taxonomy), visibility, feedback and views are left out.            *)
(***************************************************************************)
EXTENDS Naturals, Sequences

CONSTANTS
  Articles, NoArticle,    \* identities of articles
  Slugs, NoSlug,          \* slugs in use; an update that leaves it alone
  Contents,               \* what an article says
  KbTickets, NoKbTicket,  \* tickets articles are linked to
  Authors,                \* API requests in progress
  MaxPublications         \* bound: number of an article's last version

ASSUME ArticleConstants ==
  /\ NoArticle \notin Articles /\ NoSlug \notin Slugs /\ NoKbTicket \notin KbTickets
  /\ Contents # {}
  /\ MaxPublications \in Nat

VARIABLES
  article,      \* rows
  snapshots,    \* kb_article_versions
  news,         \* kb.article.published events of the outbox, in order
  kbLinks,      \* kb_ticket_links
  author,       \* API requests in progress
  unsaid        \* history: publications whose event was lost

articleVars == <<article, snapshots, news, kbLinks, author, unsaid>>

\* REVIEW is a status of the schema that nothing ever writes.
ArticleStatus == {"NONE", "DRAFT", "PUBLISHED", "ARCHIVED", "GONE"}

Article == [status : ArticleStatus, number : Nat, slug : Slugs \cup {NoSlug}, content : Contents]

\* exact: what it has is what the article said when it was committed; raced
\* (history): somebody edited the article since the publication read it.
Snapshot == [article : Articles, number : Nat, exact : BOOLEAN, raced : BOOLEAN]

Writing == [op      : {"none", "create", "update", "publish", "archive", "delete", "link"},
            pc      : {"idle", "read", "committed"},
            article : Articles \cup {NoArticle},
            number  : Nat,
            content : Contents,
            slug    : Slugs \cup {NoSlug},
            ticket  : KbTickets \cup {NoKbTicket},
            raced   : BOOLEAN]

ArticleTypeOK ==
  /\ article \in [Articles -> Article]
  /\ snapshots \subseteq Snapshot
  /\ news \in Seq([article : Articles, number : Nat])
  /\ kbLinks \subseteq Articles \X KbTickets
  /\ author \in [Authors -> Writing]
  /\ unsaid \subseteq Articles \X Nat

AnyContent == CHOOSE x \in Contents : TRUE

NoWriting == [op |-> "none", pc |-> "idle", article |-> NoArticle, number |-> 0,
              content |-> AnyContent, slug |-> NoSlug,
              ticket |-> NoKbTicket, raced |-> FALSE]

NoArticleRow == [status |-> "NONE", number |-> 1, slug |-> NoSlug, content |-> AnyContent]

ArticleInit ==
  /\ article = [a \in Articles |-> NoArticleRow]
  /\ snapshots = {}
  /\ news = <<>>
  /\ kbLinks = {}
  /\ author = [c \in Authors |-> NoWriting]
  /\ unsaid = {}

-----------------------------------------------------------------------------
Exists(a) == article[a].status \in {"DRAFT", "PUBLISHED", "ARCHIVED"}      \* findById

SlugTaken(s, but) == \E a \in Articles \ {but} : Exists(a) /\ article[a].slug = s   \* findBySlug

Asks(c, request) == author[c].pc = "idle" /\ author' = [author EXCEPT ![c] = request]

Reached(c, op, pc) == author[c].op = op /\ author[c].pc = pc

Finishes(c) == author' = [author EXCEPT ![c] = NoWriting]

\* createArticle: nobody has the slug ...
CreateRead(c, s, x) ==
  LET free == {a \in Articles : /\ article[a].status = "NONE"
                                /\ \A d \in Authors : author[d].article # a} IN
  /\ free # {}
  /\ ~SlugTaken(s, NoArticle)
  /\ Asks(c, [NoWriting EXCEPT !.op = "create", !.pc = "read", !.slug = s, !.content = x,
                               !.article = CHOOSE a \in free : TRUE])
  /\ UNCHANGED <<article, snapshots, news, kbLinks, unsaid>>

\* ... and still nobody has, says the index, or the request fails.
CreateInsert(c) ==
  LET q == author[c] IN
  /\ Reached(c, "create", "read")
  /\ article' = IF SlugTaken(q.slug, q.article) THEN article
                ELSE [article EXCEPT ![q.article] = [NoArticleRow EXCEPT !.status = "DRAFT",
                                                       !.slug = q.slug, !.content = q.content]]
  /\ Finishes(c)
  /\ UNCHANGED <<snapshots, news, kbLinks, unsaid>>

\* updateArticle: the article exists, and no other one has its new slug.
UpdateRead(c, a, s, x) ==
  /\ Exists(a)
  /\ s \notin {NoSlug, article[a].slug} => ~SlugTaken(s, a)
  /\ Asks(c, [NoWriting EXCEPT !.op = "update", !.pc = "read", !.article = a, !.slug = s,
                               !.content = x])
  /\ UNCHANGED <<article, snapshots, news, kbLinks, unsaid>>

\* An article is edited in any status, a published one in place; publications
\* under way have read what it said before.
UpdateWrite(c) ==
  LET q  == author[c]
      ok == Exists(q.article) /\ ~SlugTaken(q.slug, q.article) IN
  /\ Reached(c, "update", "read")
  /\ article' = IF ok THEN [article EXCEPT ![q.article].content = q.content,
                                           ![q.article].slug = IF q.slug = NoSlug THEN @ ELSE q.slug]
                ELSE article
  /\ author' = [d \in Authors |->
                  IF d = c THEN NoWriting
                  ELSE IF ok /\ Reached(d, "publish", "read") /\ author[d].article = q.article
                  THEN [author[d] EXCEPT !.raced = TRUE]
                  ELSE author[d]]
  /\ UNCHANGED <<snapshots, news, kbLinks, unsaid>>

-----------------------------------------------------------------------------
(* Publication                                                             *)

\* Mutant: a publication always takes the next number.
MutantNextNumber(row) == row.number + 1

\* The first publication takes the number the draft was created with.
NextNumber(row) == IF row.status = "PUBLISHED" THEN row.number + 1 ELSE row.number

\* publishArticle finds the article, whatever its status; the transaction reads it.
PublishRead(c, a) ==
  /\ Exists(a)
  /\ NextNumber(article[a]) <= MaxPublications
  /\ Asks(c, [NoWriting EXCEPT !.op = "publish", !.pc = "read", !.article = a,
                               !.number = NextNumber(article[a]),
                               !.content = article[a].content])
  /\ UNCHANGED <<article, snapshots, news, kbLinks, unsaid>>

Snapshotted(a, n) == \E v \in snapshots : v.article = a /\ v.number = n

\* The snapshot and the article's new status, unless the number is taken or the
\* article gone: then all of it is undone.
PublishCommit(c) ==
  LET q == author[c]
      a == q.article IN
  /\ Reached(c, "publish", "read")
  /\ Exists(a) /\ ~Snapshotted(a, q.number)
  /\ snapshots' = snapshots \cup {[article |-> a, number |-> q.number,
                                   exact |-> q.content = article[a].content, raced |-> q.raced]}
  /\ article' = [article EXCEPT ![a].status = "PUBLISHED", ![a].number = q.number]
  /\ author' = [author EXCEPT ![c].pc = "committed", ![c].raced = FALSE,
                              ![c].content = AnyContent]
  /\ UNCHANGED <<news, kbLinks, unsaid>>

PublishRefused(c) ==
  LET q == author[c] IN
  /\ Reached(c, "publish", "read")
  /\ Exists(q.article) => Snapshotted(q.article, q.number)
  /\ Finishes(c)
  /\ UNCHANGED <<article, snapshots, news, kbLinks, unsaid>>

\* The event, in a statement of its own after the commit.
AnnounceVersion(c) ==
  LET q == author[c] IN
  /\ Reached(c, "publish", "committed")
  /\ news' = Append(news, [article |-> q.article, number |-> q.number])
  /\ Finishes(c)
  /\ UNCHANGED <<article, snapshots, kbLinks, unsaid>>

\* The process dies before, or the event is refused, since its dedupe key has the
\* correlation id a client sends and not the number: nothing announces it later.
NotAnnounced(c) ==
  /\ Reached(c, "publish", "committed")
  /\ unsaid' = unsaid \cup {<<author[c].article, author[c].number>>}
  /\ Finishes(c)
  /\ UNCHANGED <<article, snapshots, news, kbLinks>>

-----------------------------------------------------------------------------
(* Archiving, deletion, links                                              *)

\* The article exists.
LookUp(c, op, a, t) ==
  /\ Exists(a)
  /\ Asks(c, [NoWriting EXCEPT !.op = op, !.pc = "read", !.article = a, !.ticket = t])
  /\ UNCHANGED <<article, snapshots, news, kbLinks, unsaid>>

ArchiveRead(c, a) == LookUp(c, "archive", a, NoKbTicket)

\* By id, whatever its status; an article that is gone is an error.
ArchiveWrite(c) ==
  LET a == author[c].article IN
  /\ Reached(c, "archive", "read")
  /\ article' = IF Exists(a) THEN [article EXCEPT ![a].status = "ARCHIVED"] ELSE article
  /\ Finishes(c)
  /\ UNCHANGED <<snapshots, news, kbLinks, unsaid>>

DeleteRead(c, a) == LookUp(c, "delete", a, NoKbTicket)

\* Snapshots and links go with the article (ON DELETE CASCADE).
DeleteWrite(c) ==
  LET a == author[c].article IN
  /\ Reached(c, "delete", "read")
  /\ article' = [article EXCEPT ![a] = [NoArticleRow EXCEPT !.status = "GONE"]]
  /\ snapshots' = {v \in snapshots : v.article # a}
  /\ kbLinks' = {l \in kbLinks : l[1] # a}
  /\ Finishes(c)
  /\ UNCHANGED <<news, unsaid>>

LinkRead(c, a, t) == LookUp(c, "link", a, t)

LinkWrite(c) ==
  LET q == author[c] IN
  /\ Reached(c, "link", "read")
  /\ kbLinks' = IF Exists(q.article) THEN kbLinks \cup {<<q.article, q.ticket>>} ELSE kbLinks
  /\ Finishes(c)
  /\ UNCHANGED <<article, snapshots, news, unsaid>>

UnlinkTicket(l) ==
  /\ kbLinks' = kbLinks \ {l}
  /\ UNCHANGED <<article, snapshots, news, author, unsaid>>

-----------------------------------------------------------------------------
ArticleNext ==
  \/ \E c \in Authors :
       \/ \E s \in Slugs, x \in Contents : CreateRead(c, s, x)
       \/ \E a \in Articles :
            \/ \E s \in Slugs \cup {NoSlug}, x \in Contents : UpdateRead(c, a, s, x)
            \/ PublishRead(c, a)
            \/ ArchiveRead(c, a)
            \/ DeleteRead(c, a)
            \/ \E t \in KbTickets : LinkRead(c, a, t)
       \/ CreateInsert(c)
       \/ UpdateWrite(c)
       \/ PublishCommit(c) \/ PublishRefused(c) \/ AnnounceVersion(c) \/ NotAnnounced(c)
       \/ ArchiveWrite(c)
       \/ DeleteWrite(c)
       \/ LinkWrite(c)
  \/ \E l \in kbLinks : UnlinkTicket(l)

ArticleSpec == ArticleInit /\ [][ArticleNext]_articleVars

-----------------------------------------------------------------------------
Numbers(a) == {v.number : v \in {w \in snapshots : w.article = a}}

\* The snapshots of an article are numbered without a gap up to the number it
\* has, however publications, edits and archiving overlap; a draft has none,
\* and whatever is published has one.  (So the number an archived article would
\* be published under again is taken: publishing it always fails.)
VersionsAreDense ==
  \A a \in Articles :
    CASE article[a].status \in {"NONE", "DRAFT", "GONE"} -> Numbers(a) = {}
      [] article[a].status = "PUBLISHED" -> Numbers(a) = 1..article[a].number
      [] article[a].status = "ARCHIVED" -> Numbers(a) \in {{}, 1..article[a].number}

\* A snapshot has what the article said when it was published, unless an edit
\* was committed while it was being taken.
SnapshotsAreFaithful == \A v \in snapshots : v.exact \/ v.raced

\* A version is announced once, or else its event was lost after the
\* commit: by a crash, or a correlation id the client had used for this article.
AnnouncedOnce ==
  \A v \in snapshots :
    LET told    == {i \in DOMAIN news : news[i].article = v.article /\ news[i].number = v.number}
        telling == {c \in Authors : /\ Reached(c, "publish", "committed")
                                    /\ author[c].article = v.article
                                    /\ author[c].number = v.number} IN
    /\ \A i, j \in told : i = j
    /\ told = {} <=> telling # {} \/ <<v.article, v.number>> \in unsaid

\* A link leads to an article.
LinksLead == \A l \in kbLinks : Exists(l[1])

\* Publication in the knowledge base (KbArticlesService.publishArticle).
ArticlesSound == VersionsAreDense /\ SnapshotsAreFaithful /\ AnnouncedOnce /\ LinksLead
=============================================================================
