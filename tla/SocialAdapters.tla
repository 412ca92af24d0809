---------------------------- MODULE SocialAdapters ---------------------------
(***************************************************************************)
(* What becomes of a raw item of an actor or of the X API: the adapters of *)
(* mapear_social/adapters and the parser of mapear_social/pipeline.  A raw *)
(* item is a function from its keys; "" stands for any falsy value, and    *)
(* every value but a list, a nested object or a count is a string.         *)
(***************************************************************************)
EXTENDS Integers, Sequences, FiniteSets
LOCAL SeqExt == INSTANCE SequencesExt
LOCAL INSTANCE TLC

CONSTANTS
  TimeOf,     \* a timestamp as written |-> its time; others cannot be read
  UserInUrl,  \* an Instagram URL |-> the user it names, as far as it does
  PageInUrl   \* a Facebook URL |-> the page it names, as far as it does

Has(raw, key) == key \in DOMAIN raw
Get(raw, key) == IF Has(raw, key) THEN raw[key] ELSE ""

\* raw.get(k1) or raw.get(k2) or ...
FirstOf(raw, keys) ==
  LET set == SelectSeq(keys, LAMBDA k : Get(raw, k) # "")
  IN IF set = <<>> THEN "" ELSE raw[Head(set)]

\* The count under the first of the keys that has one; a missing count is 0,
\* as it is where the counts are added up.
FirstInt(raw, keys) ==
  LET set == SelectSeq(keys, LAMBDA k : Has(raw, k))
  IN IF set = <<>> THEN 0 ELSE raw[Head(set)]

Lacks(raw, required) == ~(required \subseteq DOMAIN raw)

Refused(reason) == [reason |-> reason]
IsPost(answer) == "post_id" \in DOMAIN answer

\* post_id is namespaced by platform; content_hash covers platform, id and
\* text.  A timestamp that cannot be read raises something else than drift.
Post(platform, id, url, handle, display, verified, text, stamp, engagement) ==
  IF stamp \notin DOMAIN TimeOf THEN Refused("parse_error")
  ELSE [post_id |-> <<platform, id>>, platform |-> platform, url |-> url,
        content_hash |-> <<platform, id, text>>, handle |-> handle, display |-> display,
        verified |-> verified, text |-> text, published_at |-> TimeOf[stamp],
        engagement |-> engagement]

-----------------------------------------------------------------------------
\* Instagram
PostSignals ==
  {"shortCode", "shortcode", "postId", "pk", "igId", "mediaId", "graphId", "caption",
   "description", "captionText", "likesCount", "likeCount", "commentsCount", "commentCount",
   "type", "mediaType", "isVideo", "id", "timestamp", "takenAt", "takenAtTimestamp",
   "isoDate", "ownerUsername", "username", "ownerName"}

\* A field takes the value of the first alias that is there.
Alias(raw, field, aliases) ==
  LET there == SelectSeq(aliases, LAMBDA k : Has(raw, k))
  IN IF Has(raw, field) \/ there = <<>> THEN raw ELSE raw @@ (field :> raw[Head(there)])

\* ... or of the first nested object that says it.
Nested(raw, field, inner) ==
  LET saying == SelectSeq(<<"ownerProfile", "author", "owner", "user">>,
                          LAMBDA p : Has(raw, p) /\ FirstOf(raw[p], inner) # "")
  IN IF Has(raw, field) \/ saying = <<>> THEN raw
     ELSE raw @@ (field :> FirstOf(raw[Head(saying)], inner))

WithId(raw) ==
  Alias(raw, "id", <<"shortCode", "shortcode", "postId", "post_id", "pk", "igId", "mediaId",
                     "code", "graphId">>)

WithUrl(raw) ==
  LET named == Alias(raw, "url", <<"postUrl", "post_url", "permalink", "link">>)
      of == FirstOf(raw, <<"shortCode", "shortcode", "id">>)
  IN IF Has(named, "url") \/ of = "" THEN named ELSE named @@ ("url" :> of)

WithTimestamp(raw) ==
  Alias(raw, "timestamp",
        <<"takenAt", "takenAtTimestamp", "taken_at", "createdAt", "created_at", "postedAt",
          "posted_at", "publishedAt", "published_at", "isoDate", "date", "datetime">>)

ExtractIgUsername(url) == IF url \in DOMAIN UserInUrl THEN UserInUrl[url] ELSE ""

WithOwner(raw) ==
  LET flat == Alias(raw, "ownerUsername", <<"username", "authorUsername", "author_username",
                                            "ownerName", "queryUsername", "handle", "userName">>)
      nested == Nested(flat, "ownerUsername", <<"username", "userName", "handle">>)
      urls == SelectSeq(<<"url", "inputUrl", "postUrl", "profileUrl", "pageUrl">>,
                        LAMBDA k : ExtractIgUsername(Get(raw, k)) # "")
  IN IF Has(nested, "ownerUsername") \/ urls = <<>> THEN nested
     ELSE nested @@ ("ownerUsername" :> ExtractIgUsername(raw[Head(urls)]))

MediaType ==
  [IMAGE |-> "Image", VIDEO |-> "Video", CAROUSEL_ALBUM |-> "Sidecar", CLIPS |-> "Reel",
   REEL |-> "Reel", GRAPHIMAGE |-> "Image", GRAPHVIDEO |-> "Video", GRAPHSIDECAR |-> "Sidecar"]
TypeOf(raw) ==
  IF Get(raw, "type") # "" THEN raw["type"]
  ELSE IF Get(raw, "mediaType") \in DOMAIN MediaType THEN MediaType[raw["mediaType"]]
  ELSE IF Get(raw, "isVideo") # "" THEN "Video" ELSE ""

\* Reactions, display name, verified, caption.
WithDetails(raw) ==
  LET counted == Alias(Alias(raw, "likesCount", <<"likeCount", "likes", "likes_count", "likesNumber">>),
                       "commentsCount", <<"commentCount", "comments", "comments_count", "commentsNumber">>)
      named == Nested(Alias(counted, "ownerFullName", <<"ownerName", "fullName", "full_name", "name">>),
                      "ownerFullName", <<"full_name", "fullName", "name">>)
      checked == Nested(Alias(named, "ownerVerified", <<"isVerified", "verified", "is_verified">>),
                        "ownerVerified", <<"is_verified", "verified">>)
  IN Alias(checked, "caption", <<"description", "text", "body", "captionText">>)

NormalizeRaw(raw) == WithDetails(WithOwner(WithTimestamp(WithUrl(WithId(raw)))))

InstagramPost(item, raw) ==
  IF DOMAIN item \cap PostSignals = {} \/ ~Has(raw, "id") THEN Refused("non_post_item")
  ELSE IF Lacks(raw, {"id", "url", "timestamp", "ownerUsername"}) THEN Refused("schema_drift")
  ELSE IF TypeOf(raw) \notin {"", "Image", "Sidecar", "Video", "Reel"} THEN Refused("non_post_item")
  ELSE Post("instagram", raw["id"], raw["url"], raw["ownerUsername"],
            FirstOf(raw, <<"ownerFullName", "ownerUsername">>), Get(raw, "ownerVerified") # "",
            Get(raw, "caption"), raw["timestamp"],
            FirstInt(raw, <<"likesCount">>) + FirstInt(raw, <<"commentsCount">>))
ParseInstagram(item) == InstagramPost(item, NormalizeRaw(item))

\* A profile's posts inherit its name and badge where they have none.
ExpandItems(items) ==
  LET posts(item) ==
        [k \in DOMAIN item["latestPosts"] |->
           LET post == item["latestPosts"][k]
               named == IF DOMAIN post \cap {"ownerUsername", "username"} # {} THEN post
                        ELSE post @@ ("username" :> Get(item, "username"))
           IN IF DOMAIN post \cap {"ownerVerified", "isVerified", "verified"} # {} THEN named
              ELSE named @@ ("ownerVerified" :> FirstOf(item, <<"isVerified", "verified">>))]
      expand(item) == IF Has(item, "latestPosts") THEN posts(item) ELSE <<item>>
  IN SeqExt!FlattenSeq([i \in DOMAIN items |-> expand(items[i])])

-----------------------------------------------------------------------------
\* Facebook
FacebookTimes == <<"time", "timestamp", "publishTime">>

PageHandleFrom(raw) ==
  IF Get(raw, "pageUrl") # "" THEN PageInUrl[raw["pageUrl"]]
  ELSE IF Get(raw, "url") \in DOMAIN PageInUrl THEN PageInUrl[raw["url"]]
  ELSE IF Get(raw, "pageName") # "" THEN raw["pageName"]
  ELSE IF Has(raw, "user") THEN Get(raw["user"], "name") ELSE ""

\* A page that is gone or private is told apart from drift.
ParseFacebook(raw) ==
  LET user == IF Has(raw, "user") THEN Get(raw["user"], "name") ELSE ""
      display == FirstOf([pageName |-> Get(raw, "pageName"), userName |-> Get(raw, "userName"),
                          user |-> user, page |-> PageHandleFrom(raw)],
                         <<"pageName", "userName", "user", "page">>)
  IN IF Has(raw, "error") /\ ~Has(raw, "postId")
     THEN Refused(IF raw["error"] = "not_available" THEN "page_unavailable" ELSE "non_post_item")
     ELSE IF Lacks(raw, {"postId", "url"}) \/ FirstOf(raw, FacebookTimes) = ""
     THEN Refused("schema_drift")
     ELSE Post("facebook", raw["postId"], raw["url"], PageHandleFrom(raw), display,
               FirstOf(raw, <<"pageVerified", "isVerified">>) # "", Get(raw, "text"),
               FirstOf(raw, FacebookTimes),
               FirstInt(raw, <<"likes", "likesCount">>) + FirstInt(raw, <<"comments", "commentsCount">>)
               + FirstInt(raw, <<"shares", "sharesCount">>))

-----------------------------------------------------------------------------
\* TikTok: an item that is not there, and an advertisement, are no posts.
ParseTikTok(raw) ==
  LET author == raw["authorMeta"]
      handle == FirstOf(author, <<"uniqueId", "name">>)
      nick == FirstOf(author, <<"nickName", "name">>)
  IN IF \/ Has(raw, "noResults")
        \/ (Has(raw, "note") \/ Has(raw, "error")) /\ ~Has(raw, "id")
     THEN Refused("non_post_item")
     ELSE IF Lacks(raw, {"id", "webVideoUrl", "authorMeta"}) THEN Refused("schema_drift")
     ELSE IF FirstOf(raw, <<"isSponsored", "isAd">>) # "" THEN Refused("non_post_item")
     ELSE IF FirstOf(raw, <<"createTimeISO", "createTime">>) = "" THEN Refused("schema_drift")
     ELSE Post("tiktok", raw["id"], raw["webVideoUrl"], handle, IF nick = "" THEN handle ELSE nick,
               Get(author, "verified") # "", Get(raw, "text"),
               FirstOf(raw, <<"createTimeISO", "createTime">>),
               FirstInt(raw, <<"diggCount">>) + FirstInt(raw, <<"commentCount">>)
               + FirstInt(raw, <<"shareCount">>))

\* X: a tweet, with the account it was asked of under "account".  What is not
\* drift ends the run, so the time of a tweet is one that can be read.
ParseTweet(raw) ==
  IF Lacks(raw, {"id", "text", "created_at"}) THEN Refused("schema_drift")
  ELSE LET account == raw["account"]
           counts == IF Has(raw, "public_metrics") THEN raw["public_metrics"] ELSE <<>>
       IN Post("x", raw["id"], raw["id"], Get(account, "username"),
               FirstOf(account, <<"name", "username">>), Get(account, "verified") # "",
               raw["text"], raw["created_at"],
               FirstInt(counts, <<"like_count">>) + FirstInt(counts, <<"reply_count">>)
               + FirstInt(counts, <<"retweet_count">>))

-----------------------------------------------------------------------------
\* _parse_social_posts: one bad item does not end the run.  An item of one or
\* two keys is never given to an adapter.
Answer(platform, raw) ==
  IF platform = "x" THEN ParseTweet(raw)
  ELSE IF Cardinality(DOMAIN raw) <= 2 THEN Refused("non_post_item")
  ELSE CASE platform = "instagram" -> ParseInstagram(raw)
         [] platform = "facebook" -> ParseFacebook(raw)
         [] platform = "tiktok" -> ParseTikTok(raw)

Parsed(platform, items) ==
  LET answers(of) == [i \in DOMAIN of |-> Answer(platform, of[i])]
  IN answers(IF platform = "instagram" THEN ExpandItems(items) ELSE items)
PostsOf(answers) == SelectSeq(answers, IsPost)

\* _dedup_intra_batch: pages of one dataset may repeat an item.
Repeated(posts) == posts
DedupIntraBatch(posts) ==
  LET first == {i \in DOMAIN posts : \A j \in 1..(i - 1) : posts[j].post_id # posts[i].post_id}
  IN [k \in 1..Cardinality(first) |->
        posts[CHOOSE i \in first : Cardinality({j \in first : j <= i}) = k]]
=============================================================================
