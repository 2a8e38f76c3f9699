------------------------------ MODULE Browser ------------------------------
(***************************************************************************)
(* The oct:// browser (BrowserPanel, browser/ modules): pages of circles   *)
(* are fetched from the node, made self-contained and shown in a sandboxed *)
(* frame.  Rendering is asynchronous and is never cancelled: every step    *)
(* that uses an answer of the node is an action, and the user goes on      *)
(* meanwhile.  A page is the sequence of the references in it.             *)
(***************************************************************************)
EXTENDS Filters, SequencesExt

CONSTANTS
  Circles,      \* circles that the node knows
  SealedOnes,   \* those in mode sealed_read
  Documents,    \* [path -> the references of the HTML or CSS asset there]
  Styles,       \* paths that are served as text/css
  Programs,     \* paths that are served as scripts
  TypedAddresses, \* addresses that are typed
  Favourites,   \* bound: the pages that may be bookmarked
  MaxFrameScripts, \* MAX_FRAME_SCRIPTS, scaled down
  MaxRenders    \* bound: pages asked for

ASSUME BrowserAssumption ==
  /\ SealedOnes \subseteq Circles /\ "none" \notin Circles
  /\ MaxRenders \in Nat \ {0} /\ MaxFrameScripts \in Nat
  /\ Styles \cup Programs \subseteq DOMAIN Documents

VARIABLES
  history,     \* nav.history
  index,       \* nav.index, from one on: 0 = nothing visited
  frame,       \* the page on the screen, or NoFrame
  bridgeToken, \* bridgeTokenRef: the render whose links are followed
  render,      \* the renders asked for
  passphrase,  \* passphraseRef: what was typed for a circle, if anything
  needPass,    \* the passphrase prompt is on the screen
  pendingTarget, \* and the page it was asked for
  loadingPage,
  bookmarks,   \* browser-bookmarks
  listed       \* the bookmarks the panel knows of

browser_vars == <<history, index, frame, bridgeToken, render, passphrase, needPass,
                  pendingTarget, loadingPage, bookmarks, listed>>

RenderIds == 1..MaxRenders

-----------------------------------------------------------------------------
(* Addresses.  A path is a sequence of segments, percent-decoded.          *)

Segments == Seq(STRING)
Paths == DOMAIN Documents
NoPath == <<"..">>

\* Empty and "." segments are dropped; any ".." makes the path unusable.
CanonicalAssetPath(segs) ==
  IF ".." \in ToSet(segs) THEN NoPath ELSE Filtered(segs, {i \in DOMAIN segs : segs[i] \notin {"", "."}})

Target(c, p) == [circle |-> c, path |-> p]
NoTarget == Target("none", <<>>)

\* parseCircleUri: null unless the circle is well-formed and the path canonical.
ParseCircleUri(t) ==
  IF t.circle = "none" \/ CanonicalAssetPath(t.path) = NoPath THEN NoTarget
  ELSE Target(t.circle, CanonicalAssetPath(t.path))

\* parseCircleTarget of what is typed: what does not parse is taken for the id of a circle,
\* one that no node knows.
ParseCircleTarget(t) ==
  IF ParseCircleUri(t) # NoTarget THEN ParseCircleUri(t) ELSE Target("none", <<"index.html">>)

\* What a reference says: somewhere in the circle (".." climbs, and stops at the root),
\* another circle, data:, #fragment or nothing, or an address elsewhere.
Kinds == {"relative", "circle", "data", "fragment", "empty", "remote"}

IsBlockedRemoteSpec(spec) == spec.kind = "remote"
IsDataSpec(spec) == spec.kind = "data"
SpecTarget(spec) == Target(spec.circle, spec.to)   \* of one of kind "circle"

\* resolveCirclePath, as the URL class resolves it: an oct:// address is absolute, and only
\* its path is left.
ResolveCirclePath(base, spec) ==
  FoldLeft(LAMBDA path, s : CASE s = ".."       -> IF path = <<>> THEN path ELSE Front(path)
                              [] s \in {"", "."} -> path
                              [] OTHER           -> Append(path, s),
           IF base = <<>> \/ spec.kind = "circle" THEN <<>> ELSE Front(base), spec.to)

-----------------------------------------------------------------------------
(* materializeHtml.                                                        *)

\* Where a reference stands.  Some places the pass does not look at, and what is there
\* stays as it is written: a <meta> refresh, an <area>, and whatever else a page may load
\* (srcset, a style attribute, href in an svg, an @import with a media query).  The policy
\* of injectFramePolicy refuses such loads; it has no say in where a refresh or a link leads.
Untouched == {"refresh", "area", "unread"}
Slots == {"base", "import", "url", "stylesheet", "link", "script", "inline", "src", "poster", "a", "form"}
           \cup Untouched

Specs == [kind : Kinds, circle : STRING, to : Segments]

\* What is at a path is a list of references, and what is typed is an address.
ASSUME DocumentsAssumption ==
  /\ \A p \in Paths : p \in Segments /\ Documents[p] \in Seq([slot : Slots, spec : Specs])
  /\ TypedAddresses \subseteq [circle : STRING, path : Segments]

Bare(kind) == [kind |-> kind, circle |-> "none", to |-> <<>>]
Link(t)     == [kind |-> "circle", circle |-> t.circle, to |-> t.path]

\* Which references the node is asked for.  A stylesheet and a script are loaded from data:
\* and # as if they were paths, which fails, and so are most others from #.
Fetched(ref) ==
  CASE ref.spec.kind \in {"relative", "circle"} -> ref.slot \notin {"a", "form"} \cup Untouched
    [] ref.spec.kind = "data"     -> ref.slot \in {"stylesheet", "script"}
    [] ref.spec.kind = "fragment" -> ref.slot \in {"import", "url", "stylesheet", "link", "script", "src", "poster"}
    [] OTHER                      -> FALSE

\* rewriteInternalAnchor: an oct:// address that does not parse, because its circle is
\* malformed or its path climbs, leads into the circle of the page itself.
RewriteInternalAnchor(circle, base, spec) ==
  CASE spec.kind \in {"empty", "fragment", "data"} -> spec
    [] IsBlockedRemoteSpec(spec) -> Bare("fragment")
    [] OTHER -> LET parsed == ParseCircleUri(SpecTarget(spec))
                IN Link(IF spec.kind = "circle" /\ parsed # NoTarget THEN parsed
                        ELSE Target(circle, ResolveCirclePath(base, spec)))

\* What stays where the node is not asked: of an icon or another link, of an image, of a
\* poster (remote ones are emptied), of a url() in a style (a remote one becomes an empty
\* data: URL), and of an imported style, a stylesheet and a script (nothing).
LeftLink(spec)   == IF IsBlockedRemoteSpec(spec) THEN Bare("empty") ELSE spec
LeftSrc(spec)    == IF IsBlockedRemoteSpec(spec) THEN Bare("empty") ELSE spec
LeftPosterAsIs(spec) == spec     \* Mutant: a remote poster stays.
LeftPoster(spec) == IF IsBlockedRemoteSpec(spec) THEN Bare("empty") ELSE spec
LeftUrl(spec)    == IF IsBlockedRemoteSpec(spec) THEN Bare("data") ELSE spec

LeftInPlace(circle, base, ref) ==
  CASE ref.slot = "a"      -> RewriteInternalAnchor(circle, base, ref.spec)
    [] ref.slot = "form"   -> Bare("fragment")
    [] ref.slot = "link"   -> LeftLink(ref.spec)
    [] ref.slot = "src"    -> LeftSrc(ref.spec)
    [] ref.slot = "poster" -> LeftPoster(ref.spec)
    [] ref.slot = "url"    -> LeftUrl(ref.spec)
    [] ref.slot = "inline" -> Bare("data")
    [] ref.slot \in Untouched -> ref.spec
    [] OTHER               -> Bare("empty")

\* A slot takes what it loads only as what it is: CSS as a style, a script as a script;
\* both become part of the document, anything else a data: URL.
TakesType(slot, path) ==
  CASE slot = "stylesheet" -> path \in Styles
    [] slot = "script"     -> path \in Programs
    [] OTHER               -> TRUE


\* materializeCss of what was loaded: its references are next, unless it is being expanded
\* further out already.
Nested(ref, path) ==
  IF ref.slot \in {"import", "stylesheet"} /\ path \notin ref.seen
    THEN [i \in 1..Len(Documents[path]) |-> [slot |-> Documents[path][i].slot, spec |-> Documents[path][i].spec,
                                             base |-> path, seen |-> ref.seen \cup {path}]]
    ELSE <<>>

-----------------------------------------------------------------------------
(* render                                                                  *)

NotAsked == [pc |-> "free", target |-> NoTarget, push |-> FALSE, pass |-> "none", todo |-> <<>>, done |-> {},
             scripts |-> 0]
NoFrame  == [target |-> NoTarget, by |-> 0, sandbox |-> {}, refs |-> {}]

BrowserInit ==
  /\ history = <<>> /\ index = 0 /\ frame = NoFrame /\ bridgeToken = 0
  /\ render = [r \in RenderIds |-> NotAsked]
  /\ passphrase = [c \in Circles |-> "none"] /\ needPass = FALSE /\ pendingTarget = NoTarget
  /\ loadingPage = FALSE /\ bookmarks = {} /\ listed = {}

FreeRenders == {r \in RenderIds : render[r].pc = "free"}

\* The start of render(): octra circle_info is asked for.
StartRender(target, push) ==
  /\ \E r \in FreeRenders :
       /\ \A q \in FreeRenders : r <= q
       /\ render' = [render EXCEPT ![r] = [NotAsked EXCEPT !.pc = "info", !.target = target, !.push = push]]
  /\ loadingPage' = TRUE /\ needPass' = FALSE

RenderOver(r) == render' = [render EXCEPT ![r] = [NotAsked EXCEPT !.pc = "over"]] /\ loadingPage' = FALSE

\* Whatever fails shows its error in place of the page.
Fails(r) ==
  /\ RenderOver(r) /\ frame' = NoFrame
  /\ UNCHANGED <<history, index, bridgeToken, passphrase, needPass, pendingTarget, bookmarks, listed>>

IsSealedMode(c) == c \in SealedOnes

\* circle_info answered: a sealed circle needs a passphrase first.
FetchCircleInfo(r) ==
  LET c == render[r].target.circle IN
  /\ render[r].pc = "info"
  /\ \/ Fails(r)
     \/ /\ c \in Circles
        /\ IF IsSealedMode(c) /\ passphrase[c] = "none"
             THEN /\ RenderOver(r) /\ pendingTarget' = render[r].target /\ needPass' = TRUE
             ELSE /\ render' = [render EXCEPT ![r].pc = "entry",
                                              ![r].pass = IF IsSealedMode(c) THEN passphrase[c] ELSE "none"]
                  /\ UNCHANGED <<pendingTarget, needPass, loadingPage>>
        /\ UNCHANGED <<history, index, frame, bridgeToken, passphrase, bookmarks, listed>>

\* The key that a passphrase gives for a circle, and that the owner sealed its assets with.
ReadKey(circle, word) == <<circle, word>>

\* decryptSealedBytes: only under the right key, and only what hashes to what was sealed.
DecryptSealed(circle, word) == ReadKey(circle, word) = ReadKey(circle, "right")

\* What the node serves is the asset that was asked for, within its limit, or is refused.
FetchPublicAsset(circle, path) == circle \in Circles \ SealedOnes /\ path \in Paths
FetchSealedAsset(circle, path, word) == path \in Paths /\ DecryptSealed(circle, word)

Loads(r, path) ==
  LET c == render[r].target.circle
  IN IF c \in SealedOnes THEN FetchSealedAsset(c, path, render[r].pass) ELSE FetchPublicAsset(c, path)

\* injectFramePolicy: a base of the page's own would redirect every path, so it goes first.
InjectFramePolicy(refs) == Filtered(refs, {i \in DOMAIN refs : refs[i].slot # "base"})

\* An HTML document; anything else is shown as an image or as text.
AtTop(path) ==
  IF path \in Styles \cup Programs THEN <<>>
  ELSE LET refs == InjectFramePolicy(Documents[path])
       IN [i \in 1..Len(refs) |-> [slot |-> refs[i].slot, spec |-> refs[i].spec, base |-> path, seen |-> {path}]]

\* The entry document is there; from now on only its links are followed, although the page
\* on the screen is still the one before.
EntryArrives(r) ==
  /\ render[r].pc = "entry"
  /\ \/ Fails(r)
     \/ /\ Loads(r, render[r].target.path)
        /\ render' = [render EXCEPT ![r].pc = "inline", ![r].todo = AtTop(render[r].target.path)]
        /\ bridgeToken' = r
        /\ UNCHANGED <<history, index, frame, passphrase, needPass, pendingTarget, loadingPage, bookmarks, listed>>

\* Every executable script in the page itself counts, each one for itself.
InlineScripts(ref) == IF ref.slot = "inline" THEN 1 ELSE 0

\* One reference: it is rewritten in place or loaded and inlined.
Materialize(r) ==
  LET job  == render[r]
      ref  == Head(job.todo)
      path == ResolveCirclePath(ref.base, ref.spec)
  IN
  /\ job.pc = "inline" /\ job.todo # <<>>
  /\ IF ~Fetched(ref)
       THEN /\ render' = [render EXCEPT ![r].todo = Tail(@), ![r].scripts = @ + InlineScripts(ref),
                  ![r].done = @ \cup {[slot |-> ref.slot, spec |-> LeftInPlace(job.target.circle, ref.base, ref)]}]
            /\ UNCHANGED <<history, index, frame, bridgeToken, passphrase, needPass, pendingTarget,
                           loadingPage, bookmarks, listed>>
       ELSE \/ Fails(r)
            \/ /\ ref.spec.kind \in {"relative", "circle"} /\ Loads(r, path) /\ TakesType(ref.slot, path)
               /\ render' = [render EXCEPT ![r].todo = Nested(ref, path) \o Tail(@),
                                           ![r].scripts = @ + (IF ref.slot = "script" THEN 1 ELSE 0)]
               /\ UNCHANGED <<history, index, frame, bridgeToken, passphrase, needPass, pendingTarget,
                              loadingPage, bookmarks, listed>>

\* encodeFrameScripts: a page with too many scripts, the prelude among them, is refused.
EncodeFrameScripts(r) == 1 + render[r].scripts <= MaxFrameScripts

Refused(r) == render[r].pc = "inline" /\ render[r].todo = <<>> /\ ~EncodeFrameScripts(r) /\ Fails(r)

\* Forms may be used on public pages only.
SandboxFor(circle) == {"allow-scripts"} \cup (IF circle \in SealedOnes THEN {} ELSE {"allow-forms"})

\* The document is complete.  A push cuts what was ahead in the history.
Show(r) ==
  /\ render[r].pc = "inline" /\ render[r].todo = <<>> /\ EncodeFrameScripts(r)
  /\ frame' = [target |-> render[r].target, by |-> r, sandbox |-> SandboxFor(render[r].target.circle),
               refs |-> render[r].done]
  /\ IF render[r].push
       THEN history' = Append(SubSeq(history, 1, index), render[r].target) /\ index' = index + 1
       ELSE UNCHANGED <<history, index>>
  /\ RenderOver(r)
  /\ UNCHANGED <<bridgeToken, passphrase, needPass, pendingTarget, bookmarks, listed>>

RenderStep(r) == FetchCircleInfo(r) \/ EntryArrives(r) \/ Materialize(r) \/ Refused(r) \/ Show(r)

-----------------------------------------------------------------------------
(* The user.                                                               *)

\* Enter in the address bar works also while a page is loading; so do bookmarks.
Go(t) ==
  /\ StartRender(ParseCircleTarget(t), TRUE)
  /\ UNCHANGED <<history, index, frame, bridgeToken, passphrase, pendingTarget, bookmarks, listed>>

Back ==
  /\ index > 1 /\ index' = index - 1 /\ StartRender(history[index - 1], FALSE)
  /\ UNCHANGED <<history, frame, bridgeToken, passphrase, pendingTarget, bookmarks, listed>>

Forward ==
  /\ index > 0 /\ index < Len(history) /\ index' = index + 1 /\ StartRender(history[index + 1], FALSE)
  /\ UNCHANGED <<history, frame, bridgeToken, passphrase, pendingTarget, bookmarks, listed>>

Reload ==
  /\ index > 0 /\ ~loadingPage /\ StartRender(history[index], FALSE)
  /\ UNCHANGED <<history, index, frame, bridgeToken, passphrase, pendingTarget, bookmarks, listed>>

\* The links of the page on the screen that the prelude in it takes over.
PreludeLinks == {ref \in frame.refs : ref.slot = "a" /\ ref.spec.kind = "circle"}

\* A click on one; its message carries the token of the page.
FollowLink(ref) ==
  /\ frame.by = bridgeToken
  /\ ParseCircleUri(SpecTarget(ref.spec)) # NoTarget /\ StartRender(ParseCircleUri(SpecTarget(ref.spec)), TRUE)
  /\ UNCHANGED <<history, index, frame, bridgeToken, passphrase, pendingTarget, bookmarks, listed>>

\* The passphrase is kept, right or wrong, and the page is a new entry of the history.
SubmitPassphrase(word) ==
  /\ needPass
  /\ passphrase' = [passphrase EXCEPT ![pendingTarget.circle] = word]
  /\ StartRender(pendingTarget, TRUE)
  /\ UNCHANGED <<history, index, frame, bridgeToken, pendingTarget, bookmarks, listed>>

\* toggleBookmark writes what the star showed, whatever the store holds by then.
ToggleBookmark ==
  /\ index > 0 /\ history[index] \in Favourites
  /\ bookmarks' = IF history[index] \in listed THEN bookmarks \ {history[index]} ELSE bookmarks \cup {history[index]}
  /\ UNCHANGED <<history, index, frame, bridgeToken, render, passphrase, needPass, pendingTarget, loadingPage, listed>>

RemoveBookmark(t) ==
  /\ t \in listed /\ bookmarks' = bookmarks \ {t}
  /\ UNCHANGED <<history, index, frame, bridgeToken, render, passphrase, needPass, pendingTarget, loadingPage, listed>>

RefreshBookmarks ==
  /\ listed # bookmarks /\ listed' = bookmarks
  /\ UNCHANGED <<history, index, frame, bridgeToken, render, passphrase, needPass, pendingTarget, loadingPage, bookmarks>>

BrowserNext ==
  \/ \E r \in RenderIds : RenderStep(r)
  \/ \E t \in TypedAddresses : Go(t)
  \/ Back \/ Forward \/ Reload \/ ToggleBookmark \/ RefreshBookmarks
  \/ \E ref \in PreludeLinks : FollowLink(ref)
  \/ \E word \in {"right", "wrong"} : SubmitPassphrase(word)
  \/ \E t \in listed : RemoveBookmark(t)

\* Every request of a render ends by itself or by its time-out.
BrowserFairness == \A r \in RenderIds : WF_browser_vars(RenderStep(r))

BrowserSpec == BrowserInit /\ [][BrowserNext]_browser_vars /\ BrowserFairness

-----------------------------------------------------------------------------
BrowserTypeOK ==
  /\ index \in 0..Len(history) /\ bridgeToken \in 0..MaxRenders
  /\ passphrase \in [Circles -> {"none", "right", "wrong"}] /\ {needPass, loadingPage} \subseteq BOOLEAN
  /\ \A r \in RenderIds : render[r].pc \in {"free", "info", "entry", "inline", "over"}

\* Of the references that the pass looks at, and whatever their nesting, no page on the
\* screen has one that leads anywhere but into a circle: what is left of them is in the
\* document itself, or a link to a circle whose path does not climb.
FrameIsClosed ==
  \A ref \in frame.refs : ref.slot \notin Untouched =>
    /\ ref.spec.kind \notin {"remote", "relative"}
    /\ ref.spec.kind = "circle" /\ ref.slot = "a" => ParseCircleUri(SpecTarget(ref.spec)) # NoTarget

\* Not so: the links of a page are rewritten and intercepted, so that the panel drives
\* navigation.  An <area> is a link too, and the pass and the prelude know <a> only.
HostDrivesNavigation ==
  \A ref \in frame.refs : ref.slot \in {"a", "area"} =>
    ref \in PreludeLinks \/ ref.spec.kind \in {"empty", "fragment", "data"}


\* What is on the screen is the current entry of the history.  (Not so: of two pages asked
\* for one after the other, the one that is ready last stays.)
FrameIsCurrent ==
  (\A r \in RenderIds : render[r].pc \in {"free", "over"}) /\ frame # NoFrame => frame.target = history[index]
=============================================================================
