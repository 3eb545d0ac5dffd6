--------------------------- MODULE MCFetchPipeline ---------------------------
(***************************************************************************)
(* FetchPipeline for TLC: two URLs of one origin and one of another, one   *)
(* retry and up to two redirects, so that a retry can come before, between *)
(* and after the redirects and a redirect can cross origins and come back. *)
(***************************************************************************)
EXTENDS FetchPipeline

CONSTANTS a1, a2, b1, originA, originB

MCOriginOf == [u \in {a1, a2, b1} |-> IF u = b1 THEN originB ELSE originA]

(* A GET comes about when a redirect drops the body of a POST. *)
MCStarts ==
    {[url |-> a1, method |-> "HEAD", body |-> "none", hasCookie |-> FALSE],
     [url |-> a1, method |-> "POST", body |-> "bytes", hasCookie |-> TRUE],
     [url |-> a1, method |-> "POST", body |-> "stream", hasCookie |-> FALSE]}

(* Redirects are followed without and with a cookie jar, or are not followed: *)
(* then the user's validateStatus decides, or every status is fine.           *)
Following(redirects, jar) ==
    [limit |-> 1, maxRedirects |-> redirects, retryMethods |-> {"GET", "POST"},
     redirect |-> "follow", cookieJar |-> jar, throwHttpErrors |-> TRUE, validateStatus |-> FALSE]

NotFollowing(mode, validate) ==
    [limit |-> 1, maxRedirects |-> 0, retryMethods |-> {"GET", "HEAD"},
     redirect |-> mode, cookieJar |-> FALSE, throwHttpErrors |-> FALSE, validateStatus |-> validate]

MCOptionSets ==
    {Following(2, FALSE), Following(1, TRUE),
     NotFollowing("manual", FALSE), NotFollowing("error", TRUE)}
=============================================================================
