------------------------- MODULE MCDetectionSender -------------------------
(***************************************************************************)
(* Instances of DetectionSender for TLC.  The texts a caller may set are   *)
(* kept to one of each kind: a known mode of each behaviour and an unknown *)
(* one, two URLs with different targets and one that does not parse, a     *)
(* value inside and one outside each numeric range.                        *)
(***************************************************************************)
EXTENDS DetectionSender, TLC

MCModes == KnownSendModes \cup {"carrier_pigeon"}
MCUrls == {"url_a", "url_b", "url_bad"}
MCTargets == {"host_a", "host_b"}
MCParsedUrl == [u \in MCUrls |-> CASE u = "url_a" -> "host_a"
                                   [] u = "url_b" -> "host_b"
                                   [] OTHER       -> Unparsable]
MCRetryCounts == {-1, 0, 1, 2}
MCTimeouts == {0, 1}
MCAuthTypes == {"none", "basic"}
MCFormats == {"jsonl", "csv"}

\* The defaults of declare_parameters_with_defaults.
Defaults ==
  [send_mode |-> "ros_topic", http_endpoint_url |-> "url_a",
   http_timeout_ms |-> 1, http_retry_count |-> 0, http_auth_type |-> "none",
   save_results |-> FALSE, result_output_path |-> EmptyPath,
   result_output_format |-> "jsonl"]

\* Start-up without saving: a parameter file may name any mode and URL, also
\* settings that the constructor refuses.
HttpInitialSettings ==
  {[Defaults EXCEPT !.send_mode = m, !.http_endpoint_url = u] :
     m \in {"ros_topic", "http"}, u \in {"url_a", "url_bad"}}

\* Modes and URL change together or alone; each range is left once.
HttpUpdates ==
  {[send_mode |-> m] : m \in MCModes}
  \cup {[http_endpoint_url |-> u] : u \in MCUrls}
  \cup {[http_retry_count |-> r] : r \in {-1, 0, 1, Int64Max}}
  \cup {[http_timeout_ms |-> 0], [result_output_format |-> "csv"],
        [send_mode |-> "http", http_endpoint_url |-> "url_bad"],
        [send_mode |-> "both", http_endpoint_url |-> "url_b"]}

\* Saving to two files while the mode uses the topic, HTTP or nothing.
WriterInitialSettings ==
  {[Defaults EXCEPT !.save_results = s, !.result_output_path = p] :
     s \in BOOLEAN, p \in Paths \cup {EmptyPath}}

WriterUpdates ==
  {[save_results |-> s] : s \in BOOLEAN}
  \cup {[result_output_path |-> p] : p \in Paths \cup {EmptyPath}}
  \cup {[save_results |-> TRUE, result_output_path |-> p] : p \in Paths}
  \cup {[send_mode |-> m] : m \in {"disabled", "ros_topic", "both"}}

\* A switch to HTTP and back, and one retry: for the runs about the queue and
\* about what must eventually happen.
ModeUpdates ==
  {[send_mode |-> m] : m \in {"ros_topic", "http"}}
  \cup {[http_retry_count |-> 1]}

ModeInitialSettings == {Defaults, [Defaults EXCEPT !.send_mode = "http"]}
=============================================================================
