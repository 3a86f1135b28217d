---------------------------- MODULE MCHttpRequest ----------------------------
(* Requests shorter than the buffer, as long, and longer: GETs with up to    *)
(* three fields, one with an empty field, one behind a stray CRLF, two one   *)
(* after the other, a POST with a body, and another method.                  *)
EXTENDS HttpRequest

MCInitialSize == 17

Blank == <<CR, LF>>
Field == <<"name", ":", "value">> \o Blank
EmptyField == <<"name", ":">> \o Blank

Request(name, fields) == name \o <<"target">> \o Blank \o fields \o Blank

MCRequests ==
  { Request(GET, <<>>), Request(GET, Field), Request(GET, Field \o Field),
    Request(GET, Field \o Field \o Field), Request(GET, Field \o EmptyField),
    Blank \o Request(GET, Field \o Field),
    Request(GET, <<>>) \o Request(GET, <<>>),
    Request(<<"HEAD">>, Field \o Field \o Field),
    Request(POST, Field \o Field) \o <<"body">> }
=============================================================================
