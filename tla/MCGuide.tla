------------------------------ MODULE MCGuide ------------------------------
(***************************************************************************)
(* Manifests for TLC: examples with an object in an object, a list of      *)
(* objects, a list as the whole response, nulls of both kinds, and bodies  *)
(* with a list and with an inherited class.                                *)
(***************************************************************************)
EXTENDS GuideProperties, TLC

\* node: kind, key, items
MCDoc == [
  \* the envelope of Auth with a token in it, old and new
  env   |-> <<"dict", "", <<<<"code", "data">>>>>>,
  code  |-> <<"text", "code", <<>>>>,
  data  |-> <<"dict", "data", <<<<"token", "mail">>>>>>,
  token |-> <<"text", "token", <<>>>>,
  mail  |-> <<"text", "mail", <<>>>>,
  env2  |-> <<"dict", "", <<<<"data2", "code2">>>>>>,
  data2 |-> <<"dict", "data", <<<<"token2", "done2">>>>>>,
  token2 |-> <<"text", "token", <<>>>>,
  done2 |-> <<"null", "done", <<>>>>,
  code2 |-> <<"text", "code", <<>>>>,
  \* an account with a list of transactions; a cursor that is null
  acct  |-> <<"dict", "", <<<<"hist", "cursor", "bank">>>>>>,
  hist  |-> <<"list", "history", <<<<"txId", "amount">>, <<"other">>>>>>,
  txId  |-> <<"number", "transactionId", <<>>>>,
  amount |-> <<"number", "amount", <<>>>>,
  other |-> <<"number", "other", <<>>>>,
  cursor |-> <<"null", "cursor", <<>>>>,
  bank  |-> <<"text", "bankName", <<>>>>,
  \* a recap whose best category is null; lists without objects
  recap |-> <<"dict", "", <<<<"cats", "top", "notes">>>>>>,
  cats  |-> <<"list", "categories", <<<<"cat", "share">>>>>>,
  cat   |-> <<"text", "code", <<>>>>,
  share |-> <<"null", "share", <<>>>>,
  top   |-> <<"null", "top", <<<<"topCat", "topShare">>>>>>,
  topCat |-> <<"text", "code", <<>>>>,
  topShare |-> <<"number", "share", <<>>>>,
  notes |-> <<"list", "notes", <<<<>>>>>>,
  \* a list as the whole response; an operator's answer; an unexplained field
  schools |-> <<"list", "", <<<<"school">>>>>>,
  school |-> <<"number", "id", <<>>>>,
  schools2 |-> <<"list", "", <<<<"school2">>, <<"school3">>>>>>,
  school2 |-> <<"number", "id", <<>>>>,
  school3 |-> <<"number", "id", <<>>>>,
  block |-> <<"dict", "", <<<<"blocked">>>>>>,
  blocked |-> <<"text", "blocked", <<>>>>,
  odd   |-> <<"dict", "", <<<<"oddity">>>>>>,
  oddity |-> <<"text", "oddity", <<>>>>,
  \* bodies
  login |-> <<"dict", "", <<<<"pin">>>>>>,
  pin   |-> <<"text", "pin", <<>>>>,
  adjust |-> <<"dict", "", <<<<"delta", "income", "answers">>>>>>,
  delta |-> <<"text", "delta", <<>>>>,
  income |-> <<"text", "income", <<>>>>,
  answers |-> <<"list", "answers", <<<<"answer">>>>>>,
  answer |-> <<"null", "code", <<>>>>]

MCNode == DOMAIN MCDoc
MCKind == [n \in MCNode |-> MCDoc[n][1]]
MCKey == [n \in MCNode |-> MCDoc[n][2]]
MCItems == [n \in MCNode |-> MCDoc[n][3]]

MCDepth ==
  LET up(n) == {m \in MCNode : \E i \in DOMAIN MCItems[m] : \E j \in DOMAIN MCItems[m][i] : MCItems[m][i][j] = n}
      d[n \in MCNode] == IF up(n) = {} THEN 0 ELSE 1 + d[CHOOSE m \in up(n) : TRUE]
  IN d

Type(of) == [NoType EXCEPT !.of = of]
Maybe(of) == [NoType EXCEPT !.of = of, !.null = TRUE, !.need = FALSE]
Many(of) == [NoType EXCEPT !.of = of, !.many = TRUE]

MCModels ==
  "ApiResponse" :> [base |-> "BaseModel", own |-> ("code" :> Type("str") @@ "data" :> Maybe("T"))]
  @@ "Token" :> [base |-> "BaseModel", own |-> ("token" :> Type("str") @@ "mail" :> Type("str"))]
  @@ "Recap" :> [base |-> "Base", own |-> ("top" :> Maybe("CategoryShare"))]
  @@ "Base" :> [base |-> "BaseModel", own |-> ("categories" :> Many("CategoryShare") @@ "top" :> Type("str"))]
  @@ "CategoryShare" :> [base |-> "BaseModel", own |-> ("code" :> Type("str") @@ "share" :> Type("Decimal"))]
  @@ "Simulate" :> [base |-> "BaseModel", own |-> ("income" :> Maybe("Decimal") @@ "current_asset" :> Maybe("Decimal"))]
  @@ "Adjust" :> [base |-> "Simulate", own |-> ("delta" :> Type("Decimal") @@ "answers" :> Many("Answer"))]
  @@ "Answer" :> [base |-> "BaseModel", own |-> ("code" :> Maybe("str"))]

\* Auth as the manifest has it, and after a class has changed.
MCAuth == {
  "Token" :> [base |-> "", own |-> ("token" :> Type("str") @@ "mail" :> Maybe("str"))],
  "Token" :> [base |-> "", own |-> ("token" :> Type("Decimal") @@ "done" :> Type("bool"))]
    @@ "ApiResponse" :> [base |-> "", own |-> ("code" :> Maybe("str") @@ "data" :> Maybe("T"))]}

Api(id, group, root, of) ==
  [id |-> id, group |-> group, root |-> root, response |-> [of |-> of, wrapped |-> FALSE],
   method |-> "GET", auth |-> FALSE, operator |-> FALSE, transfers |-> FALSE,
   variables |-> {}, params |-> {}, body |-> "", request |-> NoNode]

Param(name, where, of) == [name |-> name, where |-> where, of |-> of, need |-> where = "path"]

MCApis == {
  [Api("login", "Auth", "env", "Token") EXCEPT
     !.response.wrapped = TRUE, !.method = "POST", !.body = "Login", !.request = "login"],
  [Api("refresh", "Auth", "env", "Token") EXCEPT !.response.wrapped = TRUE],
  [Api("account", "Asset", "acct", "") EXCEPT
     !.auth = TRUE, !.variables = {"accountId", "transactionId"},
     !.params = {Param("accountId", "path", "int"), Param("limit", "query", "int"),
                 Param("authorization", "header", "str")}],
  [Api("recap", "Work", "recap", "Recap") EXCEPT
     !.auth = TRUE, !.variables = {"user_id"}, !.params = {Param("user_id", "path", "int")},
     !.method = "POST", !.body = "Adjust", !.request = "adjust"],
  Api("schools", "Work", "schools", "School"),
  [Api("block", "Work", "block", "") EXCEPT !.operator = TRUE],
  [Api("transfer", "Banking", "block", "") EXCEPT !.auth = TRUE, !.transfers = TRUE],
  Api("mock", "Mock", "odd", ""),
  Api("odd", "Work", "odd", "")}

MCRevision == "refresh" :> [request |-> NoNode, root |-> "env2"]
MCCorrection == "schools" :> "schools2"
MCNewAuth == <<[Api("me", "Auth", "env", "Token") EXCEPT !.response.wrapped = TRUE]>>

MCExplained ==
  (({"Auth", "Banking", "Asset", "Work"} \X ({MCKey[n] : n \in MCNode} \ {"oddity"}))
   \cup ({"Auth", "Banking", "Asset", "Work"} \X
         {"Authorization", "Idempotency-Key", "X-Internal-Token", "accountId", "limit",
          "transactionId", "user_id", "current_asset"}))
  \ {<<"Banking", "limit">>}

MCNullTypes == {<<"Asset", "bankName">>}
MCForced == {<<"recap", "income">>}

Manifest(apis) == [apis |-> apis, models |-> MCModels]

Named(id) == CHOOSE a \in MCApis : a.id = id

\* Each API with the next one in either order, and one manifest of five.
Ring  == <<"login", "account", "recap", "refresh", "schools", "transfer", "block", "mock", "odd">>
Neighbour(i) == Ring[1 + (i % Len(Ring))]
Pairs == {Manifest(<<Named(Ring[i]), Named(Neighbour(i))>>) : i \in DOMAIN Ring}
         \cup {Manifest(<<Named(Neighbour(i)), Named(Ring[i])>>) : i \in DOMAIN Ring}
Five  == Manifest(<<Named("block"), Named("login"), Named("recap"), Named("account"), Named("refresh")>>)

MCManifests == Pairs \cup {Five}
=============================================================================
