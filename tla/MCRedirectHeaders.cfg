SPECIFICATION Spec
CONSTANTS
    Names = {"Referer", "Cookie", "cookie", "Content-Type"}
    KeyOf <- MCKeyOf
    Secure = {"https a", "https b"}
    Insecure = {"http a"}
    Values = {"v", "w"}
    PolicyLists <- MCPolicyLists
    Defaults <- MCDefaults
    MaxHops = 3
    MaxEntries = 2
INVARIANTS
    RepresentationsAgree
    RedirectsRevealNoMore
