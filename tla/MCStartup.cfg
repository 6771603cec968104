\* Every group of variables in every combination, two proxies.
CONSTANTS
    Unset = Unset
    Invalid = Invalid
    NotANumber = NotANumber
    Unreadable = Unreadable
    Atoi <- Numbers
    Itoa <- Texts
    URL <- Issuers
    Files <- SecretFiles
    Addresses = {"client", "forged", "proxy1", "proxy2"}
    Environments <- AllEnvironments
    Headers <- ClientHeaders
    Client = "client"
    Proxies <- ProxyChain
    LogLevels = {"info"}
SPECIFICATION Spec
CHECK_DEADLOCK FALSE
INVARIANTS
    LoadedConfigsBuild
    RevocationIsOffOnlyOnRequest
    SettingsTakeEffect
    StartIsSound
    SourceIsNotForged
