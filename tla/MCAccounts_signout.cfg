SPECIFICATION Spec
CONSTANTS
    tom = tom
    ann = ann
    s1 = s1
    s2 = s2
    b1 = b1
    Usernames = {tom, ann}
    Owner = tom
    Sessions = {s1}
    Browsers = {b1}
    BrowserOf <- OneBrowser
    HasSecret = TRUE
    NoAccount = NoAccount
    NoToken = NoToken
    NoJob = NoJob
    MaxVersion = 3
PROPERTY SignOutLasts
