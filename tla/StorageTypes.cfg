SPECIFICATION Spec
CONSTANTS
  Path <- SmallPath
  NameOrder <- Names
  Content = {"", "a"}
  Empty = ""
  Absent = Absent
  Dir = Dir
  Nil = Nil
  Type <- TwoTypes
  Mime <- MCMime
  Charset <- MCCharset
  MimeSize <- MCMimeSize
  CharsetSize <- MCCharsetSize
  UTF8 = "UTF-8"
  Magic <- MCMagic
  Experimental = FALSE
  OutOfBand = FALSE
  OctetStream <- MCOctetStream
VIEW WithoutReply
INVARIANT TypeOK
PROPERTY OnlyTargetChanges PutIsStored ImplementsDocStore
